---------------------------- MODULE GatewayProofs ----------------------------
(* What holds of the gateway for any number of requests, keys, contents and *)
(* upstreams.                                                               *)
EXTENDS Gateway, TLAPS

USE GatewayConstants, GatewaySentinels

-----------------------------------------------------------------------------
(* Type correctness: first what the helpers return *)

LEMMA UrlsLen ==
  ASSUME NEW k \in Keys
  PROVE  Len(UrlsOf[k]) \in Nat /\ 1 <= Len(UrlsOf[k])
OBVIOUS

LEMMA FilePathType ==
  ASSUME TablesOK, NEW k \in Keys, NEW row \in Record \cup {NoRecord}
  PROVE  FilePath(k, row) \in Contents \cup {Missing}
BY DEF TablesOK, FilePath, IsFile

LEMMA ServableType ==
  ASSUME TablesOK, NEW k \in Keys, NEW file, Servable(k, file)
  PROVE  /\ file \in Contents
         /\ artifacts[k] \in Record
         /\ artifacts[k].sha \in Contents
<1>1. file \in Contents
  BY DEF TablesOK, Servable, IsFile
<1>2. artifacts[k] \in Record
  BY DEF TablesOK, Servable
<1> QED
  BY <1>1, <1>2 DEF Record

LEMMA CapturedType ==
  ASSUME TablesOK, NEW k \in Keys, NEW m
  PROVE  Captured(k, m) \in Contents \cup {Missing}
<1>1. artifacts[k] \in Record \cup {NoRecord}
  BY DEF TablesOK
<1> QED
  BY <1>1, FilePathType DEF Captured

LEMMA ReusableType ==
  ASSUME TablesOK, NEW k \in Keys, NEW row \in Reusable(k)
  PROVE  /\ row \in Record
         /\ \E j \in Keys : /\ artifacts[j] = row
                            /\ PoolOf[j] = PoolOf[k]
                            /\ IsMetadata(j) = IsMetadata(k)
         /\ \E i \in DOMAIN UrlsOf[k] : UrlsOf[k][i] \in {row.up, row.final}
BY DEF TablesOK, Reusable, FindByUpstreamUrl

LEMMA RenewedType ==
  ASSUME NEW row \in Record
  PROVE  /\ Renewed(row) \in Record
         /\ Renewed(row).sha = row.sha
         /\ Renewed(row).up = row.up
         /\ Renewed(row).final = row.final
BY DEF Record, Renewed

LEMMA NewRowType ==
  ASSUME PhasesOK, LocalsOK, NEW t \in Tasks, pc[t] # "idle",
         NEW c \in Contents, NEW final \in FinalsOf[Url(t)]
  PROVE  /\ Url(t) \in Urls
         /\ final \in Urls
         /\ NewRow(t, c, final) \in Record
         /\ NewRow(t, c, final).sha = c
         /\ NewRow(t, c, final).final = final
         /\ NewRow(t, c, final).up \in {NoUrl, Url(t)}
<1>1. key[t] \in Keys /\ url[t] \in 1..Len(UrlsOf[key[t]])
  BY UrlsLen DEF PhasesOK, LocalsOK
<1>2. Url(t) \in Urls
  BY <1>1 DEF Url
<1> QED
  BY <1>2 DEF NewRow, RecordedUrl, Record

(* Then what they write *)

LEMMA AcceptType ==
  ASSUME PhasesOK, NEW t \in Tasks, NEW k \in Keys, NEW m \in {"HEAD", "GET"},
         Accept(t, k, m), pc' \in [Tasks -> Phases],
         \A s \in Tasks \ {t} : pc'[s] = pc[s]
  PROVE  /\ PhasesOK'
         /\ key'[t] = k
         /\ \A s \in Tasks \ {t} : key'[s] = key[s]
BY DEF PhasesOK, Accept

LEMMA GotoType ==
  ASSUME PhasesOK, NEW t \in Tasks, pc[t] # "idle", UNCHANGED <<key, method>>,
         NEW phase \in Phases, pc' = [pc EXCEPT ![t] = phase]
  PROVE  PhasesOK'
BY DEF PhasesOK

LEMMA LockType ==
  ASSUME LocksOK, NEW t \in Tasks, NEW k \in Keys, NEW h \in Tasks \cup {NoTask, Leaked},
         lock' = [lock EXCEPT ![k] = h], waiters' = waiters
  PROVE  LocksOK'
BY DEF LocksOK

LEMMA AnswerType ==
  ASSUME ReplyOK, NEW t \in Tasks, NEW status \in Statuses,
         NEW file \in Contents \cup {Missing}, NEW sha \in Contents \cup {Missing},
         Answer(t, status, file, sha)
  PROVE  ReplyOK'
<1>1. [status |-> status, file |-> file, sha |-> sha] \in
        [status : Statuses, file : Contents \cup {Missing}, sha : Contents \cup {Missing}]
  OBVIOUS
<1> QED
  BY <1>1 DEF ReplyOK, Answer

LEMMA ForgetType ==
  ASSUME LocalsOK, NEW t \in Tasks, Forget(t),
         \A s \in Tasks \ {t} : key'[s] = key[s] /\ pc'[s] = pc[s],
         pc'[t] # "committing"
  PROVE  LocalsOK'
<1>1. /\ target' \in [Tasks -> Contents \cup {Missing}]
      /\ url' \in [Tasks -> Nat \ {0}]
      /\ notFound' \in [Tasks -> BOOLEAN]
      /\ fetched' \in [Tasks -> Record \cup {NoRecord}]
  BY DEF LocalsOK, Forget
<1>2. /\ url'[t] = 1
      /\ \A s \in Tasks \ {t} : url'[s] = url[s] /\ fetched'[s] = fetched[s]
  BY DEF LocalsOK, Forget
<1>3. \A s \in Tasks : key'[s] \in Keys => url'[s] <= Len(UrlsOf[key'[s]])
  BY <1>2, UrlsLen DEF LocalsOK
<1> QED
  BY <1>1, <1>2, <1>3 DEF LocalsOK

(* The locals of a task whose phase changes while they do not.              *)
LEMMA KeepType ==
  ASSUME LocalsOK, NEW t \in Tasks, UNCHANGED <<url, notFound, fetched>>,
         target' \in [Tasks -> Contents \cup {Missing}],
         \A s \in Tasks \ {t} : key'[s] = key[s] /\ pc'[s] = pc[s],
         pc'[t] # "committing",
         key'[t] = key[t] \/ url[t] = 1,
         pc'[t] \in {"idle", "waiting", "closing", "replied"} => url[t] = 1
  PROVE  LocalsOK'
BY UrlsLen DEF LocalsOK

LEMMA FailType ==
  ASSUME TypeOK, NEW t \in Tasks, NEW status \in Statuses, pc[t] # "idle",
         UNCHANGED <<key, method, waiters>>, Fail(t, status)
  PROVE  LocksOK' /\ PhasesOK' /\ LocalsOK' /\ ReplyOK'
<1>1. /\ lock' = [lock EXCEPT ![key[t]] = NoTask]
      /\ Answer(t, status, Missing, Missing)
      /\ Forget(t)
      /\ pc' = [pc EXCEPT ![t] = "replied"]
  BY DEF Fail, Goto
<1>2. key[t] \in Keys /\ pc \in [Tasks -> Phases]
  BY DEF TypeOK, PhasesOK
<1>3. LocksOK'
  BY <1>1, <1>2, LockType DEF TypeOK
<1>4. PhasesOK'
  BY <1>1, GotoType DEF TypeOK, Phases
<1>5. LocalsOK'
  BY <1>1, <1>2, ForgetType DEF TypeOK
<1>6. ReplyOK'
  BY <1>1, AnswerType DEF TypeOK
<1> QED
  BY <1>3, <1>4, <1>5, <1>6

LEMMA NextUrlType ==
  ASSUME TypeOK, NEW t \in Tasks, NEW none \in BOOLEAN,
         pc[t] # "idle", UNCHANGED <<key, method, waiters>>, NextUrl(t, none)
  PROVE  LocksOK' /\ PhasesOK' /\ LocalsOK' /\ ReplyOK'
<1>1. CASE /\ url[t] < Len(UrlsOf[key[t]])
           /\ url' = [url EXCEPT ![t] = @ + 1]
           /\ notFound' = [notFound EXCEPT ![t] = none]
           /\ Goto(t, "opening")
           /\ UNCHANGED <<lock, target, fetched, reply>>
  <2>1. pc' = [pc EXCEPT ![t] = "opening"]
    BY <1>1 DEF Goto
  <2>2. key[t] \in Keys /\ pc \in [Tasks -> Phases]
    BY DEF TypeOK, PhasesOK
  <2>3. url[t] + 1 <= Len(UrlsOf[key[t]]) /\ url[t] + 1 \in Nat \ {0}
    BY <1>1, <2>2, UrlsLen DEF TypeOK, LocalsOK
  <2>4. LocalsOK'
    BY <1>1, <2>1, <2>2, <2>3 DEF TypeOK, LocalsOK
  <2>5. PhasesOK'
    BY <2>1, GotoType DEF TypeOK, Phases
  <2> QED
    BY <1>1, <2>4, <2>5 DEF TypeOK, LocksOK, ReplyOK
<1>2. CASE Fail(t, IF none THEN "NotFound" ELSE "Unavailable")
  BY <1>2, FailType DEF Statuses
<1> QED
  BY <1>1, <1>2 DEF NextUrl

LEMMA BindType ==
  ASSUME TypeOK, NEW t \in Tasks, NEW k \in Keys, NEW m, NEW row \in Record,
         Bind(t, k, m, row), \A s \in Tasks \ {t} : key'[s] = key[s],
         pc[t] \in {"idle", "waiting"}
  PROVE  /\ TablesOK'
         /\ lock' \in [Keys -> Tasks \cup {NoTask, Leaked}]
         /\ LocalsOK'
         /\ ReplyOK'
         /\ \E phase \in {"replied", "opening"} : pc' = [pc EXCEPT ![t] = phase]
<1>1. FilePath(k, row) \in Contents \cup {Missing} /\ row.sha \in Contents
  BY FilePathType DEF TypeOK, Record
<1>2. artifacts' = [artifacts EXCEPT ![k] = row] /\ UNCHANGED <<blobs, published, seen>>
  BY DEF Bind
<1>3. TablesOK'
  BY <1>2 DEF TypeOK, TablesOK
<1>4. pc \in [Tasks -> Phases]
  BY DEF TypeOK, PhasesOK
<1>5. CASE /\ lock' = [lock EXCEPT ![k] = AfterCached(k, m)]
           /\ Answer(t, "REUSED", FilePath(k, row), row.sha)
           /\ Goto(t, "replied")
           /\ Forget(t)
  <2>1. pc' = [pc EXCEPT ![t] = "replied"]
    BY <1>5 DEF Goto
  <2>2. lock' \in [Keys -> Tasks \cup {NoTask, Leaked}]
    BY <1>5 DEF TypeOK, LocksOK, AfterCached
  <2>3. ReplyOK'
    BY <1>1, <1>5, AnswerType DEF TypeOK, Statuses
  <2>4. LocalsOK'
    BY <1>4, <1>5, <2>1, ForgetType DEF TypeOK
  <2> QED
    BY <1>3, <2>1, <2>2, <2>3, <2>4
<1>6. CASE /\ lock' = [lock EXCEPT ![k] = t]
           /\ Goto(t, "opening")
           /\ target' = [target EXCEPT ![t] = FilePath(k, row)]
           /\ UNCHANGED <<cursor, reply>>
  <2>1. pc' = [pc EXCEPT ![t] = "opening"] /\ UNCHANGED <<url, notFound, fetched, reply>>
    BY <1>6 DEF Goto, cursor
  <2>2. lock' \in [Keys -> Tasks \cup {NoTask, Leaked}]
    BY <1>6 DEF TypeOK, LocksOK
  <2>3. target' \in [Tasks -> Contents \cup {Missing}] /\ url[t] = 1
    BY <1>1, <1>6 DEF TypeOK, LocalsOK
  <2>4. LocalsOK'
    BY <1>4, <2>1, <2>3, KeepType DEF TypeOK
  <2> QED
    BY <1>3, <2>1, <2>2, <2>4 DEF TypeOK, ReplyOK
<1> QED
  BY <1>5, <1>6 DEF Bind

(* A row is written or not, and nothing else in the store.                  *)
LEMMA UseFailsType ==
  ASSUME TablesOK, NEW k \in Keys, NEW file, UseFails(k, file)
  PROVE  /\ TablesOK'
         /\ UNCHANGED <<blobs, published, seen>>
<1>1. artifacts' = artifacts \/ \E row \in Reusable(k) : artifacts' = [artifacts EXCEPT ![k] = Renewed(row)]
  BY DEF UseFails
<1>2. artifacts' = artifacts \/ \E row \in Record : artifacts' = [artifacts EXCEPT ![k] = row]
  BY <1>1, ReusableType, RenewedType
<1>3. artifacts \in [Keys -> Record \cup {NoRecord}]
  BY DEF TablesOK
<1>4. artifacts' \in [Keys -> Record \cup {NoRecord}]
  BY <1>2, <1>3
<1>5. UNCHANGED <<blobs, published, seen>>
  BY DEF UseFails
<1> QED
  BY <1>4, <1>5 DEF TablesOK

(* One step per action *)

LEMMA RequestType ==
  ASSUME TypeOK, NEW t \in Tasks, NEW k \in Keys, NEW m \in Methods,
         Request(t, k, m)
  PROVE  TypeOK'
<1> USE DEF Phases
<1>0. /\ m \in {"HEAD", "GET"}
      /\ artifacts[k] \in Record \cup {NoRecord}
      /\ pc \in [Tasks -> Phases]
  BY DEF TypeOK, TablesOK, PhasesOK
<1>1. CASE FastHit(t, k, m)
  <2>1. /\ Accept(t, k, m) /\ pc[t] = "idle"
        /\ pc' = [pc EXCEPT ![t] = "replied"]
        /\ UNCHANGED <<artifacts, blobs, published, seen, lock, waiters, target,
                       url, notFound, fetched>>
    BY <1>1 DEF FastHit, Goto, store, cursor
  <2>p. pc' \in [Tasks -> Phases] /\ \A s \in Tasks \ {t} : pc'[s] = pc[s]
    BY <1>0, <2>1
  <2>2. /\ Servable(k, FilePath(k, artifacts[k]))
        /\ Answer(t, "HIT", FilePath(k, artifacts[k]), artifacts[k].sha)
    BY <1>1 DEF FastHit
  <2>3. ReplyOK'
    BY <2>2, ServableType, AnswerType DEF TypeOK, Statuses
  <2>4. PhasesOK' /\ \A s \in Tasks \ {t} : key'[s] = key[s]
    BY <1>0, <2>1, <2>p, AcceptType DEF TypeOK
  <2>l. /\ target' \in [Tasks -> Contents \cup {Missing}]
        /\ url[t] = 1 /\ pc'[t] = "replied"
    BY <1>0, <2>1 DEF TypeOK, LocalsOK
  <2>5. LocalsOK'
    BY <2>1, <2>p, <2>4, <2>l, KeepType DEF TypeOK
  <2> QED
    BY <2>1, <2>3, <2>4, <2>5 DEF TypeOK, TablesOK, LocksOK
<1>2. CASE ArriveReuse(t, k, m)
  <2>1. /\ Accept(t, k, m) /\ pc[t] = "idle" /\ UNCHANGED waiters
        /\ \E row \in Reusable(k) : Bind(t, k, m, Renewed(row))
    BY <1>2 DEF ArriveReuse, Arrive, Reuse
  <2>2. PICK row \in Record : Bind(t, k, m, row)
    BY <2>1, ReusableType, RenewedType DEF TypeOK
  <2>3. \A s \in Tasks \ {t} : key'[s] = key[s]
    BY <2>1 DEF Accept, TypeOK, PhasesOK
  <2>4. /\ TablesOK' /\ LocalsOK' /\ ReplyOK'
        /\ lock' \in [Keys -> Tasks \cup {NoTask, Leaked}]
        /\ \E phase \in {"replied", "opening"} : pc' = [pc EXCEPT ![t] = phase]
    BY <2>1, <2>2, <2>3, BindType
  <2>p. pc' \in [Tasks -> Phases] /\ \A s \in Tasks \ {t} : pc'[s] = pc[s]
    BY <1>0, <2>4
  <2>5. PhasesOK'
    BY <1>0, <2>1, <2>p, AcceptType DEF TypeOK
  <2> QED
    BY <2>1, <2>4, <2>5 DEF TypeOK, LocksOK
<1>3. CASE ArriveOpen(t, k, m)
  <2>1. /\ Accept(t, k, m) /\ pc[t] = "idle"
        /\ pc' = [pc EXCEPT ![t] = "opening"]
        /\ lock' = [lock EXCEPT ![k] = t]
        /\ target' = [target EXCEPT ![t] = Captured(k, m)]
        /\ UNCHANGED <<artifacts, blobs, published, seen, waiters, url, notFound,
                       fetched, reply>>
    BY <1>3 DEF ArriveOpen, Arrive, Open, Goto, store, cursor
  <2>p. pc' \in [Tasks -> Phases] /\ \A s \in Tasks \ {t} : pc'[s] = pc[s]
    BY <1>0, <2>1
  <2>2. PhasesOK' /\ \A s \in Tasks \ {t} : key'[s] = key[s]
    BY <1>0, <2>1, <2>p, AcceptType DEF TypeOK
  <2>3. target' \in [Tasks -> Contents \cup {Missing}]
    BY <2>1, CapturedType DEF TypeOK, LocalsOK
  <2>l. url[t] = 1 /\ pc'[t] = "opening"
    BY <1>0, <2>1 DEF TypeOK, LocalsOK
  <2>4. LocalsOK'
    BY <2>1, <2>p, <2>2, <2>3, <2>l, KeepType DEF TypeOK
  <2>5. LocksOK'
    BY <2>1, LockType DEF TypeOK
  <2> QED
    BY <2>1, <2>2, <2>4, <2>5 DEF TypeOK, TablesOK, ReplyOK
<1>4. CASE ArriveWait(t, k, m)
  <2>1. /\ Accept(t, k, m) /\ pc[t] = "idle"
        /\ pc' = [pc EXCEPT ![t] = "waiting"]
        /\ waiters' = [waiters EXCEPT ![k] = Append(@, t)]
        /\ target' = [target EXCEPT ![t] = Captured(k, m)]
        /\ UNCHANGED <<artifacts, blobs, published, seen, lock, url, notFound,
                       fetched, reply>>
    BY <1>4 DEF ArriveWait, Arrive, Goto, store, cursor
  <2>p. pc' \in [Tasks -> Phases] /\ \A s \in Tasks \ {t} : pc'[s] = pc[s]
    BY <1>0, <2>1
  <2>2. PhasesOK' /\ \A s \in Tasks \ {t} : key'[s] = key[s]
    BY <1>0, <2>1, <2>p, AcceptType DEF TypeOK
  <2>3. target' \in [Tasks -> Contents \cup {Missing}]
    BY <2>1, CapturedType DEF TypeOK, LocalsOK
  <2>l. url[t] = 1 /\ pc'[t] = "waiting"
    BY <1>0, <2>1 DEF TypeOK, LocalsOK
  <2>4. LocalsOK'
    BY <2>1, <2>p, <2>2, <2>3, <2>l, KeepType DEF TypeOK
  <2>5. LocksOK'
    BY <2>1 DEF TypeOK, LocksOK
  <2> QED
    BY <2>1, <2>2, <2>4, <2>5 DEF TypeOK, TablesOK, ReplyOK
<1>5. CASE ArriveFails(t, k, m)
  <2>1. /\ Accept(t, k, m) /\ pc[t] = "idle"
        /\ pc' = [pc EXCEPT ![t] = "replied"]
        /\ Answer(t, "Broken", Missing, Missing)
        /\ UNCHANGED <<lock, waiters, target, url, notFound, fetched>>
    BY <1>5 DEF ArriveFails, Goto, cursor
  <2>p. pc' \in [Tasks -> Phases] /\ \A s \in Tasks \ {t} : pc'[s] = pc[s]
    BY <1>0, <2>1
  <2>2. TablesOK'
    BY <1>5, UseFailsType DEF ArriveFails, TypeOK
  <2>3. ReplyOK'
    BY <2>1, AnswerType DEF TypeOK, Statuses
  <2>4. PhasesOK' /\ \A s \in Tasks \ {t} : key'[s] = key[s]
    BY <1>0, <2>1, <2>p, AcceptType DEF TypeOK
  <2>l. /\ target' \in [Tasks -> Contents \cup {Missing}]
        /\ url[t] = 1 /\ pc'[t] = "replied"
    BY <1>0, <2>1 DEF TypeOK, LocalsOK
  <2>5. LocalsOK'
    BY <2>1, <2>p, <2>4, <2>l, KeepType DEF TypeOK
  <2> QED
    BY <2>1, <2>2, <2>3, <2>4, <2>5 DEF TypeOK, LocksOK
<1> QED
  BY <1>1, <1>2, <1>3, <1>4, <1>5 DEF Request

LEMMA WakeType ==
  ASSUME TypeOK, NEW t \in Tasks, WakeHit(t) \/ WakeReuse(t) \/ WakeOpen(t) \/ WakeFails(t)
  PROVE  TypeOK'
<1> USE DEF Phases
<1> DEFINE k == key[t]
<1>0. /\ pc[t] = "waiting" /\ UNCHANGED <<key, method>>
      /\ waiters[k] # <<>> /\ waiters' = [waiters EXCEPT ![k] = Tail(@)]
  BY DEF WakeHit, WakeReuse, WakeOpen, WakeFails, Wake
<1>1. k \in Keys /\ pc \in [Tasks -> Phases]
  BY <1>0 DEF TypeOK, PhasesOK
<1>2. waiters' \in [Keys -> Seq(Tasks)]
  BY <1>0, <1>1 DEF TypeOK, LocksOK
<1> HIDE DEF k
<1>3. CASE WakeHit(t)
  <2>1. /\ lock' = [lock EXCEPT ![k] = AfterCached(k, method[t])]
        /\ pc' = [pc EXCEPT ![t] = "replied"]
        /\ Forget(t)
        /\ UNCHANGED <<artifacts, blobs, published, seen>>
    BY <1>3 DEF WakeHit, Goto, store, k
  <2>2. Servable(k, SecondLook(t, k)) /\ Answer(t, "HIT", SecondLook(t, k), artifacts[k].sha)
    BY <1>3 DEF WakeHit, k
  <2>3. ReplyOK'
    BY <1>1, <2>2, ServableType, AnswerType DEF TypeOK, Statuses
  <2>4. lock' \in [Keys -> Tasks \cup {NoTask, Leaked}]
    BY <1>1, <2>1 DEF TypeOK, LocksOK, AfterCached
  <2>5. PhasesOK' /\ LocalsOK'
    BY <1>0, <1>1, <2>1, GotoType, ForgetType DEF TypeOK
  <2> QED
    BY <1>2, <2>1, <2>3, <2>4, <2>5 DEF TypeOK, TablesOK, LocksOK
<1>4. CASE WakeReuse(t)
  <2>1. \E row \in Reusable(k) : Bind(t, k, method[t], Renewed(row))
    BY <1>4 DEF WakeReuse, Reuse, k
  <2>2. PICK row \in Record : Bind(t, k, method[t], row)
    BY <1>1, <2>1, ReusableType, RenewedType DEF TypeOK
  <2>3. /\ TablesOK' /\ LocalsOK' /\ ReplyOK'
        /\ lock' \in [Keys -> Tasks \cup {NoTask, Leaked}]
        /\ \E phase \in {"replied", "opening"} : pc' = [pc EXCEPT ![t] = phase]
    BY <1>0, <1>1, <2>2, BindType
  <2>4. PhasesOK'
    BY <1>0, <2>3, GotoType DEF TypeOK
  <2> QED
    BY <1>2, <2>3, <2>4 DEF TypeOK, LocksOK
<1>5. CASE WakeOpen(t)
  <2>1. /\ pc' = [pc EXCEPT ![t] = "opening"]
        /\ lock' = [lock EXCEPT ![k] = t]
        /\ target' = [target EXCEPT ![t] = target[t]]
        /\ UNCHANGED <<artifacts, blobs, published, seen, url, notFound, fetched, reply>>
    BY <1>5 DEF WakeOpen, Open, Goto, store, cursor, k
  <2>2. target' \in [Tasks -> Contents \cup {Missing}]
    BY <2>1 DEF TypeOK, LocalsOK
  <2>3. PhasesOK' /\ LocalsOK'
    BY <1>0, <1>1, <2>1, <2>2, GotoType, KeepType DEF TypeOK
  <2>4. lock' \in [Keys -> Tasks \cup {NoTask, Leaked}]
    BY <1>1, <2>1 DEF TypeOK, LocksOK
  <2> QED
    BY <1>2, <2>1, <2>3, <2>4 DEF TypeOK, TablesOK, LocksOK, ReplyOK
<1>6. CASE WakeFails(t)
  <2>1. /\ lock' = [lock EXCEPT ![k] = NoTask]
        /\ pc' = [pc EXCEPT ![t] = "replied"]
        /\ Forget(t) /\ Answer(t, "Broken", Missing, Missing)
    BY <1>6 DEF WakeFails, Fail, Goto, k
  <2>2. TablesOK'
    BY <1>1, <1>6, UseFailsType DEF WakeFails, TypeOK, k
  <2>3. ReplyOK'
    BY <2>1, AnswerType DEF TypeOK, Statuses
  <2>4. lock' \in [Keys -> Tasks \cup {NoTask, Leaked}]
    BY <1>1, <2>1 DEF TypeOK, LocksOK
  <2>5. PhasesOK' /\ LocalsOK'
    BY <1>0, <1>1, <2>1, GotoType, ForgetType DEF TypeOK
  <2> QED
    BY <1>2, <2>2, <2>3, <2>4, <2>5 DEF TypeOK, LocksOK
<1> QED
  BY <1>3, <1>4, <1>5, <1>6

LEMMA ExchangeType ==
  ASSUME TypeOK, NEW t \in Tasks,
         \/ Respond200(t) \/ Respond304(t) \/ Respond404(t)
         \/ RespondError(t) \/ RespondOther(t) \/ AttemptFails(t)
  PROVE  TypeOK'
<1> USE DEF Phases
<1>0. /\ pc[t] = "opening" /\ UNCHANGED <<waiters, key, method>>
  BY DEF Upstream, Respond200, Respond304, Respond404, RespondError, RespondOther, AttemptFails
<1>1. key[t] \in Keys /\ pc \in [Tasks -> Phases]
  BY <1>0 DEF TypeOK, PhasesOK
<1>2. CASE Respond200(t)
  <2>1. PICK phase \in {"reading", "ready"} : pc' = [pc EXCEPT ![t] = phase]
    BY <1>2 DEF Respond200, Goto
  <2>2. UNCHANGED <<artifacts, blobs, published, seen, lock, target, url, notFound,
                    fetched, reply>>
    BY <1>2 DEF Respond200, store, cursor
  <2>3. PhasesOK'
    BY <1>0, <2>1, GotoType DEF TypeOK
  <2>4. LocalsOK'
    BY <1>0, <1>1, <2>1, <2>2 DEF TypeOK, LocalsOK
  <2> QED
    BY <1>0, <2>2, <2>3, <2>4 DEF TypeOK, TablesOK, LocksOK, ReplyOK
<1>3. CASE Respond304(t)
  <2>1. /\ artifacts' = [artifacts EXCEPT ![key[t]].fresh = TRUE]
        /\ artifacts[key[t]] \in Record
        /\ UNCHANGED <<blobs, published, seen>>
    BY <1>1, <1>3 DEF Respond304, TypeOK, TablesOK
  <2>2. /\ lock' = [lock EXCEPT ![key[t]] = NoTask]
        /\ Forget(t)
        /\ pc' = [pc EXCEPT ![t] = "replied"]
        /\ Answer(t, "REVALIDATED", target[t], artifacts[key[t]].sha)
    BY <1>3 DEF Respond304, Goto
  <2>3. TablesOK'
    BY <1>1, <2>1, RenewedType DEF TypeOK, TablesOK, Renewed
  <2>4. target[t] \in Contents \cup {Missing} /\ artifacts[key[t]].sha \in Contents
    BY <2>1 DEF TypeOK, LocalsOK, Record
  <2>5. ReplyOK'
    BY <2>2, <2>4, AnswerType DEF TypeOK, Statuses
  <2>6. LocksOK' /\ PhasesOK' /\ LocalsOK'
    BY <1>0, <1>1, <2>2, LockType, GotoType, ForgetType DEF TypeOK
  <2> QED
    BY <2>3, <2>5, <2>6 DEF TypeOK
<1>4. CASE Respond404(t) \/ RespondError(t) \/ RespondOther(t) \/ AttemptFails(t)
  <2>1. /\ UNCHANGED <<artifacts, blobs, published, seen>>
        /\ \/ \E status \in {"NotFound", "Unavailable", "Broken"} : Fail(t, status)
           \/ NextUrl(t, notFound[t]) \/ NextUrl(t, FALSE)
    BY <1>4 DEF Respond404, RespondError, RespondOther, AttemptFails, store
  <2>2. notFound[t] \in BOOLEAN
    BY DEF TypeOK, LocalsOK
  <2>3. LocksOK' /\ PhasesOK' /\ LocalsOK' /\ ReplyOK'
    BY <1>0, <2>1, <2>2, FailType, NextUrlType DEF Statuses
  <2> QED
    BY <2>1, <2>3 DEF TypeOK, TablesOK
<1> QED
  BY <1>2, <1>3, <1>4

LEMMA BodyType ==
  ASSUME TypeOK, NEW t \in Tasks,
         \/ StartBody(t) \/ Abandon(t) \/ Disconnect(t) \/ Publish(t)
         \/ BodyFails(t) \/ Commit(t) \/ CommitFails(t) \/ Close(t)
  PROVE  TypeOK'
<1> USE DEF Phases
<1>0. /\ pc[t] \in {"ready", "reading", "streaming", "committing", "closing"}
      /\ UNCHANGED <<waiters, key, method>>
  BY DEF StartBody, Abandon, Disconnect, Publish, BodyFails, Commit, CommitFails, Close
<1>1. key[t] \in Keys /\ pc \in [Tasks -> Phases]
  BY <1>0 DEF TypeOK, PhasesOK
<1>2. CASE StartBody(t)
  <2>1. /\ pc' = [pc EXCEPT ![t] = "streaming"]
        /\ UNCHANGED <<artifacts, blobs, published, seen, lock, target, url, notFound,
                       fetched, reply>>
    BY <1>2 DEF StartBody, Goto, store, cursor
  <2> QED
    BY <1>0, <1>1, <2>1 DEF TypeOK, TablesOK, LocksOK, PhasesOK, LocalsOK, ReplyOK
<1>3. CASE Abandon(t)
  <2>1. /\ pc' = [pc EXCEPT ![t] = "replied"]
        /\ lock' = [lock EXCEPT ![key[t]] = Leaked]
        /\ Forget(t)
        /\ UNCHANGED <<artifacts, blobs, published, seen, reply>>
    BY <1>3 DEF Abandon, Goto, store
  <2>2. LocksOK' /\ PhasesOK' /\ LocalsOK'
    BY <1>0, <1>1, <2>1, LockType, GotoType, ForgetType DEF TypeOK
  <2> QED
    BY <2>1, <2>2 DEF TypeOK, TablesOK, ReplyOK
<1>4. CASE Disconnect(t)
  <2>1. /\ pc' = [pc EXCEPT ![t] = "closing"]
        /\ Forget(t)
        /\ UNCHANGED <<artifacts, blobs, published, seen, lock, reply>>
    BY <1>4 DEF Disconnect, Goto, store
  <2>2. PhasesOK' /\ LocalsOK'
    BY <1>0, <1>1, <2>1, GotoType, ForgetType DEF TypeOK
  <2> QED
    BY <1>0, <2>1, <2>2 DEF TypeOK, TablesOK, LocksOK, ReplyOK
<1>5. CASE Publish(t)
  <2>1. PICK c \in Contents, final \in FinalsOf[Url(t)] :
          /\ blobs' = blobs \cup {<<PoolOf[key[t]], c>>}
          /\ published' = [published EXCEPT ![key[t]] = c]
          /\ seen' = seen \cup {<<Url(t), c>>, <<final, c>>}
          /\ fetched' = [fetched EXCEPT ![t] = NewRow(t, c, final)]
    BY <1>5 DEF Publish
  <2>2. /\ pc' = [pc EXCEPT ![t] = "committing"]
        /\ UNCHANGED <<artifacts, lock, target, url, notFound, reply>>
    BY <1>5 DEF Publish, Goto
  <2>3. Url(t) \in Urls /\ final \in Urls /\ NewRow(t, c, final) \in Record
    BY <1>0, NewRowType DEF TypeOK
  <2>4. TablesOK'
    BY <1>1, <2>1, <2>2, <2>3 DEF TypeOK, TablesOK
  <2>5. fetched' \in [Tasks -> Record \cup {NoRecord}] /\ fetched'[t] \in Record
        /\ \A s \in Tasks \ {t} : fetched'[s] = fetched[s]
    BY <2>1, <2>3 DEF TypeOK, LocalsOK
  <2>6. LocalsOK'
    BY <1>0, <1>1, <2>2, <2>5 DEF TypeOK, LocalsOK
  <2>7. PhasesOK'
    BY <1>0, <2>2, GotoType DEF TypeOK
  <2> QED
    BY <1>0, <2>2, <2>4, <2>6, <2>7 DEF TypeOK, LocksOK, ReplyOK
<1>6. CASE BodyFails(t) \/ CommitFails(t)
  <2>1. UNCHANGED <<artifacts, blobs, published, seen>>
    BY <1>6 DEF BodyFails, CommitFails, store
  <2>2. CASE Fail(t, "Broken") \/ NextUrl(t, FALSE)
    <3>1. LocksOK' /\ PhasesOK' /\ LocalsOK' /\ ReplyOK'
      BY <1>0, <2>2, FailType, NextUrlType DEF Statuses
    <3> QED
      BY <2>1, <3>1 DEF TypeOK, TablesOK
  <2>a. pc[t] = "committing" => fetched[t].sha \in Contents
    BY DEF TypeOK, LocalsOK, Record
  <2>3. CASE /\ Goto(t, "closing") /\ Forget(t) /\ UNCHANGED lock
             /\ \/ Answer(t, "Broken", Missing, Missing)
                \/ /\ pc[t] = "committing"
                   /\ Answer(t, "Unkept", fetched[t].sha, fetched[t].sha)
    <3>1. pc' = [pc EXCEPT ![t] = "closing"]
      BY <2>3 DEF Goto
    <3>2. PhasesOK' /\ LocalsOK'
      BY <1>0, <1>1, <2>3, <3>1, GotoType, ForgetType DEF TypeOK
    <3>3. ReplyOK'
      BY <2>3, <2>a, AnswerType DEF TypeOK, Statuses
    <3> QED
      BY <1>0, <2>1, <2>3, <3>2, <3>3 DEF TypeOK, TablesOK, LocksOK
  <2> QED
    BY <1>6, <2>2, <2>3 DEF BodyFails, CommitFails
<1>7. CASE Commit(t)
  <2>1. /\ pc[t] = "committing"
        /\ artifacts' = [artifacts EXCEPT ![key[t]] = fetched[t]]
        /\ Answer(t, "MISS", FilePath(key[t], fetched[t]), fetched[t].sha)
        /\ Forget(t)
        /\ UNCHANGED <<blobs, published, seen>>
    BY <1>7 DEF Commit
  <2>2. \E phase \in {"replied", "closing"} : pc' = [pc EXCEPT ![t] = phase]
    BY <1>7 DEF Commit, Goto
  <2>3. lock' = [lock EXCEPT ![key[t]] = NoTask] \/ lock' = lock
    BY <1>7 DEF Commit
  <2>4. fetched[t] \in Record
    BY <2>1 DEF TypeOK, LocalsOK
  <2>5. FilePath(key[t], fetched[t]) \in Contents \cup {Missing} /\ fetched[t].sha \in Contents
    BY <1>1, <2>4, FilePathType DEF TypeOK, Record
  <2>6. ReplyOK'
    BY <2>1, <2>5, AnswerType DEF TypeOK, Statuses
  <2>7. TablesOK' /\ LocksOK'
    BY <1>0, <1>1, <2>1, <2>3, <2>4 DEF TypeOK, TablesOK, LocksOK
  <2>8. PhasesOK' /\ LocalsOK'
    BY <1>0, <1>1, <2>1, <2>2, GotoType, ForgetType DEF TypeOK
  <2> QED
    BY <2>6, <2>7, <2>8 DEF TypeOK
<1>8. CASE Close(t)
  <2>1. /\ pc[t] = "closing" /\ pc' = [pc EXCEPT ![t] = "replied"]
        /\ lock' = [lock EXCEPT ![key[t]] = NoTask]
        /\ UNCHANGED <<artifacts, blobs, published, seen, target, url, notFound,
                       fetched, reply>>
    BY <1>8 DEF Close, Goto, store, cursor
  <2> QED
    BY <1>0, <1>1, <2>1 DEF TypeOK, TablesOK, LocksOK, PhasesOK, LocalsOK, ReplyOK
<1> QED
  BY <1>2, <1>3, <1>4, <1>5, <1>6, <1>7, <1>8

LEMMA LeaveType ==
  ASSUME TypeOK, NEW t \in Tasks, Leave(t)
  PROVE  TypeOK'
<1>1. /\ pc[t] = "replied" /\ pc' = [pc EXCEPT ![t] = "idle"]
      /\ key' = [key EXCEPT ![t] = NoKey]
      /\ method' = [method EXCEPT ![t] = "GET"]
      /\ reply' = [reply EXCEPT ![t] = NoReply]
      /\ UNCHANGED <<artifacts, blobs, published, seen, lock, waiters, target,
                     url, notFound, fetched>>
  BY DEF Leave, Goto, store, cursor
<1>2. PhasesOK'
  BY <1>1 DEF TypeOK, PhasesOK, Phases
<1>3. ReplyOK'
  BY <1>1 DEF TypeOK, ReplyOK, NoReply, Statuses
<1>4. LocalsOK'
  BY <1>1 DEF TypeOK, LocalsOK, PhasesOK
<1> QED
  BY <1>1, <1>2, <1>3, <1>4 DEF TypeOK, TablesOK, LocksOK

LEMMA ExpireType ==
  ASSUME TypeOK, NEW k \in Keys, Expire(k)
  PROVE  TypeOK'
<1>1. /\ artifacts[k] \in Record
      /\ artifacts' = [artifacts EXCEPT ![k] = [artifacts[k] EXCEPT !.fresh = FALSE]]
      /\ UNCHANGED <<blobs, published, seen, lock, waiters, pc, key, method, target,
                     url, notFound, fetched, reply>>
  BY DEF Expire, TypeOK, TablesOK, cursor
<1>2. [artifacts[k] EXCEPT !.fresh = FALSE] \in Record
  BY <1>1 DEF Record
<1>3. TablesOK'
  BY <1>1, <1>2 DEF TypeOK, TablesOK
<1> QED
  BY <1>1, <1>3 DEF TypeOK, LocksOK, PhasesOK, LocalsOK, ReplyOK

LEMMA CrashType ==
  ASSUME TypeOK, Crash \/ \E b \in Pools \X Contents : LoseBlob(b)
  PROVE  TypeOK'
<1>1. CASE Crash
  <2>1. TablesOK' /\ LocksOK'
    BY <1>1 DEF TypeOK, TablesOK, LocksOK, Crash
  <2>2. PhasesOK' /\ LocalsOK'
    BY <1>1 DEF TypeOK, PhasesOK, LocalsOK, Crash, Phases
  <2>3. ReplyOK'
    BY <1>1 DEF TypeOK, ReplyOK, Crash, NoReply, Statuses
  <2> QED
    BY <2>1, <2>2, <2>3 DEF TypeOK
<1>2. CASE \E b \in Pools \X Contents : LoseBlob(b)
  BY <1>2 DEF LoseBlob, TypeOK, TablesOK, LocksOK, PhasesOK, LocalsOK, ReplyOK, cursor
<1> QED
  BY <1>1, <1>2

LEMMA InitType == Init => TypeOK
<1> SUFFICES ASSUME Init PROVE TypeOK
  OBVIOUS
<1>1. TablesOK /\ LocksOK
  BY DEF Init, TablesOK, LocksOK
<1>2. PhasesOK /\ LocalsOK
  BY DEF Init, PhasesOK, LocalsOK, Phases
<1>3. ReplyOK
  BY DEF Init, ReplyOK, NoReply, Statuses
<1> QED
  BY <1>1, <1>2, <1>3 DEF TypeOK

LEMMA NextType == TypeOK /\ [Next]_vars => TypeOK'
<1> SUFFICES ASSUME TypeOK, [Next]_vars PROVE TypeOK'
  OBVIOUS
<1>1. CASE \E t \in Tasks, k \in Keys, m \in Methods : Request(t, k, m)
  BY <1>1, RequestType
<1>2. CASE \E t \in Tasks : Handle(t)
  BY <1>2, WakeType, ExchangeType, BodyType DEF Handle
<1>3. CASE \E t \in Tasks : Leave(t)
  BY <1>3, LeaveType
<1>4. CASE \E k \in Keys : Expire(k)
  BY <1>4, ExpireType
<1>5. CASE Crash \/ \E b \in Pools \X Contents : LoseBlob(b)
  BY <1>5, CrashType
<1>6. CASE UNCHANGED vars
  BY <1>6 DEF vars, TypeOK, TablesOK, LocksOK, PhasesOK, LocalsOK, ReplyOK
<1> QED
  BY <1>1, <1>2, <1>3, <1>4, <1>5, <1>6 DEF Next

(* Whatever requests, upstreams, crashes and faults do, every variable      *)
(* keeps its type, and a task at work has a key, an index inside the key's  *)
(* list of URLs (get_url's and get_streaming's loops never run off it), and *)
(* a row to write when it comes to upsert.                                  *)
THEOREM TypeCorrect == Spec => []TypeOK
BY InitType, NextType, PTL DEF Spec
-----------------------------------------------------------------------------
(* The lock: a task in a holding phase is the one its key's lock names.     *)

LockOwned == \A t \in Tasks : pc[t] \in Holding => lock[key[t]] = t

(* A step of t on k's lock, taken while it is free or t's own.              *)
LEMMA LockStep ==
  ASSUME TypeOK, LockOwned, NEW t \in Tasks, NEW k \in Keys, NEW h,
         \A s \in Tasks \ {t} : pc'[s] = pc[s] /\ key'[s] = key[s],
         \/ lock' = lock
         \/ lock' = [lock EXCEPT ![k] = h] /\ lock[k] \in {NoTask, t},
         pc'[t] \in Holding => lock'[key'[t]] = t
  PROVE  LockOwned'
<1> SUFFICES ASSUME NEW s \in Tasks, pc'[s] \in Holding, s # t
             PROVE  lock'[key'[s]] = s
  BY DEF LockOwned
<1>1. lock[key[s]] = s /\ key'[s] = key[s]
  BY DEF LockOwned
<1>2. key[s] \in Keys /\ lock \in [Keys -> Tasks \cup {NoTask, Leaked}]
  BY DEF TypeOK, PhasesOK, LocksOK, Holding
<1> QED
  BY <1>1, <1>2

LEMMA BindLock ==
  ASSUME TypeOK, LockOwned, NEW t \in Tasks, NEW k \in Keys, NEW m, NEW row,
         pc[t] \in {"idle", "waiting"}, key'[t] = k, LockFree(k), Bind(t, k, m, row),
         \A s \in Tasks \ {t} : key'[s] = key[s]
  PROVE  LockOwned'
<1>1. /\ pc \in [Tasks -> Phases] /\ lock \in [Keys -> Tasks \cup {NoTask, Leaked}]
      /\ lock[k] = NoTask
  BY DEF TypeOK, PhasesOK, LocksOK, LockFree
<1>2. CASE lock' = [lock EXCEPT ![k] = AfterCached(k, m)] /\ Goto(t, "replied")
  BY <1>1, <1>2, LockStep DEF Goto, Holding
<1>3. CASE lock' = [lock EXCEPT ![k] = t] /\ Goto(t, "opening")
  BY <1>1, <1>3, LockStep DEF Goto
<1> QED
  BY <1>2, <1>3 DEF Bind

LEMMA OpenLock ==
  ASSUME TypeOK, LockOwned, NEW t \in Tasks, NEW k \in Keys, NEW file,
         key'[t] = k, LockFree(k), Open(t, k, file),
         \A s \in Tasks \ {t} : key'[s] = key[s]
  PROVE  LockOwned'
<1>1. /\ pc \in [Tasks -> Phases] /\ lock \in [Keys -> Tasks \cup {NoTask, Leaked}]
      /\ lock[k] = NoTask
  BY DEF TypeOK, PhasesOK, LocksOK, LockFree
<1> QED
  BY <1>1, LockStep DEF Open, Goto

LEMMA RequestLock ==
  ASSUME TypeOK, LockOwned, NEW t \in Tasks, NEW k \in Keys, NEW m \in Methods,
         Request(t, k, m)
  PROVE  LockOwned'
<1>1. /\ pc[t] = "idle"
      /\ key \in [Tasks -> Keys \cup {NoKey}] /\ pc \in [Tasks -> Phases]
      /\ key' = [key EXCEPT ![t] = k]
  BY DEF Request, FastHit, ArriveReuse, ArriveOpen, ArriveWait, ArriveFails, Arrive, Accept, TypeOK, PhasesOK
<1>2. CASE FastHit(t, k, m) \/ ArriveWait(t, k, m) \/ ArriveFails(t, k, m)
  <2>1. lock' = lock /\ \E phase \in {"replied", "waiting"} : pc' = [pc EXCEPT ![t] = phase]
    BY <1>2 DEF FastHit, ArriveWait, ArriveFails, Goto
  <2> QED
    BY <1>1, <2>1, LockStep DEF Holding
<1>3. CASE ArriveReuse(t, k, m)
  BY <1>1, <1>3, BindLock DEF ArriveReuse, Reuse
<1>4. CASE ArriveOpen(t, k, m)
  BY <1>1, <1>4, OpenLock DEF ArriveOpen
<1> QED
  BY <1>2, <1>3, <1>4 DEF Request

(* What Fail, NextUrl and the end of an exchange do to the lock.            *)
LEMMA ReleaseLock ==
  ASSUME TypeOK, LockOwned, NEW t \in Tasks, NEW h, NEW phase,
         pc[t] \in Holding, UNCHANGED key, pc' = [pc EXCEPT ![t] = phase],
         \/ lock' = lock
         \/ lock' = [lock EXCEPT ![key[t]] = h] /\ phase = "replied"
  PROVE  LockOwned'
<1>1. /\ key[t] \in Keys /\ pc \in [Tasks -> Phases] /\ lock[key[t]] = t
  BY DEF TypeOK, PhasesOK, LockOwned, Holding
<1>2. pc'[t] \in Holding => lock'[key'[t]] = t
  BY <1>1 DEF Holding
<1> QED
  BY <1>1, <1>2, LockStep

LEMMA HandleLock ==
  ASSUME TypeOK, LockOwned, NEW t \in Tasks, Handle(t)
  PROVE  LockOwned'
<1>1. CASE WakeHit(t) \/ WakeReuse(t) \/ WakeOpen(t) \/ WakeFails(t)
  <2>1. /\ pc[t] = "waiting" /\ key' = key /\ LockFree(key[t])
        /\ key[t] \in Keys /\ pc \in [Tasks -> Phases]
        /\ lock \in [Keys -> Tasks \cup {NoTask, Leaked}]
    BY <1>1 DEF WakeHit, WakeReuse, WakeOpen, WakeFails, Wake, TypeOK, PhasesOK, LocksOK
  <2>2. CASE WakeHit(t)
    <3>1. /\ lock' = [lock EXCEPT ![key[t]] = AfterCached(key[t], method[t])]
          /\ pc' = [pc EXCEPT ![t] = "replied"]
      BY <2>2 DEF WakeHit, Goto
    <3> QED
      BY <2>1, <3>1, LockStep DEF LockFree, Holding
  <2>3. CASE WakeReuse(t)
    BY <2>1, <2>3, BindLock DEF WakeReuse, Reuse
  <2>4. CASE WakeOpen(t)
    BY <2>1, <2>4, OpenLock DEF WakeOpen
  <2>5. CASE WakeFails(t)
    <3>1. /\ lock' = [lock EXCEPT ![key[t]] = NoTask]
          /\ pc' = [pc EXCEPT ![t] = "replied"]
      BY <2>5 DEF WakeFails, Fail, Goto
    <3> QED
      BY <2>1, <3>1, LockStep DEF LockFree, Holding
  <2> QED
    BY <1>1, <2>2, <2>3, <2>4, <2>5
<1>2. CASE ~(WakeHit(t) \/ WakeReuse(t) \/ WakeOpen(t) \/ WakeFails(t))
  <2>1. pc[t] \in Holding /\ key' = key
    BY <1>2 DEF Handle, Respond200, Respond304, Respond404, RespondError, RespondOther, AttemptFails,
                Upstream, StartBody, Abandon, Disconnect, Publish, BodyFails, Commit,
                CommitFails, Close, Holding
  <2>2. \E h, phase : /\ pc' = [pc EXCEPT ![t] = phase]
                      /\ \/ lock' = lock
                         \/ lock' = [lock EXCEPT ![key[t]] = h] /\ phase = "replied"
    <3>1. CASE Respond200(t) \/ Respond304(t) \/ StartBody(t) \/ Abandon(t)
               \/ Disconnect(t) \/ Publish(t) \/ Commit(t) \/ Close(t)
      BY <3>1 DEF Respond200, Respond304, StartBody, Abandon, Disconnect, Publish,
                  Commit, Close, Goto
    <3>2. CASE Respond404(t) \/ RespondError(t) \/ RespondOther(t) \/ AttemptFails(t)
               \/ BodyFails(t) \/ CommitFails(t)
      BY <3>2 DEF Respond404, RespondError, RespondOther, AttemptFails, BodyFails, CommitFails,
                  NextUrl, Fail, Goto
    <3> QED
      BY <1>2, <3>1, <3>2 DEF Handle
  <2> QED
    BY <2>1, <2>2, ReleaseLock
<1> QED
  BY <1>1, <1>2

LEMMA LockNext == TypeOK /\ LockOwned /\ [Next]_vars => LockOwned'
<1> SUFFICES ASSUME TypeOK, LockOwned, [Next]_vars PROVE LockOwned'
  OBVIOUS
<1>1. CASE \E t \in Tasks, k \in Keys, m \in Methods : Request(t, k, m)
  BY <1>1, RequestLock
<1>2. CASE \E t \in Tasks : Handle(t)
  BY <1>2, HandleLock
<1>3. CASE \E t \in Tasks : Leave(t)
  <2>1. PICK t \in Tasks : pc' = [pc EXCEPT ![t] = "idle"] /\ key' = [key EXCEPT ![t] = NoKey]
                           /\ lock' = lock
    BY <1>3 DEF Leave, Goto
  <2> QED
    BY <2>1 DEF LockOwned, Holding, TypeOK, PhasesOK
<1>4. CASE Crash
  BY <1>4 DEF Crash, LockOwned, Holding
<1>5. CASE \/ \E k \in Keys : Expire(k)
           \/ \E b \in Pools \X Contents : LoseBlob(b)
           \/ UNCHANGED vars
  <2>1. UNCHANGED <<pc, key, lock>>
    BY <1>5 DEF Expire, LoseBlob, vars
  <2> QED
    BY <2>1 DEF LockOwned
<1> QED
  BY <1>1, <1>2, <1>3, <1>4, <1>5 DEF Next

(* Two requests never download the same key together: the per-key lock that *)
(* get, get_url and the streaming variants take is theirs until the last of *)
(* _fetch or _stream_to_cache, and no path gives it away before.            *)
THEOREM OneFlight == Spec => []SingleFlight
<1>1. Init => LockOwned
  BY DEF Init, LockOwned, Holding
<1>2. LockOwned => SingleFlight
  BY DEF LockOwned, SingleFlight
<1> QED
  BY <1>1, <1>2, InitType, NextType, LockNext, PTL DEF Spec
-----------------------------------------------------------------------------
(* Rows: where a new one comes from.  Three writers: upsert from            *)
(* _reuse_by_url, upsert after a download, and the freshness stamp.         *)

Shared(k) ==
  /\ LockFree(k)
  /\ \E row \in Reusable(k) : artifacts'[k] = Renewed(row)
  /\ IsMetadata(k) \/ ~Servable(k, FilePath(k, artifacts[k])) \/ \E t \in Tasks :
       /\ pc[t] = "waiting" /\ key[t] = k /\ ~Streams(k, method[t])

Downloaded(k) ==
  \E t \in Tasks :
    /\ pc[t] = "committing" /\ key[t] = k /\ artifacts'[k] = fetched[t]
    /\ pc'[t] \in {"replied", "closing"}

Stamped(k) ==
  /\ IsMetadata(k) /\ artifacts[k] \in Record
  /\ \E b \in BOOLEAN :
       /\ artifacts'[k] = [artifacts[k] EXCEPT !.fresh = b]
       /\ b => \E t \in Tasks : key[t] = k /\ pc[t] = "opening"

LEMMA BoundRow ==
  ASSUME TypeOK, NEW t \in Tasks, NEW k \in Keys, NEW m, NEW j \in Keys,
         Reuse(t, k, m), artifacts'[j] # artifacts[j]
  PROVE  /\ j = k
         /\ \E row \in Reusable(k) : artifacts'[k] = Renewed(row)
         /\ UNCHANGED <<blobs, seen>>
<1>1. PICK row \in Reusable(k) :
        artifacts' = [artifacts EXCEPT ![k] = Renewed(row)] /\ UNCHANGED <<blobs, seen>>
  BY DEF Reuse, Bind
<1>2. artifacts \in [Keys -> Record \cup {NoRecord}]
  BY DEF TypeOK, TablesOK
<1> QED
  BY <1>1, <1>2

LEMMA FailedRow ==
  ASSUME TypeOK, NEW k \in Keys, NEW file, NEW j \in Keys,
         UseFails(k, file), artifacts'[j] # artifacts[j]
  PROVE  /\ j = k /\ ~Servable(k, file)
         /\ \E row \in Reusable(k) : artifacts'[k] = Renewed(row)
         /\ UNCHANGED <<blobs, seen>>
<1>1. /\ ~Servable(k, file) /\ UNCHANGED <<blobs, seen>>
      /\ \E row \in Reusable(k) : artifacts' = [artifacts EXCEPT ![k] = Renewed(row)]
  BY DEF UseFails
<1>2. artifacts \in [Keys -> Record \cup {NoRecord}]
  BY DEF TypeOK, TablesOK
<1> QED
  BY <1>1, <1>2

LEMMA RowSource ==
  ASSUME TypeOK, [Next]_vars, NEW k \in Keys, artifacts'[k] # artifacts[k]
  PROVE  /\ Shared(k) \/ Downloaded(k) \/ Stamped(k)
         /\ UNCHANGED <<blobs, seen>>
<1>0. artifacts \in [Keys -> Record \cup {NoRecord}]
  BY DEF TypeOK, TablesOK
<1>1. CASE \E t \in Tasks, j \in Keys, m \in Methods : Request(t, j, m)
  <2>1. PICK t \in Tasks, j \in Keys, m \in Methods : Request(t, j, m)
    BY <1>1
  <2>2. ArriveReuse(t, j, m) \/ ArriveFails(t, j, m)
    BY <2>1 DEF Request, FastHit, ArriveOpen, ArriveWait, Open, store
  <2>3. /\ Reuse(t, j, m) \/ UseFails(j, FilePath(j, artifacts[j]))
        /\ ~Servable(j, FilePath(j, artifacts[j])) /\ LockFree(j)
    BY <2>2 DEF ArriveReuse, Arrive, ArriveFails, UseFails
  <2>4. j = k /\ Shared(k) /\ UNCHANGED <<blobs, seen>>
    BY <2>3, BoundRow, FailedRow DEF Shared
  <2> QED
    BY <2>4
<1>2. CASE \E t \in Tasks : Handle(t)
  <2>1. PICK t \in Tasks : Handle(t)
    BY <1>2
  <2>2. WakeReuse(t) \/ WakeFails(t) \/ Respond304(t) \/ Commit(t)
    BY <2>1 DEF Handle, WakeHit, WakeOpen, Open, Respond200, Respond404, RespondError,
                RespondOther, AttemptFails, StartBody, Abandon, Disconnect, Publish, BodyFails,
                CommitFails, Close, store
  <2>3. pc[t] # "idle" => key[t] \in Keys
    BY DEF TypeOK, PhasesOK
  <2>4. CASE WakeReuse(t)
    <3>1. /\ Reuse(t, key[t], method[t]) /\ ~Servable(key[t], SecondLook(t, key[t]))
          /\ pc[t] = "waiting" /\ key[t] \in Keys /\ LockFree(key[t])
      BY <2>3, <2>4 DEF WakeReuse, Wake
    <3>2. /\ k = key[t] /\ UNCHANGED <<blobs, seen>>
          /\ \E row \in Reusable(k) : artifacts'[k] = Renewed(row)
      BY <3>1, BoundRow
    <3> QED
      BY <3>1, <3>2 DEF Shared, SecondLook
  <2>7. CASE WakeFails(t)
    <3>1. /\ UseFails(key[t], SecondLook(t, key[t]))
          /\ pc[t] = "waiting" /\ key[t] \in Keys /\ LockFree(key[t])
      BY <2>3, <2>7 DEF WakeFails, Wake
    <3>2. /\ k = key[t] /\ UNCHANGED <<blobs, seen>> /\ ~Servable(k, SecondLook(t, k))
          /\ \E row \in Reusable(k) : artifacts'[k] = Renewed(row)
      BY <3>1, FailedRow
    <3> QED
      BY <3>1, <3>2 DEF Shared, SecondLook
  <2>5. CASE Respond304(t)
    <3>1. /\ pc[t] = "opening"
          /\ IsMetadata(key[t]) /\ artifacts[key[t]] # NoRecord /\ key[t] \in Keys
          /\ artifacts' = [artifacts EXCEPT
               ![key[t]] = [artifacts[key[t]] EXCEPT !.fresh = TRUE]]
          /\ UNCHANGED <<blobs, seen>>
      BY <2>3, <2>5 DEF Respond304, Upstream
    <3> QED
      BY <1>0, <3>1 DEF Stamped
  <2>6. CASE Commit(t)
    <3>1. /\ pc[t] = "committing" /\ key[t] = k /\ artifacts'[k] = fetched[t]
          /\ UNCHANGED <<blobs, seen>>
      BY <1>0, <2>3, <2>6 DEF Commit
    <3>2. pc'[t] \in {"replied", "closing"}
      BY <2>6 DEF Commit, Goto, TypeOK, PhasesOK
    <3> QED
      BY <3>1, <3>2 DEF Downloaded
  <2> QED
    BY <2>2, <2>4, <2>5, <2>6, <2>7
<1>3. CASE \E j \in Keys : Expire(j)
  <2>1. PICK j \in Keys :
          /\ IsMetadata(j) /\ artifacts[j] # NoRecord
          /\ artifacts' = [artifacts EXCEPT ![j] = [artifacts[j] EXCEPT !.fresh = FALSE]]
          /\ UNCHANGED <<blobs, seen>>
    BY <1>3 DEF Expire
  <2> QED
    BY <1>0, <2>1 DEF Stamped
<1>4. CASE \/ \E t \in Tasks : Leave(t)
           \/ \E b \in Pools \X Contents : LoseBlob(b)
           \/ Crash
           \/ UNCHANGED vars
  BY <1>4 DEF Leave, LoseBlob, Crash, store, vars
<1> QED
  BY <1>1, <1>2, <1>3, <1>4 DEF Next

(* A row is replaced at most, never removed.                                *)
LEMMA RowStays ==
  ASSUME TypeOK, [Next]_vars, NEW k \in Keys, artifacts[k] # NoRecord
  PROVE  artifacts'[k] # NoRecord
<1>1. CASE Shared(k)
  BY <1>1, ReusableType, RenewedType DEF Shared, TypeOK
<1>2. CASE Downloaded(k)
  BY <1>2 DEF Downloaded, TypeOK, LocalsOK
<1>3. CASE Stamped(k)
  <2>1. PICK b \in BOOLEAN : /\ artifacts[k] \in Record
                             /\ artifacts'[k] = [artifacts[k] EXCEPT !.fresh = b]
    BY <1>3 DEF Stamped
  <2>2. [artifacts[k] EXCEPT !.fresh = b] \in Record
    BY <2>1 DEF Record
  <2> QED
    BY <2>1, <2>2
<1> QED
  BY <1>1, <1>2, <1>3, RowSource

(* A task about to write a row either was before, or has just published.    *)
LEMMA RowToWrite ==
  ASSUME TypeOK, [Next]_vars, NEW t \in Tasks, pc'[t] = "committing"
  PROVE  \/ /\ pc[t] = "committing"
            /\ key'[t] = key[t] /\ fetched'[t] = fetched[t]
         \/ Publish(t)
<1>0. /\ pc \in [Tasks -> Phases] /\ key \in [Tasks -> Keys \cup {NoKey}]
      /\ fetched \in [Tasks -> Record \cup {NoRecord}]
  BY DEF TypeOK, PhasesOK, LocalsOK
<1>1. CASE \E s \in Tasks, k \in Keys, m \in Methods : Request(s, k, m)
  <2>1. PICK s \in Tasks : /\ pc[s] = "idle"
                           /\ \E phase \in {"replied", "opening", "waiting"} :
                                pc' = [pc EXCEPT ![s] = phase]
                           /\ \E k \in Keys : key' = [key EXCEPT ![s] = k]
                           /\ \/ fetched' = fetched
                              \/ fetched' = [fetched EXCEPT ![s] = NoRecord]
    BY <1>1 DEF Request, FastHit, ArriveReuse, ArriveOpen, ArriveWait, ArriveFails, Arrive, Accept,
                Reuse, Bind, Open, Goto, Forget, cursor
  <2> QED
    BY <1>0, <2>1
<1>2. CASE \E s \in Tasks : Handle(s)
  <2>1. PICK s \in Tasks : Handle(s)
    BY <1>2
  <2>2. key' = key
    BY <2>1 DEF Handle, WakeHit, WakeReuse, WakeOpen, WakeFails, Wake, Respond200, Respond304,
                Respond404, RespondError, RespondOther, AttemptFails, Upstream, StartBody, Abandon,
                Disconnect, Publish, BodyFails, Commit, CommitFails, Close
  <2>3. CASE Publish(s)
    BY <1>0, <2>2, <2>3 DEF Publish, Goto
  <2>4. CASE ~Publish(s)
    <3>1. \E phase : phase # "committing" /\ pc' = [pc EXCEPT ![s] = phase]
      BY <2>1, <2>4 DEF Handle, WakeHit, WakeReuse, WakeOpen, WakeFails, Reuse, Bind, Open,
           Respond200, Respond304, Respond404, RespondError, RespondOther, AttemptFails, StartBody,
           Abandon, Disconnect, BodyFails, Commit, CommitFails, Close, NextUrl, Fail, Goto
    <3>2. fetched' = fetched \/ fetched' = [fetched EXCEPT ![s] = NoRecord]
      BY <2>1, <2>4 DEF Handle, WakeHit, WakeReuse, WakeOpen, WakeFails, Reuse, Bind, Open,
           Respond200, Respond304, Respond404, RespondError, RespondOther, AttemptFails, StartBody,
           Abandon, Disconnect, BodyFails, Commit, CommitFails, Close, NextUrl, Fail,
           Forget, cursor
    <3> QED
      BY <1>0, <2>2, <3>1, <3>2
  <2> QED
    BY <2>3, <2>4
<1>3. CASE \E s \in Tasks : Leave(s)
  <2>1. PICK s \in Tasks : /\ pc' = [pc EXCEPT ![s] = "idle"]
                           /\ key' = [key EXCEPT ![s] = NoKey] /\ fetched' = fetched
    BY <1>3 DEF Leave, Goto, cursor
  <2> QED
    BY <1>0, <2>1
<1>4. CASE Crash
  BY <1>4 DEF Crash
<1>5. CASE \/ \E k \in Keys : Expire(k)
           \/ \E b \in Pools \X Contents : LoseBlob(b)
           \/ UNCHANGED vars
  BY <1>5 DEF Expire, LoseBlob, vars, cursor
<1> QED
  BY <1>1, <1>2, <1>3, <1>4, <1>5 DEF Next

LEMMA SeenGrows ==
  ASSUME [Next]_vars
  PROVE  /\ seen \subseteq seen'
         /\ "loss" \notin Faults => blobs \subseteq blobs'
<1>1. CASE \E t \in Tasks : Handle(t)
  <2>1. PICK t \in Tasks : Handle(t)
    BY <1>1
  <2>2. CASE Publish(t)
    BY <2>2 DEF Publish
  <2>3. CASE ~Publish(t)
    BY <2>1, <2>3 DEF Handle, WakeHit, WakeReuse, WakeOpen, WakeFails, Reuse, Bind, Open,
         Respond200, Respond304, Respond404, RespondError, RespondOther, AttemptFails, StartBody,
         Abandon, Disconnect, BodyFails, Commit, CommitFails, Close, UseFails, store
  <2> QED
    BY <2>2, <2>3
<1>2. CASE \E t \in Tasks, k \in Keys, m \in Methods : Request(t, k, m)
  BY <1>2 DEF Request, FastHit, ArriveReuse, ArriveOpen, ArriveWait, ArriveFails, Reuse, Bind,
              Open, UseFails, store
<1>3. CASE \/ \E t \in Tasks : Leave(t)
           \/ \E k \in Keys : Expire(k)
           \/ \E b \in Pools \X Contents : LoseBlob(b)
           \/ Crash
           \/ UNCHANGED vars
  BY <1>3 DEF Leave, Expire, LoseBlob, Crash, store, vars
<1> QED
  BY <1>1, <1>2, <1>3 DEF Next

(* Bytes before rows: what a row names, and what a row about to be written  *)
(* names, is on disk.                                                       *)
BytesFirst ==
  /\ RecordHasBlob
  /\ \A t \in Tasks :
       pc[t] = "committing" => <<PoolOf[key[t]], fetched[t].sha>> \in blobs

LEMMA BytesNext ==
  ASSUME "loss" \notin Faults
  PROVE  TypeOK /\ BytesFirst /\ [Next]_vars => BytesFirst'
<1> SUFFICES ASSUME TypeOK, BytesFirst, [Next]_vars PROVE BytesFirst'
  OBVIOUS
<1>0. blobs \subseteq blobs'
  BY SeenGrows
<1>1. ASSUME NEW k \in Keys, artifacts'[k] # NoRecord
      PROVE  <<PoolOf[k], artifacts'[k].sha>> \in blobs'
  <2>0. artifacts \in [Keys -> Record \cup {NoRecord}]
    BY DEF TypeOK, TablesOK
  <2>1. CASE artifacts'[k] = artifacts[k]
    BY <1>0, <1>1, <2>1 DEF BytesFirst, RecordHasBlob
  <2>2. CASE Shared(k)
    <3>1. PICK row \in Reusable(k) : artifacts'[k] = Renewed(row)
      BY <2>2 DEF Shared
    <3>2. PICK j \in Keys : row \in Record /\ artifacts[j] = row /\ PoolOf[j] = PoolOf[k]
      BY ReusableType DEF TypeOK
    <3>3. <<PoolOf[k], row.sha>> \in blobs
      BY <3>2 DEF BytesFirst, RecordHasBlob
    <3> QED
      BY <1>0, <3>1, <3>2, <3>3, RenewedType
  <2>3. CASE Downloaded(k)
    BY <1>0, <2>3 DEF Downloaded, BytesFirst
  <2>4. CASE Stamped(k)
    <3>1. artifacts[k] \in Record /\ artifacts'[k].sha = artifacts[k].sha
      BY <2>4 DEF Stamped, Record
    <3> QED
      BY <1>0, <3>1 DEF BytesFirst, RecordHasBlob
  <2> QED
    BY <2>1, <2>2, <2>3, <2>4, RowSource
<1>2. ASSUME NEW t \in Tasks, pc'[t] = "committing"
      PROVE  <<PoolOf[key'[t]], fetched'[t].sha>> \in blobs'
  <2>1. CASE Publish(t)
    <3>1. PICK c \in Contents, final \in FinalsOf[Url(t)] :
            /\ blobs' = blobs \cup {<<PoolOf[key[t]], c>>}
            /\ fetched' = [fetched EXCEPT ![t] = NewRow(t, c, final)]
      BY <2>1 DEF Publish
    <3>2. key' = key /\ fetched \in [Tasks -> Record \cup {NoRecord}] /\ pc[t] # "idle"
      BY <2>1 DEF Publish, TypeOK, LocalsOK
    <3>3. NewRow(t, c, final).sha = c
      BY DEF NewRow
    <3> QED
      BY <3>1, <3>2, <3>3
  <2>2. CASE pc[t] = "committing" /\ key'[t] = key[t] /\ fetched'[t] = fetched[t]
    BY <1>0, <2>2 DEF BytesFirst
  <2> QED
    BY <1>2, <2>1, <2>2, RowToWrite
<1> QED
  BY <1>1, <1>2 DEF BytesFirst, RecordHasBlob

(* While nothing outside the process deletes a blob, no row names bytes     *)
(* that are not there: every caller of upsert publishes first, and          *)
(* _reuse_by_url binds a key to a row of its own pool.                      *)
THEOREM RowsHaveBlobs ==
  ASSUME "loss" \notin Faults
  PROVE  Spec => []RecordHasBlob
<1>1. Init => BytesFirst
  BY DEF Init, BytesFirst, RecordHasBlob
<1>2. BytesFirst => RecordHasBlob
  BY DEF BytesFirst
<1> QED
  BY <1>1, <1>2, InitType, NextType, BytesNext, PTL DEF Spec

-----------------------------------------------------------------------------
(* Provenance: a row for k names bytes one of k's upstreams served, and the *)
(* URLs written in it are URLs those bytes came from, so that the next key  *)
(* found by one of them is right to take them.                              *)

Witnessed(k, row) ==
  /\ row.up # NoUrl => <<row.up, row.sha>> \in seen
  /\ <<row.final, row.sha>> \in seen
  /\ \E i \in DOMAIN UrlsOf[k] : <<UrlsOf[k][i], row.sha>> \in seen

AllWitnessed ==
  /\ \A k \in Keys : artifacts[k] # NoRecord => Witnessed(k, artifacts[k])
  /\ \A t \in Tasks : pc[t] = "committing" => Witnessed(key[t], fetched[t])

LEMMA WitnessedNext == TypeOK /\ AllWitnessed /\ [Next]_vars => AllWitnessed'
<1> SUFFICES ASSUME TypeOK, AllWitnessed, [Next]_vars PROVE AllWitnessed'
  OBVIOUS
<1>1. ASSUME NEW k \in Keys, artifacts'[k] # NoRecord
      PROVE  Witnessed(k, artifacts[k])'
  <2>0. artifacts \in [Keys -> Record \cup {NoRecord}]
    BY DEF TypeOK, TablesOK
  <2>1. CASE artifacts'[k] = artifacts[k]
    BY <1>1, <2>1, SeenGrows DEF AllWitnessed, Witnessed
  <2>2. CASE Shared(k)
    <3>1. PICK row \in Reusable(k) : artifacts'[k] = Renewed(row)
      BY <2>2 DEF Shared
    <3>2. PICK j \in Keys : row \in Record /\ artifacts[j] = row
      BY ReusableType DEF TypeOK
    <3>3. Witnessed(j, row) /\ row # NoRecord
      BY <3>2 DEF AllWitnessed
    <3>4. PICK i \in DOMAIN UrlsOf[k] : UrlsOf[k][i] \in {row.up, row.final}
      BY ReusableType DEF TypeOK
    <3>5. UrlsOf[k][i] \in Urls
      OBVIOUS
    <3>6. Witnessed(k, row)
      BY <3>3, <3>4, <3>5 DEF Witnessed
    <3> QED
      BY <3>1, <3>2, <3>6, RenewedType, SeenGrows DEF Witnessed
  <2>3. CASE Downloaded(k)
    BY <2>3, SeenGrows DEF Downloaded, AllWitnessed, Witnessed
  <2>4. CASE Stamped(k)
    <3>1. /\ artifacts[k] \in Record /\ artifacts'[k].sha = artifacts[k].sha
          /\ artifacts'[k].up = artifacts[k].up /\ artifacts'[k].final = artifacts[k].final
      BY <2>4 DEF Stamped, Record
    <3>2. Witnessed(k, artifacts[k])
      BY <3>1 DEF AllWitnessed
    <3> QED
      BY <3>1, <3>2, SeenGrows DEF Witnessed
  <2> QED
    BY <2>1, <2>2, <2>3, <2>4, RowSource
<1>2. ASSUME NEW t \in Tasks, pc'[t] = "committing"
      PROVE  Witnessed(key[t], fetched[t])'
  <2>1. CASE Publish(t)
    <3>1. PICK c \in Contents, final \in FinalsOf[Url(t)] :
            /\ seen' = seen \cup {<<Url(t), c>>, <<final, c>>}
            /\ fetched' = [fetched EXCEPT ![t] = NewRow(t, c, final)]
      BY <2>1 DEF Publish
    <3>2. /\ key' = key /\ fetched \in [Tasks -> Record \cup {NoRecord}]
          /\ pc[t] # "idle" /\ key[t] \in Keys
          /\ url[t] \in 1..Len(UrlsOf[key[t]])
      BY <2>1, UrlsLen DEF Publish, TypeOK, PhasesOK, LocalsOK
    <3>3. /\ fetched'[t].sha = c /\ fetched'[t].final = final
          /\ fetched'[t].up \in {NoUrl, Url(t)}
      BY <3>1, <3>2, NewRowType DEF TypeOK
    <3>4. url[t] \in DOMAIN UrlsOf[key[t]] /\ UrlsOf[key[t]][url[t]] = Url(t)
      BY <3>2 DEF Url
    <3> QED
      BY <3>1, <3>2, <3>3, <3>4 DEF Witnessed
  <2>2. CASE pc[t] = "committing" /\ key'[t] = key[t] /\ fetched'[t] = fetched[t]
    BY <2>2, SeenGrows DEF AllWitnessed, Witnessed
  <2> QED
    BY <1>2, <2>1, <2>2, RowToWrite
<1> QED
  BY <1>1, <1>2 DEF AllWitnessed

(* Whatever routes, mirrors and redirects there are, the bytes registered   *)
(* for a key were served by one of the key's own upstream URLs: the exact   *)
(* URL match of find_by_upstream_url never hands a key another file.        *)
THEOREM RowsHaveASource == Spec => []Provenance
<1>1. Init => AllWitnessed
  BY DEF Init, AllWitnessed
<1>2. AllWitnessed => Provenance
  BY DEF AllWitnessed, Witnessed, Provenance
<1> QED
  BY <1>1, <1>2, InitType, NextType, WitnessedNext, PTL DEF Spec

-----------------------------------------------------------------------------
(* Archives asked for with GET, as conda and pip do: downloaded while       *)
(* missing, never replaced.  The restriction to GET is needed: a HEAD goes  *)
(* through get, which looks at the path it captured before it slept.        *)

Fetching == {"opening", "reading", "ready", "streaming", "committing"}

OnlyGet == \A t \in Tasks : method[t] = "GET"

FetchedIsNew ==
  \A t \in Tasks :
    pc[t] \in Fetching /\ ~IsMetadata(key[t]) => artifacts[key[t]] = NoRecord

LEMMA FirstLook ==
  ASSUME TypeOK, RecordHasBlob, NEW k \in Keys, ~IsMetadata(k),
         ~Servable(k, FilePath(k, artifacts[k]))
  PROVE  artifacts[k] = NoRecord
BY DEF RecordHasBlob, Servable, FilePath, IsFile, Fresh

LEMMA GetNext ==
  ASSUME Methods \subseteq {"GET"}
  PROVE  TypeOK /\ OnlyGet /\ [Next]_vars => OnlyGet'
<1> SUFFICES ASSUME TypeOK, OnlyGet, [Next]_vars PROVE OnlyGet'
  OBVIOUS
<1>0. method \in [Tasks -> {"HEAD", "GET"}]
  BY DEF TypeOK, PhasesOK
<1>1. CASE \E t \in Tasks, k \in Keys, m \in Methods : Request(t, k, m)
  <2>1. PICK t \in Tasks, m \in Methods : method' = [method EXCEPT ![t] = m]
    BY <1>1 DEF Request, FastHit, ArriveReuse, ArriveOpen, ArriveWait, ArriveFails, Arrive, Accept
  <2> QED
    BY <1>0, <2>1 DEF OnlyGet
<1>2. CASE \E t \in Tasks : Leave(t)
  BY <1>0, <1>2 DEF Leave, OnlyGet
<1>3. CASE Crash
  BY <1>3 DEF Crash, OnlyGet
<1>4. CASE \E t \in Tasks : Handle(t)
  BY <1>4 DEF OnlyGet, Handle, WakeHit, WakeReuse, WakeOpen, WakeFails, Wake, Respond200, Respond304,
              Respond404, RespondError, RespondOther, AttemptFails, Upstream, StartBody, Abandon,
              Disconnect, Publish, BodyFails, Commit, CommitFails, Close
<1>5. CASE \/ \E k \in Keys : Expire(k)
           \/ \E b \in Pools \X Contents : LoseBlob(b)
           \/ UNCHANGED vars
  BY <1>5 DEF Expire, LoseBlob, vars, OnlyGet
<1> QED
  BY <1>1, <1>2, <1>3, <1>4, <1>5 DEF Next

(* A download of an archive begins in one of two places.                    *)
LEMMA DownloadBegins ==
  ASSUME TypeOK, [Next]_vars, NEW t \in Tasks,
         pc'[t] \in Fetching, ~IsMetadata(key'[t])
  PROVE  \/ pc[t] \in Fetching /\ key'[t] = key[t]
         \/ \E m \in Methods : ArriveOpen(t, key'[t], m)
         \/ WakeOpen(t)
<1>0. /\ pc \in [Tasks -> Phases] /\ key \in [Tasks -> Keys \cup {NoKey}]
  BY DEF TypeOK, PhasesOK
<1>1. CASE \E s \in Tasks, k \in Keys, m \in Methods : Request(s, k, m)
  <2>1. PICK s \in Tasks, k \in Keys, m \in Methods : Request(s, k, m)
    BY <1>1
  <2>2. \/ FastHit(s, k, m) \/ ArriveWait(s, k, m) \/ ArriveFails(s, k, m)
        \/ ArriveReuse(s, k, m) \/ ArriveOpen(s, k, m)
    BY <2>1 DEF Request
  <2>3. key' = [key EXCEPT ![s] = k]
    BY <2>2 DEF FastHit, ArriveWait, ArriveFails, ArriveReuse, ArriveOpen, Arrive, Accept
  <2>4. CASE FastHit(s, k, m) \/ ArriveWait(s, k, m) \/ ArriveFails(s, k, m)
    <3>1. \E phase \in {"replied", "waiting"} : pc' = [pc EXCEPT ![s] = phase]
      BY <2>4 DEF FastHit, ArriveWait, ArriveFails, Goto
    <3> QED
      BY <1>0, <2>3, <3>1 DEF Fetching
  <2>5. CASE ArriveReuse(s, k, m)
    <3>1. pc' = [pc EXCEPT ![s] = "replied"] \/ (pc' = [pc EXCEPT ![s] = "opening"] /\ IsMetadata(k))
      BY <2>5 DEF ArriveReuse, Reuse, Bind, Goto, Fresh
    <3> QED
      BY <1>0, <2>3, <3>1 DEF Fetching
  <2>6. CASE ArriveOpen(s, k, m)
    <3>1. pc' = [pc EXCEPT ![s] = "opening"]
      BY <2>6 DEF ArriveOpen, Open, Goto
    <3> QED
      BY <1>0, <2>3, <2>6, <3>1 DEF Fetching
  <2> QED
    BY <2>2, <2>4, <2>5, <2>6
<1>2. CASE \E s \in Tasks : Handle(s)
  <2>1. PICK s \in Tasks : Handle(s)
    BY <1>2
  <2>2. key' = key
    BY <2>1 DEF Handle, WakeHit, WakeReuse, WakeOpen, WakeFails, Wake, Respond200, Respond304,
                Respond404, RespondError, RespondOther, AttemptFails, Upstream, StartBody, Abandon,
                Disconnect, Publish, BodyFails, Commit, CommitFails, Close
  <2>3. CASE WakeOpen(s)
    <3>1. pc' = [pc EXCEPT ![s] = "opening"]
      BY <2>3 DEF WakeOpen, Open, Goto
    <3> QED
      BY <1>0, <2>2, <2>3, <3>1
  <2>4. CASE WakeReuse(s)
    <3>1. pc' = [pc EXCEPT ![s] = "replied"] \/ (pc' = [pc EXCEPT ![s] = "opening"] /\ IsMetadata(key[s]))
      BY <2>4 DEF WakeReuse, Reuse, Bind, Goto, Fresh
    <3> QED
      BY <1>0, <2>2, <3>1 DEF Fetching
  <2>5. CASE WakeHit(s) \/ WakeFails(s)
    <3>1. pc' = [pc EXCEPT ![s] = "replied"]
      BY <2>5 DEF WakeHit, WakeFails, Fail, Goto
    <3> QED
      BY <1>0, <2>2, <3>1 DEF Fetching
  <2>6. CASE ~(WakeHit(s) \/ WakeReuse(s) \/ WakeOpen(s) \/ WakeFails(s))
    <3>1. pc[s] \in Fetching \/ (pc[s] = "closing" /\ pc' = [pc EXCEPT ![s] = "replied"])
      BY <2>1, <2>6 DEF Handle, Respond200, Respond304, Respond404, RespondError,
           RespondOther, AttemptFails, Upstream, StartBody, Abandon, Disconnect, Publish, BodyFails,
           Commit, CommitFails, Close, Goto, Fetching
    <3>2. \E phase : pc' = [pc EXCEPT ![s] = phase]
      BY <2>1, <2>6 DEF Handle, Respond200, Respond304, Respond404, RespondError,
           RespondOther, AttemptFails, StartBody, Abandon, Disconnect, Publish, BodyFails,
           Commit, CommitFails, Close, NextUrl, Fail, Goto
    <3> QED
      BY <1>0, <2>2, <3>1, <3>2 DEF Fetching
  <2> QED
    BY <2>3, <2>4, <2>5, <2>6
<1>3. CASE \E s \in Tasks : Leave(s)
  <2>1. PICK s \in Tasks : pc' = [pc EXCEPT ![s] = "idle"] /\ key' = [key EXCEPT ![s] = NoKey]
    BY <1>3 DEF Leave, Goto
  <2> QED
    BY <1>0, <2>1 DEF Fetching
<1>4. CASE Crash
  BY <1>4 DEF Crash, Fetching
<1>5. CASE \/ \E k \in Keys : Expire(k)
           \/ \E b \in Pools \X Contents : LoseBlob(b)
           \/ UNCHANGED vars
  <2>1. UNCHANGED <<pc, key>>
    BY <1>5 DEF Expire, LoseBlob, vars
  <2> QED
    BY <2>1
<1> QED
  BY <1>1, <1>2, <1>3, <1>4, <1>5 DEF Next

LEMMA NewNext ==
  TypeOK /\ LockOwned /\ RecordHasBlob /\ OnlyGet /\ FetchedIsNew /\ [Next]_vars
    => FetchedIsNew'
<1> SUFFICES ASSUME TypeOK, LockOwned, RecordHasBlob, OnlyGet, FetchedIsNew, [Next]_vars,
                    NEW t \in Tasks, pc'[t] \in Fetching, ~IsMetadata(key'[t])
             PROVE  artifacts'[key'[t]] = NoRecord
  BY DEF FetchedIsNew, IsMetadata
<1>1. CASE pc[t] \in Fetching /\ key'[t] = key[t]
  <2>1. artifacts[key[t]] = NoRecord /\ lock[key[t]] = t /\ key[t] \in Keys
    BY <1>1 DEF FetchedIsNew, LockOwned, Fetching, Holding, TypeOK, PhasesOK
  <2>2. ~Shared(key[t]) /\ ~Stamped(key[t])
    BY <1>1, <2>1 DEF Shared, Stamped, LockFree
  <2>3. ~Downloaded(key[t])
    BY <2>1 DEF Downloaded, LockOwned, Holding, Fetching
  <2> QED
    BY <1>1, <2>1, <2>2, <2>3, RowSource
<1>2. CASE \E m \in Methods : ArriveOpen(t, key'[t], m)
  <2>1. /\ ~Servable(key'[t], FilePath(key'[t], artifacts[key'[t]]))
        /\ artifacts' = artifacts
    BY <1>2 DEF ArriveOpen, Arrive, Open, store
  <2>2. key'[t] \in Keys
    BY NextType, <1>1 DEF TypeOK, PhasesOK, Fetching
  <2> QED
    BY <2>1, <2>2, FirstLook
<1>3. CASE WakeOpen(t)
  <2>1. /\ ~Servable(key[t], SecondLook(t, key[t])) /\ key' = key
        /\ pc[t] = "waiting" /\ artifacts' = artifacts
    BY <1>3 DEF WakeOpen, Wake, Open, store
  <2>2. key[t] \in Keys /\ SecondLook(t, key[t]) = FilePath(key[t], artifacts[key[t]])
    BY <2>1 DEF TypeOK, PhasesOK, SecondLook, Streams, OnlyGet
  <2> QED
    BY <2>1, <2>2, FirstLook
<1> QED
  BY <1>1, <1>2, <1>3, DownloadBegins

LEMMA ArchiveKept ==
  ASSUME TypeOK, RecordHasBlob, OnlyGet, FetchedIsNew, [Next]_vars,
         NEW k \in Keys, ~IsMetadata(k), artifacts[k] # NoRecord
  PROVE  artifacts'[k] = artifacts[k]
<1>1. Servable(k, FilePath(k, artifacts[k]))
  BY FirstLook
<1>2. ~Shared(k) /\ ~Stamped(k)
  BY <1>1 DEF Shared, Stamped, OnlyGet, Streams
<1>3. ~Downloaded(k)
  BY DEF Downloaded, FetchedIsNew, Fetching
<1> QED
  BY <1>2, <1>3, RowSource

(* Clients that GET archives make PkgRelay ask upstream for one only while  *)
(* it has none, and ImmutableArchive: once it has one, its bytes stay.      *)
THEOREM ArchivesFetchedOnce ==
  ASSUME "loss" \notin Faults, Methods \subseteq {"GET"}
  PROVE  Spec => []FetchOnlyMissing /\ ImmutableArchive
<1>1. Init => BytesFirst /\ LockOwned /\ OnlyGet /\ FetchedIsNew
  BY DEF Init, BytesFirst, RecordHasBlob, LockOwned, Holding, OnlyGet, FetchedIsNew, Fetching
<1>2. BytesFirst => RecordHasBlob
  BY DEF BytesFirst
<1>3. FetchedIsNew => FetchOnlyMissing
  BY DEF FetchedIsNew, FetchOnlyMissing, Servable, Fetching
<1>4. TypeOK /\ RecordHasBlob /\ OnlyGet /\ FetchedIsNew /\ [Next]_vars =>
        [\A k \in Keys : ~IsMetadata(k) /\ artifacts[k] # NoRecord =>
           artifacts'[k] # NoRecord /\ artifacts'[k].sha = artifacts[k].sha]_vars
  BY ArchiveKept
<1> QED
  BY <1>1, <1>2, <1>3, <1>4, InitType, NextType, LockNext, BytesNext, GetNext, NewNext,
     PTL DEF Spec, ImmutableArchive

-----------------------------------------------------------------------------
(* A stale index becomes fresh while a request for it is at an upstream, or *)
(* with the bytes of an index registered under one of its URLs, as it may   *)
(* be itself: of the three writers, the stamp belongs to a 304, upsert      *)
(* after a download to a request, and upsert from _reuse_by_url to a row    *)
(* that find_by_upstream_url gives for a URL of the index.                  *)
THEOREM RenewalFollowsUrls == Spec => RenewedAlongUrls
<1>1. ASSUME TypeOK, [Next]_vars, NEW k \in Keys,
             artifacts[k] # NoRecord, ~Fresh(k, artifacts[k]),
             artifacts'[k] # NoRecord, Fresh(k, artifacts'[k])
      PROVE  \/ \E t \in Tasks : key[t] = k /\ pc[t] \in {"opening", "committing"}
             \/ \E j \in Keys, i \in DOMAIN UrlsOf[k] :
                  /\ artifacts[j] # NoRecord /\ artifacts[j].sha = artifacts'[k].sha
                  /\ IsMetadata(j) /\ PoolOf[j] = PoolOf[k]
                  /\ UrlsOf[k][i] \in {artifacts[j].up, artifacts[j].final}
  <2>1. artifacts'[k] # artifacts[k] /\ IsMetadata(k) /\ k \notin ZeroTtl
    BY <1>1 DEF Fresh
  <2>2. CASE Shared(k)
    <3>1. PICK row \in Reusable(k) : artifacts'[k] = Renewed(row)
      BY <2>2 DEF Shared
    <3>2. PICK j \in Keys, i \in DOMAIN UrlsOf[k] :
            /\ row \in Record /\ artifacts[j] = row
            /\ PoolOf[j] = PoolOf[k] /\ IsMetadata(j) = IsMetadata(k)
            /\ UrlsOf[k][i] \in {row.up, row.final}
      BY <1>1, ReusableType DEF TypeOK
    <3> QED
      BY <2>1, <3>1, <3>2, RenewedType
  <2>3. CASE Downloaded(k)
    BY <2>3 DEF Downloaded
  <2>4. CASE Stamped(k)
    <3>1. PICK b \in BOOLEAN : /\ artifacts'[k] = [artifacts[k] EXCEPT !.fresh = b]
                               /\ b => \E t \in Tasks : key[t] = k /\ pc[t] = "opening"
      BY <2>4 DEF Stamped
    <3>2. artifacts'[k].fresh = b
      BY <2>4, <3>1 DEF Stamped, Record
    <3> QED
      BY <1>1, <2>1, <3>1, <3>2 DEF Fresh
  <2> QED
    BY <1>1, <2>1, <2>2, <2>3, <2>4, RowSource
<1>2. TypeOK /\ [Next]_vars =>
        [\A k \in Keys :
           /\ artifacts[k] # NoRecord /\ ~Fresh(k, artifacts[k])
           /\ artifacts'[k] # NoRecord /\ Fresh(k, artifacts'[k])
           => \/ \E t \in Tasks : key[t] = k /\ pc[t] \in {"opening", "committing"}
              \/ \E j \in Keys, i \in DOMAIN UrlsOf[k] :
                   /\ artifacts[j] # NoRecord /\ artifacts[j].sha = artifacts'[k].sha
                   /\ IsMetadata(j) /\ PoolOf[j] = PoolOf[k]
                   /\ UrlsOf[k][i] \in {artifacts[j].up, artifacts[j].final}]_vars
  BY <1>1
<1> QED
  BY <1>2, InitType, NextType, PTL DEF Spec, RenewedAlongUrls
=============================================================================

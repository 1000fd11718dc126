---------------------------- MODULE ArchiveProofs ----------------------------
(* Conda and pip clients that GET archives: the gateway implements the      *)
(* promise of ArchiveCache, and its replies are what its rows say.          *)
EXTENDS GatewayProofs

USE GatewayConstants, GatewaySentinels

OnlyArchives == \A k \in Keys : ~IsMetadata(k)

(* Nothing is answered before the request is done with upstream.            *)
Silent == \A t \in Tasks : pc[t] \notin {"closing", "replied"} => reply[t] = NoReply

ArchiveInv ==
  TypeOK /\ LockOwned /\ BytesFirst /\ OnlyGet /\ FetchedIsNew /\ Silent

-----------------------------------------------------------------------------
(* Only two kinds of steps say something to a client.                       *)
LEMMA SilentNext == TypeOK /\ Silent /\ [Next]_vars => Silent'
<1> SUFFICES ASSUME TypeOK, Silent, [Next]_vars PROVE Silent'
  OBVIOUS
<1>0. /\ pc \in [Tasks -> Phases]
      /\ reply \in [Tasks -> [status : Statuses, file : Contents \cup {Missing},
                              sha : Contents \cup {Missing}]]
  BY DEF TypeOK, PhasesOK, ReplyOK
<1>1. CASE \E t \in Tasks, k \in Keys, m \in Methods : Request(t, k, m)
  <2>1. PICK t \in Tasks, k \in Keys, m \in Methods : Request(t, k, m)
    BY <1>1
  <2>2. \/ pc' = [pc EXCEPT ![t] = "replied"] /\ \E r : reply' = [reply EXCEPT ![t] = r]
        \/ /\ \E phase \in {"opening", "waiting"} : pc' = [pc EXCEPT ![t] = phase]
           /\ pc[t] = "idle" /\ reply' = reply
    BY <2>1 DEF Request, FastHit, ArriveReuse, ArriveOpen, ArriveWait, ArriveFails, Arrive, Reuse, Bind,
                Open, Goto, Answer
  <2> QED
    BY <1>0, <2>2 DEF Silent
<1>2. CASE \E t \in Tasks : Handle(t)
  <2>1. PICK t \in Tasks : Handle(t)
    BY <1>2
  <2>2. \/ /\ \E phase \in {"closing", "replied"} : pc' = [pc EXCEPT ![t] = phase]
           /\ reply' = reply \/ \E r : reply' = [reply EXCEPT ![t] = r]
        \/ /\ pc[t] \notin {"closing", "replied"} /\ reply' = reply
           /\ \E phase : pc' = [pc EXCEPT ![t] = phase]
    <3>1. CASE WakeHit(t) \/ WakeReuse(t) \/ WakeOpen(t) \/ WakeFails(t)
      BY <3>1 DEF WakeHit, WakeReuse, WakeOpen, WakeFails, Wake, Reuse, Bind, Open, Fail,
                  Goto, Answer
    <3>2. CASE \/ Respond200(t) \/ Respond304(t) \/ Respond404(t)
               \/ RespondError(t) \/ RespondOther(t) \/ AttemptFails(t)
      BY <3>2 DEF Respond200, Respond304, Respond404, RespondError, RespondOther, AttemptFails, Upstream,
                  NextUrl, Fail, Goto, Answer
    <3>3. CASE \/ StartBody(t) \/ Abandon(t) \/ Disconnect(t) \/ Publish(t)
               \/ BodyFails(t) \/ Commit(t) \/ CommitFails(t) \/ Close(t)
      BY <3>3 DEF StartBody, Abandon, Disconnect, Publish, BodyFails, Commit, CommitFails,
                  Close, NextUrl, Fail, Goto, Answer
    <3> QED
      BY <2>1, <3>1, <3>2, <3>3 DEF Handle
  <2> QED
    BY <1>0, <2>2 DEF Silent
<1>3. CASE \E t \in Tasks : Leave(t)
  BY <1>0, <1>3 DEF Leave, Goto, Silent
<1>4. CASE Crash
  BY <1>4 DEF Crash, Silent
<1>5. CASE \/ \E k \in Keys : Expire(k)
           \/ \E b \in Pools \X Contents : LoseBlob(b)
           \/ UNCHANGED vars
  <2>1. UNCHANGED <<pc, reply>>
    BY <1>5 DEF Expire, LoseBlob, vars
  <2> QED
    BY <2>1 DEF Silent
<1> QED
  BY <1>1, <1>2, <1>3, <1>4, <1>5 DEF Next

LEMMA ArchiveInvInit == Init => ArchiveInv
<1> SUFFICES ASSUME Init PROVE ArchiveInv
  OBVIOUS
<1>1. BytesFirst /\ LockOwned /\ OnlyGet /\ FetchedIsNew
  BY DEF Init, BytesFirst, RecordHasBlob, LockOwned, Holding, OnlyGet, FetchedIsNew, Fetching
<1>2. Silent
  BY DEF Init, Silent
<1> QED
  BY <1>1, <1>2, InitType DEF ArchiveInv

LEMMA ArchiveInvNext ==
  ASSUME "loss" \notin Faults, Methods \subseteq {"GET"}
  PROVE  ArchiveInv /\ [Next]_vars => ArchiveInv'
BY NextType, LockNext, BytesNext, GetNext, NewNext, SilentNext DEF ArchiveInv, BytesFirst

-----------------------------------------------------------------------------
(* The refinement mapping in terms of the tables: with the bytes of every   *)
(* row on disk, the shelf is the table.                                     *)

Held(row) == IF row = NoRecord THEN Missing ELSE row.sha

LEMMA RowIsServed ==
  ASSUME TablesOK, RecordHasBlob, NEW k \in Keys, artifacts[k] # NoRecord
  PROVE  /\ FilePath(k, artifacts[k]) = artifacts[k].sha
         /\ ~IsMetadata(k) => Servable(k, FilePath(k, artifacts[k]))
BY DEF RecordHasBlob, FilePath, IsFile, Servable, Fresh

LEMMA ShelfIsTable ==
  ASSUME OnlyArchives, RecordHasBlob, RecordHasBlob'
  PROVE  /\ Shelf = [k \in Keys |-> Held(artifacts[k])]
         /\ Shelf' = [k \in Keys |-> Held(artifacts'[k])]
<1>1. ASSUME NEW k \in Keys
      PROVE  /\ Servable(k, FilePath(k, artifacts[k])) <=> artifacts[k] # NoRecord
             /\ Servable(k, FilePath(k, artifacts[k]))' <=> artifacts'[k] # NoRecord
  BY DEF OnlyArchives, IsMetadata, RecordHasBlob, FilePath, IsFile, Servable, Fresh
<1> QED
  BY <1>1 DEF Shelf, Held

(* A row that is bound to an archive: its bytes are there, and it is fresh. *)
LEMMA BoundIsServed ==
  ASSUME TypeOK, RecordHasBlob, NEW t \in Tasks, NEW k \in Keys, ~IsMetadata(k), NEW m,
         Reuse(t, k, m)
  PROVE  \E row \in Record :
           /\ <<PoolOf[k], row.sha>> \in blobs
           /\ artifacts' = [artifacts EXCEPT ![k] = row]
           /\ Answer(t, "REUSED", row.sha, row.sha)
           /\ Goto(t, "replied")
<1>1. PICK row \in Reusable(k) : Bind(t, k, m, Renewed(row))
  BY DEF Reuse
<1>2. PICK j \in Keys : row \in Record /\ artifacts[j] = row /\ PoolOf[j] = PoolOf[k]
  BY ReusableType DEF TypeOK
<1>3. <<PoolOf[k], row.sha>> \in blobs
  BY <1>2 DEF RecordHasBlob
<1>4. Renewed(row) \in Record /\ Renewed(row).sha = row.sha
  BY <1>2, RenewedType
<1>5. FilePath(k, Renewed(row)) = row.sha
  BY <1>3, <1>4 DEF FilePath, IsFile
<1> QED
  BY <1>1, <1>3, <1>4, <1>5 DEF Bind, Fresh

(* A failing SQLite call on the way to an archive leaves the tables, or     *)
(* binds a key that had no row to one whose bytes are there.                *)
LEMMA FailedUse ==
  ASSUME TypeOK, RecordHasBlob, NEW k \in Keys, ~IsMetadata(k),
         UseFails(k, FilePath(k, artifacts[k]))
  PROVE  \/ artifacts' = artifacts
         \/ /\ artifacts[k] = NoRecord
            /\ \E row \in Record : artifacts' = [artifacts EXCEPT ![k] = row]
<1>1. CASE Servable(k, FilePath(k, artifacts[k]))
  BY <1>1 DEF UseFails
<1>2. CASE ~Servable(k, FilePath(k, artifacts[k]))
  <2>1. artifacts[k] = NoRecord
    BY <1>2, RowIsServed DEF TypeOK
  <2>2. ASSUME NEW row \in Reusable(k) PROVE Renewed(row) \in Record
    BY ReusableType, RenewedType DEF TypeOK
  <2> QED
    BY <1>2, <2>1, <2>2 DEF UseFails
<1> QED
  BY <1>1, <1>2

(* What an answer adds to what the clients have been told.                  *)
LEMMA Answered ==
  ASSUME TypeOK, NEW t \in Tasks, NEW k, NEW status, NEW file, NEW sha,
         Answer(t, status, file, sha), key'[t] = k,
         \A s \in Tasks \ {t} : key'[s] = key[s],
         Silent, pc[t] \notin {"closing", "replied"}
  PROVE  /\ Given[t] = Missing
         /\ status \in {"HIT", "REUSED", "MISS", "Unkept"} => Given' = [Given EXCEPT ![t] = <<k, file>>]
         /\ status \notin {"HIT", "REUSED", "MISS", "Unkept"} => Given' = Given
<1>1. /\ reply[t] = NoReply /\ reply \in [Tasks -> [status : Statuses,
             file : Contents \cup {Missing}, sha : Contents \cup {Missing}]]
      /\ reply' = [reply EXCEPT ![t] = [status |-> status, file |-> file, sha |-> sha]]
  BY DEF Silent, Answer, TypeOK, ReplyOK
<1>2. reply'[t].status = status /\ reply'[t].file = file
  BY <1>1
<1>3. \A s \in Tasks \ {t} : reply'[s] = reply[s]
  BY <1>1
<1>4. Given[t] = Missing
  BY <1>1 DEF Given, NoReply
<1>5. ASSUME NEW s \in Tasks \ {t} PROVE Given'[s] = Given[s]
  BY <1>3 DEF Given
<1>6. Given'[t] = IF status \in {"HIT", "REUSED", "MISS", "Unkept"} THEN <<k, file>> ELSE Missing
  BY <1>2 DEF Given
<1>7. DOMAIN Given = Tasks /\ DOMAIN Given' = Tasks
      /\ Given = [s \in Tasks |-> Given[s]] /\ Given' = [s \in Tasks |-> Given'[s]]
  BY DEF Given
<1> HIDE DEF Given
<1> QED
  BY <1>4, <1>5, <1>6, <1>7

LEMMA Unanswered ==
  ASSUME NEW t \in Tasks, reply' = reply, \A s \in Tasks \ {t} : key'[s] = key[s],
         reply[t] = NoReply \/ key'[t] = key[t]
  PROVE  Given' = Given
<1>1. ASSUME NEW s \in Tasks PROVE key'[s] = key[s] \/ reply[s].status = "none"
  BY DEF NoReply
<1> QED
  BY <1>1 DEF Given

LEMMA RequestKeeps ==
  ASSUME OnlyArchives, Methods \subseteq {"GET"}, ArchiveInv, RecordHasBlob',
         NEW t \in Tasks, NEW k \in Keys, NEW m \in Methods, Request(t, k, m)
  PROVE  [Archive!Next]_<<Shelf, Given>>
<1>0. /\ RecordHasBlob /\ TypeOK /\ Silent /\ TablesOK
      /\ pc[t] = "idle" /\ key' = [key EXCEPT ![t] = k]
      /\ key \in [Tasks -> Keys \cup {NoKey}]
      /\ artifacts \in [Keys -> Record \cup {NoRecord}]
      /\ ~IsMetadata(k)
  BY DEF ArchiveInv, BytesFirst, TypeOK, PhasesOK, TablesOK, OnlyArchives, Request, FastHit,
         ArriveReuse, ArriveOpen, ArriveWait, ArriveFails, Arrive, Accept
<1>k. /\ key'[t] = k /\ \A s \in Tasks \ {t} : key'[s] = key[s]
      /\ TypeOK /\ Silent /\ pc[t] \notin {"closing", "replied"}
  BY <1>0
<1>1. /\ Shelf = [j \in Keys |-> Held(artifacts[j])]
      /\ Shelf' = [j \in Keys |-> Held(artifacts'[j])]
  BY <1>0, ShelfIsTable
<1>2. CASE FastHit(t, k, m)
  <2>1. /\ artifacts[k] \in Record /\ artifacts' = artifacts
        /\ Answer(t, "HIT", artifacts[k].sha, artifacts[k].sha)
    BY <1>0, <1>2, RowIsServed, ServableType DEF FastHit, store
  <2>2. /\ Given[t] = Missing
        /\ Given' = [Given EXCEPT ![t] = <<k, artifacts[k].sha>>]
    BY <1>k, <2>1, Answered
  <2>3. Shelf' = Shelf /\ Shelf'[k] = artifacts[k].sha /\ artifacts[k].sha # Missing
    BY <1>1, <2>1 DEF Held, Record
  <2>4. Archive!Serve(t, k)
    BY <2>2, <2>3 DEF Archive!Serve, Archive!HandOut
  <2> QED
    BY <2>4 DEF Archive!Next
<1>3. CASE ArriveReuse(t, k, m)
  <2>1. /\ ~Servable(k, FilePath(k, artifacts[k]))
        /\ Reuse(t, k, m)
    BY <1>3 DEF ArriveReuse, Arrive
  <2>2. artifacts[k] = NoRecord
    BY <1>0, <2>1, RowIsServed
  <2>3. PICK row \in Record : /\ artifacts' = [artifacts EXCEPT ![k] = row]
                              /\ Answer(t, "REUSED", row.sha, row.sha)
    BY <1>0, <2>1, BoundIsServed
  <2>4. /\ Given[t] = Missing
        /\ Given' = [Given EXCEPT ![t] = <<k, row.sha>>]
    BY <1>k, <2>3, Answered
  <2>5. /\ row.sha \in Contents /\ Shelf[k] = Missing
        /\ Shelf' = [Shelf EXCEPT ![k] = row.sha]
    BY <1>0, <1>1, <2>2, <2>3 DEF Held, Record
  <2>6. Archive!FillAndServe(t, k, row.sha)
    BY <1>1, <2>4, <2>5 DEF Archive!FillAndServe, Archive!Place, Archive!HandOut
  <2> QED
    BY <2>5, <2>6 DEF Archive!Next
<1>4. CASE ArriveOpen(t, k, m) \/ ArriveWait(t, k, m)
  <2>1. artifacts' = artifacts /\ reply' = reply
    BY <1>4 DEF ArriveOpen, ArriveWait, Open, store
  <2>2. Given' = Given
    BY <1>0, <1>k, <2>1, Unanswered DEF Silent
  <2> QED
    BY <1>1, <2>1, <2>2
<1>5. CASE ArriveFails(t, k, m)
  <2>1. UseFails(k, FilePath(k, artifacts[k])) /\ Answer(t, "Broken", Missing, Missing)
    BY <1>5 DEF ArriveFails
  <2>2. Given' = Given
    <3>1. PICK status \in {"Broken"} : Answer(t, status, Missing, Missing)
      BY <2>1
    <3> QED
      BY <1>k, <3>1, Answered
  <2>3. CASE artifacts' = artifacts
    BY <1>1, <2>2, <2>3
  <2>4. ASSUME artifacts[k] = NoRecord,
               NEW row \in Record, artifacts' = [artifacts EXCEPT ![k] = row]
        PROVE  Archive!Next
    <3>1. Archive!Fill(k, row.sha)
      BY <1>0, <1>1, <2>2, <2>4 DEF Archive!Fill, Archive!Place, Held
    <3>2. row.sha \in Contents
      BY <2>4 DEF Record
    <3> QED
      BY <1>0, <3>1, <3>2 DEF Archive!Next
  <2> QED
    BY <1>0, <2>1, <2>3, <2>4, FailedUse
<1> QED
  BY <1>2, <1>3, <1>4, <1>5 DEF Request

LEMMA HandleKeeps ==
  ASSUME OnlyArchives, ArchiveInv, RecordHasBlob', NEW t \in Tasks, Handle(t)
  PROVE  [Archive!Next]_<<Shelf, Given>>
<1> DEFINE k == key[t]
<1>0. /\ RecordHasBlob /\ TypeOK /\ Silent /\ TablesOK /\ FetchedIsNew /\ OnlyGet
      /\ pc[t] \notin {"idle", "replied"}
      /\ key' = key /\ k \in Keys /\ ~IsMetadata(k)
      /\ artifacts \in [Keys -> Record \cup {NoRecord}]
  BY DEF ArchiveInv, BytesFirst, TypeOK, PhasesOK, TablesOK, OnlyArchives, Handle, WakeHit,
         WakeReuse, WakeOpen, WakeFails, Wake, Respond200, Respond304, Respond404, RespondError,
         RespondOther, AttemptFails, Upstream, StartBody, Abandon, Disconnect, Publish, BodyFails, Commit,
         CommitFails, Close
<1>k. key'[t] = k /\ \A s \in Tasks \ {t} : key'[s] = key[s]
  BY <1>0
<1>1. /\ Shelf = [j \in Keys |-> Held(artifacts[j])]
      /\ Shelf' = [j \in Keys |-> Held(artifacts'[j])]
  BY <1>0, ShelfIsTable
<1>u. ASSUME artifacts' = artifacts, reply' = reply
      PROVE  UNCHANGED <<Shelf, Given>>
  BY <1>0, <1>k, <1>1, <1>u, Unanswered
<1> HIDE DEF k
<1>2. CASE WakeHit(t)
  <2>1. /\ Servable(k, FilePath(k, artifacts[k])) /\ artifacts' = artifacts
        /\ Answer(t, "HIT", FilePath(k, artifacts[k]), artifacts[k].sha)
        /\ pc[t] = "waiting"
    BY <1>0, <1>2 DEF WakeHit, Wake, SecondLook, Streams, OnlyGet, store, k
  <2>2. /\ artifacts[k] \in Record
        /\ FilePath(k, artifacts[k]) = artifacts[k].sha
        /\ pc[t] \notin {"closing", "replied"}
    BY <1>0, <2>1, ServableType, RowIsServed
  <2>a. Answer(t, "HIT", artifacts[k].sha, artifacts[k].sha)
    BY <2>1, <2>2
  <2>3. /\ Given[t] = Missing
        /\ Given' = [Given EXCEPT ![t] = <<k, artifacts[k].sha>>]
    BY <1>0, <1>k, <2>2, <2>a, Answered
  <2>4. Shelf' = Shelf /\ Shelf'[k] = artifacts[k].sha /\ artifacts[k].sha # Missing
    BY <1>0, <1>1, <2>1, <2>2 DEF Held, Record
  <2>5. Archive!Serve(t, k)
    BY <2>3, <2>4 DEF Archive!Serve, Archive!HandOut
  <2> QED
    BY <1>0, <2>5 DEF Archive!Next
<1>f. ASSUME NEW row \in Record, NEW status \in {"REUSED", "MISS"},
             artifacts[k] = NoRecord, artifacts' = [artifacts EXCEPT ![k] = row],
             Answer(t, status, row.sha, row.sha), pc[t] # "closing"
      PROVE  Archive!Next
  <2>1. /\ Given[t] = Missing
        /\ Given' = [Given EXCEPT ![t] = <<k, row.sha>>]
    BY <1>0, <1>k, <1>f, Answered
  <2>2. /\ row.sha \in Contents /\ Shelf[k] = Missing
        /\ Shelf' = [Shelf EXCEPT ![k] = row.sha]
    BY <1>0, <1>1, <1>f DEF Held, Record
  <2>3. Shelf'[k] = row.sha
    BY <1>0, <1>1, <1>f DEF Held
  <2>4. Archive!FillAndServe(t, k, row.sha)
    BY <2>1, <2>2, <2>3 DEF Archive!FillAndServe, Archive!Place, Archive!HandOut
  <2> QED
    BY <1>0, <2>2, <2>4 DEF Archive!Next
<1>3. CASE WakeReuse(t)
  <2>1. /\ ~Servable(k, FilePath(k, artifacts[k])) /\ Reuse(t, k, method[t])
        /\ pc[t] = "waiting"
    BY <1>0, <1>3 DEF WakeReuse, Wake, SecondLook, Streams, OnlyGet, k
  <2>2. artifacts[k] = NoRecord
    BY <1>0, <2>1, RowIsServed
  <2>3. PICK row \in Record : /\ artifacts' = [artifacts EXCEPT ![k] = row]
                              /\ Answer(t, "REUSED", row.sha, row.sha)
    BY <1>0, <2>1, BoundIsServed
  <2> QED
    BY <1>f, <2>1, <2>2, <2>3
<1>4. CASE Commit(t)
  <2>1. /\ pc[t] = "committing"
        /\ artifacts' = [artifacts EXCEPT ![k] = fetched[t]]
        /\ Answer(t, "MISS", FilePath(k, fetched[t]), fetched[t].sha)
    BY <1>4 DEF Commit, k
  <2>2. artifacts[k] = NoRecord /\ fetched[t] \in Record
    BY <1>0, <2>1 DEF FetchedIsNew, Fetching, TypeOK, LocalsOK, k
  <2>3. <<PoolOf[k], fetched[t].sha>> \in blobs
    BY <2>1 DEF ArchiveInv, BytesFirst, k
  <2>4. FilePath(k, fetched[t]) = fetched[t].sha
    BY <2>2, <2>3 DEF FilePath, IsFile
  <2> QED
    BY <1>f, <2>1, <2>2, <2>4
<1>6. CASE WakeFails(t)
  <2>1. /\ UseFails(k, FilePath(k, artifacts[k])) /\ pc[t] = "waiting"
        /\ Answer(t, "Broken", Missing, Missing)
    BY <1>0, <1>6 DEF WakeFails, Wake, Fail, SecondLook, Streams, OnlyGet, k
  <2>2. Given' = Given
    <3>1. PICK status \in {"Broken"} : Answer(t, status, Missing, Missing)
      BY <2>1
    <3>2. pc[t] # "closing"
      BY <2>1
    <3> QED
      BY <1>0, <1>k, <3>1, <3>2, Answered
  <2>3. CASE artifacts' = artifacts
    BY <1>1, <2>2, <2>3
  <2>4. ASSUME artifacts[k] = NoRecord,
               NEW row \in Record, artifacts' = [artifacts EXCEPT ![k] = row]
        PROVE  Archive!Next
    <3>1. Archive!Fill(k, row.sha)
      BY <1>0, <1>1, <2>2, <2>4 DEF Archive!Fill, Archive!Place, Held
    <3>2. row.sha \in Contents
      BY <2>4 DEF Record
    <3> QED
      BY <1>0, <3>1, <3>2 DEF Archive!Next
  <2> QED
    BY <1>0, <2>1, <2>3, <2>4, FailedUse
<1>7. CASE CommitFails(t)
  <2>1. /\ pc[t] = "committing" /\ artifacts' = artifacts
        /\ Answer(t, "Unkept", fetched[t].sha, fetched[t].sha)
    BY <1>0, <1>7 DEF CommitFails, Buffered, Streams, OnlyGet, store, k
  <2>2. /\ artifacts[k] = NoRecord
        /\ fetched[t] \in Record /\ fetched[t].sha \in Contents
    BY <1>0, <2>1 DEF FetchedIsNew, Fetching, TypeOK, LocalsOK, Record, k
  <2>3. /\ Given[t] = Missing
        /\ Given' = [Given EXCEPT ![t] = <<k, fetched[t].sha>>]
    BY <1>0, <1>k, <2>1, Answered
  <2>4. Shelf' = Shelf /\ Shelf[k] = Missing
    BY <1>0, <1>1, <2>1, <2>2 DEF Held
  <2>5. Archive!PassOn(t, k, fetched[t].sha)
    BY <2>3, <2>4 DEF Archive!PassOn
  <2> QED
    BY <1>0, <2>2, <2>5 DEF Archive!Next
<1>5. CASE ~(WakeHit(t) \/ WakeReuse(t) \/ Commit(t) \/ WakeFails(t) \/ CommitFails(t))
  <2>1. \/ reply' = reply
        \/ /\ pc[t] # "closing"
           /\ \E status \in {"NotFound", "Unavailable", "Broken"} :
                Answer(t, status, Missing, Missing)
    BY <1>0, <1>5 DEF Handle, WakeOpen, Open, Respond200, Respond304, Respond404, RespondError,
         RespondOther, AttemptFails, Upstream, StartBody, Abandon, Disconnect, Publish, BodyFails,
         Close, NextUrl, Fail, k
  <2>2. artifacts' = artifacts
    BY <1>0, <1>5 DEF Handle, WakeOpen, Open, Respond200, Respond304, Respond404, RespondError,
         RespondOther, AttemptFails, Upstream, StartBody, Abandon, Disconnect, Publish, BodyFails,
         Close, store, k
  <2>3. CASE reply' = reply
    BY <1>u, <2>2, <2>3
  <2>4. ASSUME NEW status \in {"NotFound", "Unavailable", "Broken"},
               Answer(t, status, Missing, Missing), pc[t] # "closing"
        PROVE  UNCHANGED <<Shelf, Given>>
    <3>1. Given' = Given
      BY <1>0, <1>k, <2>4, Answered
    <3> QED
      BY <1>1, <2>2, <3>1
  <2> QED
    BY <2>1, <2>3, <2>4
<1> QED
  BY <1>2, <1>3, <1>4, <1>5, <1>6, <1>7

LEMMA InitShelves == Init => Archive!Init
BY DEF Init, Archive!Init, Shelf, Given, Servable, NoReply

LEMMA NextKeeps ==
  ASSUME OnlyArchives, "loss" \notin Faults, Methods \subseteq {"GET"}
  PROVE  ArchiveInv /\ ArchiveInv' /\ [Next]_vars => [Archive!Next]_<<Shelf, Given>>
<1> SUFFICES ASSUME ArchiveInv, ArchiveInv', [Next]_vars
             PROVE  [Archive!Next]_<<Shelf, Given>>
  OBVIOUS
<1>0. RecordHasBlob /\ RecordHasBlob'
  BY DEF ArchiveInv, BytesFirst
<1>1. CASE \E t \in Tasks, k \in Keys, m \in Methods : Request(t, k, m)
  BY <1>0, <1>1, RequestKeeps
<1>2. CASE \E t \in Tasks : Handle(t)
  BY <1>0, <1>2, HandleKeeps
<1>3. CASE \E t \in Tasks : Leave(t)
  <2>1. PICK t \in Tasks : /\ artifacts' = artifacts
                           /\ key' = [key EXCEPT ![t] = NoKey]
                           /\ reply' = [reply EXCEPT ![t] = NoReply]
    BY <1>3 DEF Leave, store
  <2>2. /\ key \in [Tasks -> Keys \cup {NoKey}]
        /\ reply \in [Tasks -> [status : Statuses, file : Contents \cup {Missing},
                                sha : Contents \cup {Missing}]]
    BY DEF ArchiveInv, TypeOK, PhasesOK, ReplyOK
  <2>3. Given' = [Given EXCEPT ![t] = Missing]
    BY <2>1, <2>2 DEF Given, NoReply
  <2>4. Shelf' = Shelf
    BY <1>0, <2>1, ShelfIsTable
  <2> QED
    BY <2>3, <2>4 DEF Archive!Next, Archive!Done
<1>4. CASE Crash
  <2>1. artifacts' = artifacts /\ reply' = [t \in Tasks |-> NoReply]
    BY <1>4 DEF Crash
  <2>2. Given' = [t \in Tasks |-> Missing]
    BY <2>1 DEF Given, NoReply
  <2>3. Shelf' = Shelf
    BY <1>0, <2>1, ShelfIsTable
  <2> QED
    BY <2>2, <2>3 DEF Archive!Next, Archive!Restart
<1>5. CASE UNCHANGED vars
  <2>1. artifacts' = artifacts /\ reply' = reply /\ key' = key
    BY <1>5 DEF vars
  <2> QED
    BY <1>0, <2>1, ShelfIsTable DEF Given
<1>6. ~(\E k \in Keys : Expire(k)) /\ ~(\E b \in Pools \X Contents : LoseBlob(b))
  BY DEF Expire, LoseBlob, OnlyArchives
<1> QED
  BY <1>1, <1>2, <1>3, <1>4, <1>5, <1>6 DEF Next

(* For clients that GET archives, and as long as nothing outside deletes    *)
(* blobs, the gateway with its locks, tables and files implements           *)
(* ArchiveCache: one key's bytes are set once, across routes, downloads     *)
(* that break off, failing commits and restarts, and every response that    *)
(* carries an archive carries those bytes.                                  *)
THEOREM ArchivesAreKept ==
  ASSUME OnlyArchives, "loss" \notin Faults, Methods \subseteq {"GET"}
  PROVE  Spec => KeepsArchives
BY ArchiveInvInit, ArchiveInvNext, InitShelves, NextKeeps,
   PTL DEF Spec, KeepsArchives, Archive!Spec

-----------------------------------------------------------------------------
(* What is sent is what X-Cache-SHA256 says.                                *)

(* A step answers nobody, or somebody with the bytes of a row.              *)
LEMMA AnswersAreRows ==
  ASSUME OnlyArchives, Methods \subseteq {"GET"}, ArchiveInv, [Next]_vars
  PROVE  \/ reply' = reply
         \/ reply' = [t \in Tasks |-> NoReply]
         \/ \E t \in Tasks : reply' = [reply EXCEPT ![t] = NoReply]
         \/ \E t \in Tasks, status \in Statuses, file \in Contents \cup {Missing} :
              Answer(t, status, file, file)
<1>0. /\ TypeOK /\ TablesOK /\ RecordHasBlob /\ OnlyGet
  BY DEF ArchiveInv, BytesFirst, TypeOK
<1>1. CASE \E t \in Tasks, k \in Keys, m \in Methods : Request(t, k, m)
  <2>1. PICK t \in Tasks, k \in Keys, m \in Methods : Request(t, k, m)
    BY <1>1
  <2>2. CASE FastHit(t, k, m)
    <3>1. /\ Servable(k, FilePath(k, artifacts[k]))
          /\ Answer(t, "HIT", FilePath(k, artifacts[k]), artifacts[k].sha)
      BY <2>2 DEF FastHit
    <3>2. artifacts[k].sha \in Contents /\ FilePath(k, artifacts[k]) = artifacts[k].sha
      BY <1>0, <3>1, ServableType, RowIsServed
    <3> QED
      BY <3>1, <3>2 DEF Statuses
  <2>3. CASE ArriveReuse(t, k, m)
    <3>1. Reuse(t, k, m) /\ ~IsMetadata(k)
      BY <2>3 DEF ArriveReuse, OnlyArchives
    <3> QED
      BY <1>0, <3>1, BoundIsServed DEF Record, Statuses
  <2>4. CASE ArriveOpen(t, k, m) \/ ArriveWait(t, k, m) \/ ArriveFails(t, k, m)
    BY <2>4 DEF ArriveOpen, ArriveWait, ArriveFails, Open, Statuses
  <2> QED
    BY <2>1, <2>2, <2>3, <2>4 DEF Request
<1>2. CASE \E t \in Tasks : Handle(t)
  <2>1. PICK t \in Tasks : Handle(t)
    BY <1>2
  <2> DEFINE k == key[t]
  <2>2. (pc[t] # "idle" => k \in Keys) /\ method[t] = "GET"
    BY <1>0 DEF TypeOK, PhasesOK, OnlyGet
  <2>3. k \in Keys => ~IsMetadata(k)
    BY DEF OnlyArchives
  <2>4. CASE WakeHit(t)
    <3>1. /\ k \in Keys /\ Servable(k, FilePath(k, artifacts[k]))
          /\ Answer(t, "HIT", FilePath(k, artifacts[k]), artifacts[k].sha)
      BY <2>2, <2>3, <2>4 DEF WakeHit, Wake, SecondLook, Streams
    <3>2. artifacts[k].sha \in Contents /\ FilePath(k, artifacts[k]) = artifacts[k].sha
      BY <1>0, <3>1, ServableType, RowIsServed
    <3> QED
      BY <3>1, <3>2 DEF Statuses
  <2>5. CASE WakeReuse(t)
    <3>1. k \in Keys /\ ~IsMetadata(k) /\ Reuse(t, k, method[t])
      BY <2>2, <2>3, <2>5 DEF WakeReuse, Wake
    <3> QED
      BY <1>0, <3>1, BoundIsServed DEF Record, Statuses
  <2>6. CASE Commit(t)
    <3>1. /\ pc[t] = "committing"
          /\ Answer(t, "MISS", FilePath(k, fetched[t]), fetched[t].sha)
      BY <2>6 DEF Commit
    <3>2. fetched[t] \in Record /\ <<PoolOf[k], fetched[t].sha>> \in blobs
      BY <1>0, <3>1 DEF TypeOK, LocalsOK, ArchiveInv, BytesFirst
    <3>3. FilePath(k, fetched[t]) = fetched[t].sha /\ fetched[t].sha \in Contents
      BY <3>2 DEF FilePath, IsFile, Record
    <3> QED
      BY <3>1, <3>3 DEF Statuses
  <2>7. CASE Respond304(t)
    BY <2>2, <2>3, <2>7 DEF Respond304, Upstream
  <2>9. CASE CommitFails(t)
    <3>1. /\ pc[t] = "committing"
          /\ \/ Answer(t, "Broken", Missing, Missing)
             \/ Answer(t, "Unkept", fetched[t].sha, fetched[t].sha)
      BY <2>9 DEF CommitFails, Fail
    <3>2. fetched[t].sha \in Contents
      BY <1>0, <3>1 DEF TypeOK, LocalsOK, Record
    <3> QED
      BY <3>1, <3>2 DEF Statuses
  <2>8. CASE ~(WakeHit(t) \/ WakeReuse(t) \/ Commit(t) \/ Respond304(t) \/ CommitFails(t))
    <3>1. \/ reply' = reply
          \/ \E status \in {"NotFound", "Unavailable", "Broken"} :
               Answer(t, status, Missing, Missing)
      BY <2>1, <2>8 DEF Handle, WakeOpen, WakeFails, Open, Respond200, Respond404, RespondError,
           RespondOther, AttemptFails, StartBody, Abandon, Disconnect, Publish, BodyFails,
           Close, NextUrl, Fail
    <3> QED
      BY <3>1 DEF Statuses
  <2> QED
    BY <2>4, <2>5, <2>6, <2>7, <2>8, <2>9
<1>3. CASE \E t \in Tasks : Leave(t)
  BY <1>3 DEF Leave
<1>4. CASE Crash
  BY <1>4 DEF Crash
<1>5. CASE UNCHANGED vars \/ \E b \in Pools \X Contents : LoseBlob(b)
  BY <1>5 DEF vars, LoseBlob
<1>6. ~(\E k \in Keys : Expire(k))
  BY DEF Expire, OnlyArchives
<1> QED
  BY <1>1, <1>2, <1>3, <1>4, <1>5, <1>6 DEF Next

(* The file a response is sent from is the one its row names, so that the   *)
(* X-Cache-SHA256 header of the reply is the digest of its body.  (A HEAD   *)
(* or an index can be answered from a path captured before the row changed.)*)
THEOREM RepliesAreRows ==
  ASSUME OnlyArchives, "loss" \notin Faults, Methods \subseteq {"GET"}
  PROVE  Spec => []ReplyMatchesRow
<1>1. Init => ReplyMatchesRow
  BY DEF Init, ReplyMatchesRow, NoReply
<1>2. ArchiveInv /\ ReplyMatchesRow /\ [Next]_vars => ReplyMatchesRow'
  <2> SUFFICES ASSUME ArchiveInv, ReplyMatchesRow, [Next]_vars PROVE ReplyMatchesRow'
    OBVIOUS
  <2>1. DOMAIN reply = Tasks
    BY DEF ArchiveInv, TypeOK, ReplyOK
  <2> QED
    BY <2>1, AnswersAreRows DEF ReplyMatchesRow, Answer, NoReply
<1> QED
  BY <1>1, <1>2, ArchiveInvInit, ArchiveInvNext, PTL DEF Spec

=============================================================================

-------------------------- MODULE ClientSyncProofs --------------------------
(***************************************************************************)
(* --prune and what it has listed, for any number of scripts, caches and   *)
(* archives, whatever other tools put into the caches meanwhile.           *)
(***************************************************************************)
EXTENDS ClientSync, TLAPS

Working(s) == pc[s] \in {"check", "open", "upload", "remove"}
InPipPass(s) == pc[s] = "pip" \/ (Working(s) /\ KindOf[current[s]] = "pip")

(* register keeps one SHA-256 for a row.                                    *)
OneFilePerRow == \A a, b \in Archives : KeyOf[a] = KeyOf[b] => ShaOf[a] = ShaOf[b]

(* The gateway has the bytes and, if no other file has the same row, serves *)
(* them.                                                                    *)
Safe(a) == Blob(a) \in blobs /\ (OneFilePerRow => Reachable(a))

PrunedIsSafe == \A a \in Pruned : Safe(a)

(* What `pip cache purge` relies on: while no archive has failed, each one  *)
(* that was listed is to be done, being done or safe.                       *)
Accounted(s, a) ==
  \/ a \in todo[s]
  \/ Working(s) /\ a = current[s]
  \/ Safe(a)

(* What the script relies on when it removes an archive, and when it purges.*)
ScriptOK(s) ==
  /\ pc[s] = "remove" => Safe(current[s])
  /\ InPipPass(s) /\ ~failed[s] =>
       \A a \in listed[s] : KindOf[a] = "pip" => Accounted(s, a)

SInv == TypeOK /\ PrunedIsSafe /\ \A s \in Scripts : ScriptOK(s)

SafeStays == \A a \in Archives : Safe(a) => Safe(a)'

-----------------------------------------------------------------------------
(* The gateway's handlers *)

Handled(s) ==
  \/ UNCHANGED gateway \/ CheckHandler(s) \/ UploadHandler(s) \/ CheckCut(s) \/ UploadCut(s)

(* They add bytes, and one archive's row and link or nobody's.              *)
LEMMA HandlerDoes ==
  ASSUME NEW s \in Scripts, Handled(s)
  PROVE  /\ blobs' = blobs \/ blobs' = blobs \cup {Blob(current[s])}
         /\ UNCHANGED rows \/ Upsert(current[s])
         /\ UNCHANGED links \/ Link(current[s])
BY DEF Handled, gateway, CheckHandler, UploadHandler, CheckCut, UploadCut, Register, RegisterCut

(* Whatever register does to the tables, they keep their shape.             *)
LEMMA HandlerType ==
  ASSUME TypeOK, NEW s \in Scripts, current[s] \in Archives, Handled(s)
  PROVE  /\ blobs' \subseteq {"conda", "pip"} \X Shas
         /\ rows' \in [Keys -> Shas \cup {None}] /\ links' \in [Origins -> Keys \cup {None}]
<1>1. PICK a \in Archives : a = current[s]
  OBVIOUS
<1>2. KeyOf[a] \in Keys /\ ShaOf[a] \in Shas /\ OriginOf[a] \in Origins
  BY DEF Keys, Shas, Origins
<1>3. Blob(a) \in {"conda", "pip"} \X Shas
  BY <1>2, SyncConstants DEF Blob
<1> QED
  BY <1>1, <1>2, <1>3, HandlerDoes DEF TypeOK, Upsert, Link

(* What is safe stays so: register gives its row to nothing else, and its   *)
(* link only to an archive of the same origin.                              *)
LEMMA HandlerKeepsSafe ==
  ASSUME TypeOK, NEW s \in Scripts, current[s] \in Archives, Handled(s)
  PROVE  SafeStays
<1>1. PICK b \in Archives : b = current[s]
  OBVIOUS
<1> SUFFICES ASSUME NEW a \in Archives, Safe(a) PROVE Safe(a)'
  BY DEF SafeStays
<1>2. /\ blobs' = blobs \/ blobs' = blobs \cup {Blob(b)}
      /\ UNCHANGED rows \/ Upsert(b)
      /\ UNCHANGED links \/ Link(b)
  BY <1>1, HandlerDoes
<1>3. KeyOf[a] \in Keys /\ OriginOf[a] \in Origins
  BY DEF Keys, Origins
<1>4. Blob(a) \in blobs'
  BY <1>2 DEF Safe
<1>5. ASSUME OneFilePerRow PROVE rows'[KeyOf[a]] = ShaOf[a]
  BY <1>2, <1>3, <1>5 DEF Upsert, Safe, Reachable, OneFilePerRow, TypeOK
<1>6. ASSUME OneFilePerRow, KindOf[a] = "pip"
      PROVE  links'[OriginOf[a]] \in {KeyOf[c] : c \in Siblings(a)}
  <2>1. links[OriginOf[a]] \in {KeyOf[c] : c \in Siblings(a)}
    BY <1>6 DEF Safe, Reachable
  <2>2. CASE KindOf[b] = "pip" /\ OriginOf[b] = OriginOf[a]
    BY <1>2, <1>3, <2>1, <2>2 DEF Link, Siblings, TypeOK
  <2>3. CASE ~(KindOf[b] = "pip" /\ OriginOf[b] = OriginOf[a])
    BY <1>2, <1>3, <2>1, <2>3 DEF Link, TypeOK
  <2> QED
    BY <2>2, <2>3
<1> QED
  BY <1>4, <1>5, <1>6 DEF Safe, Blob, Reachable, Siblings

(* An answered check or upload makes its own archive safe.                  *)
LEMMA AnswerMakesSafe ==
  ASSUME TypeOK, NEW s \in Scripts, NEW a \in Archives, a = current[s],
         CheckHandler(s) \/ (Welcome(s) /\ UploadHandler(s))
  PROVE  Safe(a)'
<1>1. KeyOf[a] \in Keys /\ OriginOf[a] \in Origins
  BY DEF Keys, Origins
<1>2. Blob(a) \in blobs' /\ Upsert(a) /\ Link(a)
  BY DEF CheckHandler, UploadHandler, Register
<1>3. rows'[KeyOf[a]] = ShaOf[a]
  BY <1>1, <1>2 DEF Upsert, TypeOK
<1>4. KindOf[a] = "pip" => links'[OriginOf[a]] = KeyOf[a] /\ a \in Siblings(a)
  BY <1>1, <1>2 DEF Link, Siblings, TypeOK
<1> QED
  BY <1>2, <1>3, <1>4 DEF Safe, Blob, Reachable, Siblings

-----------------------------------------------------------------------------
(* Types *)

LEMMA TypeInit == Init => TypeOK
  BY SyncConstants DEF Init, TypeOK, Keys, Origins, Shas

Requests(s) == CheckHit(s) \/ CheckMiss(s) \/ CheckFails(s) \/ Open(s) \/ UploadDone(s) \/ UploadFails(s)

(* What a request step is made of.                                          *)
LEMMA RequestStep ==
  ASSUME TypeOK, NEW s \in Scripts, Requests(s)
  PROVE  /\ Working(s) /\ pc[s] # "remove"
         /\ current[s] \in Archives /\ KindOf[current[s]] \in {"conda", "pip"}
         /\ Handled(s)
         /\ \/ \E phase \in {"open", "upload"} : GoOn(s, phase)
            \/ GoOn(s, "remove") /\ (CheckHandler(s) \/ (Welcome(s) /\ UploadHandler(s)))
            \/ CountFailure(s)
<1>1. /\ Working(s) /\ pc[s] # "remove"
      /\ current[s] \in Archives /\ KindOf[current[s]] \in {"conda", "pip"}
  BY SyncConstants DEF Requests, CheckHit, CheckMiss, CheckFails, Open, UploadDone, UploadFails,
     TypeOK, Working
<1>2. Handled(s)
  BY DEF Requests, CheckHit, CheckMiss, CheckFails, Open, UploadDone, UploadFails, Handled
<1>3. \/ GoOn(s, "open") \/ GoOn(s, "upload")
      \/ GoOn(s, "remove") /\ (CheckHandler(s) \/ (Welcome(s) /\ UploadHandler(s)))
      \/ CountFailure(s)
  BY DEF Requests, CheckHit, CheckMiss, CheckFails, Open, UploadDone, UploadFails
<1> QED
  BY <1>1, <1>2, <1>3

LEMMA TypeNext == TypeOK /\ [Next]_vars => TypeOK'
<1> SUFFICES ASSUME TypeOK, [Next]_vars PROVE TypeOK'
  OBVIOUS
<1> USE DEF Goto, caches
<1>1. ASSUME NEW s \in Scripts, Requests(s) PROVE TypeOK'
  <2>1. current[s] \in Archives /\ KindOf[current[s]] \in {"conda", "pip"}
    BY <1>1, RequestStep
  <2>2. /\ blobs' \subseteq {"conda", "pip"} \X Shas
        /\ rows' \in [Keys -> Shas \cup {None}] /\ links' \in [Origins -> Keys \cup {None}]
    BY <1>1, <2>1, RequestStep, HandlerType
  <2>3. CASE CountFailure(s)
    BY <2>1, <2>2, <2>3 DEF CountFailure, Return, TypeOK
  <2>4. CASE \E phase \in {"open", "upload", "remove"} : GoOn(s, phase)
    BY <2>1, <2>2, <2>4 DEF GoOn, TypeOK
  <2> QED
    BY <1>1, <2>3, <2>4, RequestStep
<1>2. ASSUME NEW s \in Scripts, Remove(s) PROVE TypeOK'
  BY <1>2, SyncConstants DEF Remove, Return, gateway, TypeOK
<1>3. ASSUME NEW s \in Scripts, PurgePip(s) PROVE TypeOK'
  BY <1>3 DEF PurgePip, Purge, gateway, TypeOK
<1>4. ASSUME NEW s \in Scripts, Scan(s) \/ PurgeConda(s) \/ Again(s) \/ Stop(s) PROVE TypeOK'
  <2>1. CASE Scan(s)
    BY <2>1 DEF Scan, gateway, TypeOK
  <2>2. CASE PurgeConda(s)
    BY <2>2 DEF PurgeConda, gateway, TypeOK
  <2>3. CASE Again(s)
    BY <2>3 DEF Again, gateway, TypeOK
  <2>4. CASE Stop(s)
    BY <2>4 DEF Stop, gateway, TypeOK
  <2> QED
    BY <1>4, <2>1, <2>2, <2>3, <2>4
<1>5. ASSUME NEW s \in Scripts, NEW a \in Archives, Pick(s, a) \/ PickGone(s, a) PROVE TypeOK'
  <2>1. CASE Pick(s, a)
    BY <2>1 DEF Pick, gateway, TypeOK
  <2>2. CASE PickGone(s, a)
    BY <2>2 DEF PickGone, gateway, TypeOK
  <2> QED
    BY <1>5, <2>1, <2>2
<1>6. ASSUME NEW a \in Archives, Download(a) PROVE TypeOK'
  BY <1>6 DEF Download, gateway, TypeOK
<1>7. CASE UNCHANGED vars
  BY <1>7 DEF vars, TypeOK
<1> QED
  BY <1>1, <1>2, <1>3, <1>4, <1>5, <1>6, <1>7 DEF Next, Step, Requests

(* A script that sends or deletes an archive has one at hand, and the       *)
(* gateway's tables keep their shape, also when a handler is cut off        *)
(* between its two commits.                                                 *)
THEOREM SyncTypeCorrect == Spec => []TypeOK
  BY TypeInit, TypeNext, PTL DEF Spec

-----------------------------------------------------------------------------
(* What is pruned is safe *)

LEMMA SInit == Init => SInv
<1> SUFFICES ASSUME Init PROVE SInv
  OBVIOUS
<1>1. Pruned = {}
  BY DEF Init, Pruned, Gone
<1> QED
  BY <1>1, TypeInit DEF Init, SInv, PrunedIsSafe, ScriptOK, InPipPass, Working

LEMMA SameGateway == ASSUME UNCHANGED gateway PROVE SafeStays
  BY DEF gateway, SafeStays, Safe, Reachable, Blob, Siblings

(* A step does not disturb the scripts that do not take it.                 *)
LEMMA OthersKeep ==
  ASSUME TypeOK, SafeStays, NEW t \in Scripts, ScriptOK(t),
         pc'[t] = pc[t], current'[t] = current[t], todo'[t] = todo[t],
         listed'[t] = listed[t], failed'[t] = failed[t]
  PROVE  ScriptOK(t)'
<1>1. /\ InPipPass(t)' <=> InPipPass(t)
      /\ Working(t)' <=> Working(t)
  BY DEF InPipPass, Working
<1>2. ASSUME NEW a \in Archives, Accounted(t, a) PROVE Accounted(t, a)'
  BY <1>1, <1>2 DEF Accounted, SafeStays
<1>3. pc[t] = "remove" => Safe(current[t])'
  <2> SUFFICES ASSUME pc[t] = "remove" PROVE Safe(current[t])'
    OBVIOUS
  <2>1. PICK a \in Archives : a = current[t]
    BY DEF TypeOK
  <2>2. Safe(a)'
    BY <2>1 DEF ScriptOK, SafeStays
  <2> QED
    BY <2>1, <2>2
<1>4. listed[t] \subseteq Archives
  BY DEF TypeOK
<1> QED
  BY <1>1, <1>2, <1>3, <1>4 DEF ScriptOK

(* Neither does one that takes nothing out of the caches make a new claim.  *)
LEMMA NothingPruned ==
  ASSUME PrunedIsSafe, SafeStays, Gone' \subseteq Gone, swept' = swept
  PROVE  PrunedIsSafe'
  BY DEF PrunedIsSafe, SafeStays, Pruned, Gone

LEMMA RequestKeeps ==
  ASSUME SInv, TypeOK', NEW s \in Scripts, Requests(s)
  PROVE  SInv'
<1>1. /\ Working(s) /\ pc[s] # "remove"
      /\ current[s] \in Archives /\ KindOf[current[s]] \in {"conda", "pip"}
      /\ Handled(s)
      /\ \/ \E phase \in {"open", "upload"} : GoOn(s, phase)
         \/ GoOn(s, "remove") /\ (CheckHandler(s) \/ (Welcome(s) /\ UploadHandler(s)))
         \/ CountFailure(s)
  BY RequestStep DEF SInv
<1>2. SafeStays
  BY <1>1, HandlerKeepsSafe DEF SInv
<1>3. UNCHANGED <<local, pending, swept, todo, listed>>
  BY <1>1 DEF GoOn, CountFailure, Return, caches
<1>4. PrunedIsSafe'
  BY <1>2, <1>3, NothingPruned DEF SInv, Gone
<1>5. ASSUME NEW t \in Scripts \ {s} PROVE ScriptOK(t)'
  <2>1. pc'[t] = pc[t] /\ current'[t] = current[t] /\ failed'[t] = failed[t]
    BY <1>1 DEF GoOn, CountFailure, Return, Goto, SInv, TypeOK
  <2> QED
    BY <1>2, <1>3, <2>1, OthersKeep DEF SInv
<1>6. ScriptOK(s)'
  <2>1. CASE CountFailure(s)
    <3>1. failed'[s] /\ pc'[s] # "remove"
      BY <1>1, <2>1 DEF CountFailure, Return, Goto, SInv, TypeOK
    <3> QED
      BY <3>1 DEF ScriptOK
  <2>2. ASSUME NEW phase \in {"open", "upload", "remove"}, GoOn(s, phase),
               phase = "remove" => CheckHandler(s) \/ (Welcome(s) /\ UploadHandler(s))
        PROVE  ScriptOK(s)'
    <3>1. pc'[s] = phase /\ UNCHANGED <<current, failed>>
      BY <2>2 DEF GoOn, Goto, SInv, TypeOK
    <3>2. PICK c \in Archives : c = current[s]
      BY <1>1
    <3>3. phase = "remove" => Safe(c)'
      BY <2>2, <3>2, AnswerMakesSafe DEF SInv
    <3>4. Working(s)' /\ (InPipPass(s)' => InPipPass(s))
      BY <1>1, <3>1 DEF Working, InPipPass
    <3>5. ASSUME NEW a \in Archives, Accounted(s, a) PROVE Accounted(s, a)'
      BY <1>2, <1>3, <3>1, <3>4, <3>5 DEF Accounted, SafeStays
    <3>6. listed[s] \subseteq Archives
      BY DEF SInv, TypeOK
    <3> QED
      BY <1>3, <3>1, <3>2, <3>3, <3>4, <3>5, <3>6 DEF SInv, ScriptOK
  <2> QED
    BY <1>1, <2>1, <2>2
<1> QED
  BY <1>4, <1>5, <1>6 DEF SInv

(* Taking the next archive, and finding that it is gone.                    *)
LEMMA PickKeeps ==
  ASSUME SInv, TypeOK', NEW s \in Scripts, NEW a \in Archives, Pick(s, a) \/ PickGone(s, a)
  PROVE  SInv'
<1>1. SafeStays
  BY SameGateway DEF Pick, PickGone
<1>2. /\ UNCHANGED <<local, pending, swept, listed>>
      /\ pc[s] = KindOf[a] /\ pc[s] \in {"pip", "conda"}
      /\ todo' = [todo EXCEPT ![s] = @ \ {a}]
  BY DEF Pick, PickGone, caches
<1>3. PrunedIsSafe'
  BY <1>1, <1>2, NothingPruned DEF SInv, Gone
<1>4. ASSUME NEW t \in Scripts \ {s} PROVE ScriptOK(t)'
  <2>1. pc'[t] = pc[t] /\ current'[t] = current[t] /\ failed'[t] = failed[t] /\ todo'[t] = todo[t]
    BY DEF Pick, PickGone, Goto, SInv, TypeOK
  <2> QED
    BY <1>1, <1>2, <2>1, OthersKeep DEF SInv
<1>5. ScriptOK(s)'
  <2>1. CASE Pick(s, a)
    <3>1. pc'[s] = "check" /\ current'[s] = a /\ failed' = failed /\ todo'[s] = todo[s] \ {a}
      BY <1>2, <2>1 DEF Pick, Goto, SInv, TypeOK
    <3>2. Working(s)' /\ (InPipPass(s)' => InPipPass(s)) /\ ~Working(s)
      BY <1>2, <3>1 DEF Working, InPipPass
    <3>3. ASSUME NEW b \in Archives, Accounted(s, b) PROVE Accounted(s, b)'
      BY <1>1, <3>1, <3>2, <3>3 DEF Accounted, SafeStays
    <3>4. listed[s] \subseteq Archives
      BY DEF SInv, TypeOK
    <3> QED
      BY <1>2, <3>1, <3>2, <3>3, <3>4 DEF SInv, ScriptOK
  <2>2. CASE PickGone(s, a)
    <3>1. failed'[s] /\ pc'[s] # "remove"
      BY <1>2, <2>2 DEF PickGone, SInv, TypeOK
    <3> QED
      BY <3>1 DEF ScriptOK
  <2> QED
    BY <2>1, <2>2
<1> QED
  BY <1>3, <1>4, <1>5 DEF SInv

LEMMA RemoveKeeps ==
  ASSUME SInv, TypeOK', NEW s \in Scripts, Remove(s)
  PROVE  SInv'
<1>1. SafeStays
  BY SameGateway DEF Remove
<1>2. PICK c \in Archives : c = current[s]
  BY DEF Remove, SInv, TypeOK
<1>3. /\ UNCHANGED <<pending, swept, listed, todo, failed>>
      /\ local \subseteq local' \cup {c}
      /\ Safe(c) /\ KindOf[c] \in {"conda", "pip"} /\ pc[s] = "remove"
      /\ pc' = [pc EXCEPT ![s] = KindOf[c]] /\ current' = [current EXCEPT ![s] = None]
  BY <1>2, SyncConstants DEF Remove, Return, Goto, SInv, ScriptOK
<1>4. PrunedIsSafe'
  <2> SUFFICES ASSUME NEW a \in Pruned' PROVE Safe(a)'
    BY DEF PrunedIsSafe
  <2>1. a \in Pruned \/ a = c
    BY <1>3 DEF Pruned, Gone
  <2>2. a \in Archives /\ Safe(a)
    BY <1>3, <2>1 DEF SInv, PrunedIsSafe, Pruned, Gone
  <2> QED
    BY <1>1, <2>2 DEF SafeStays
<1>5. ASSUME NEW t \in Scripts \ {s} PROVE ScriptOK(t)'
  <2>1. pc'[t] = pc[t] /\ current'[t] = current[t]
    BY <1>3 DEF SInv, TypeOK
  <2> QED
    BY <1>1, <1>3, <2>1, OthersKeep DEF SInv
<1>6. ScriptOK(s)'
  <2>1. pc'[s] = KindOf[c] /\ pc'[s] # "remove"
    BY <1>3 DEF SInv, TypeOK
  <2>2. Working(s) /\ ~Working(s)' /\ (InPipPass(s)' => InPipPass(s))
    BY <1>2, <1>3, <2>1 DEF Working, InPipPass
  <2>3. ASSUME NEW b \in Archives, Accounted(s, b) PROVE Accounted(s, b)'
    <3>1. b \in todo'[s] \/ Safe(b)
      BY <1>2, <1>3, <2>3 DEF Accounted
    <3> QED
      BY <1>1, <3>1 DEF Accounted, SafeStays
  <2>4. listed[s] \subseteq Archives
    BY DEF SInv, TypeOK
  <2> QED
    BY <1>3, <2>1, <2>2, <2>3, <2>4 DEF SInv, ScriptOK
<1> QED
  BY <1>4, <1>5, <1>6 DEF SInv

(* The purge takes what is safe, and the rest counts as swept.              *)
LEMMA PurgeKeeps ==
  ASSUME SInv, TypeOK', NEW s \in Scripts, PurgePip(s)
  PROVE  SInv'
<1>1. SafeStays
  BY SameGateway DEF PurgePip
<1>2. /\ pc[s] = "pip" /\ pc' = [pc EXCEPT ![s] = "conda"] /\ Left(s, "pip") = {}
      /\ UNCHANGED <<pending, listed, todo, current, failed>>
      /\ swept \subseteq swept'
  BY DEF PurgePip, Purge, Goto
<1>3. ASSUME NEW a \in local, a \notin local', a \notin swept' PROVE Safe(a)
  <2>1. ~failed[s] /\ a \in Cached(s, "pip") /\ a \in listed[s]
    BY <1>3 DEF PurgePip, Purge
  <2>2. KindOf[a] = "pip" /\ a \notin todo[s]
    BY <1>2, <2>1 DEF Cached, Left
  <2>3. Accounted(s, a)
    BY <1>2, <2>1, <2>2 DEF SInv, ScriptOK, InPipPass
  <2> QED
    BY <1>2, <2>2, <2>3 DEF Accounted, Working
<1>4. PrunedIsSafe'
  <2> SUFFICES ASSUME NEW a \in Pruned' PROVE Safe(a)'
    BY DEF PrunedIsSafe
  <2>1. a \in Archives /\ (a \in Pruned \/ (a \in local /\ a \notin local' /\ a \notin swept'))
    BY <1>2 DEF Pruned, Gone
  <2>2. Safe(a)
    BY <1>3, <2>1 DEF SInv, PrunedIsSafe
  <2> QED
    BY <1>1, <2>1, <2>2 DEF SafeStays
<1>5. ASSUME NEW t \in Scripts \ {s} PROVE ScriptOK(t)'
  <2>1. pc'[t] = pc[t]
    BY <1>2 DEF SInv, TypeOK
  <2> QED
    BY <1>1, <1>2, <2>1, OthersKeep DEF SInv
<1>6. ScriptOK(s)'
  BY <1>2 DEF SInv, TypeOK, ScriptOK, InPipPass, Working
<1> QED
  BY <1>4, <1>5, <1>6 DEF SInv

(* The steps that neither send nor take anything.                           *)
LEMMA QuietKeeps ==
  ASSUME SInv, TypeOK', NEW s \in Scripts,
         Scan(s) \/ PurgeConda(s) \/ Again(s) \/ Stop(s)
  PROVE  SInv'
<1>1. SafeStays
  BY SameGateway DEF Scan, PurgeConda, Again, Stop
<1>2. UNCHANGED <<local, pending, swept>>
  BY DEF Scan, PurgeConda, Again, Stop, caches
<1>3. PrunedIsSafe'
  BY <1>1, <1>2, NothingPruned DEF SInv, Gone
<1>4. ASSUME NEW t \in Scripts \ {s} PROVE ScriptOK(t)'
  <2>1. /\ pc'[t] = pc[t] /\ current'[t] = current[t] /\ todo'[t] = todo[t]
        /\ listed'[t] = listed[t] /\ failed'[t] = failed[t]
    BY DEF Scan, PurgeConda, Again, Stop, Goto, SInv, TypeOK
  <2> QED
    BY <1>1, <2>1, OthersKeep DEF SInv
<1>5. ScriptOK(s)'
  <2>1. CASE Scan(s)
    <3>1. pc'[s] = "pip" /\ listed'[s] = todo'[s]
      BY <2>1 DEF Scan, Goto, SInv, TypeOK
    <3> QED
      BY <3>1 DEF ScriptOK, Accounted
  <2>2. CASE PurgeConda(s) \/ Again(s) \/ Stop(s)
    <3>1. pc'[s] \in {"done", "new", "stopped"}
      BY <2>2 DEF PurgeConda, Again, Stop, Goto, SInv, TypeOK
    <3> QED
      BY <3>1 DEF ScriptOK, InPipPass, Working
  <2> QED
    BY <2>1, <2>2
<1> QED
  BY <1>3, <1>4, <1>5 DEF SInv

LEMMA SNext == SInv /\ [Next]_vars => SInv'
<1> SUFFICES ASSUME SInv, [Next]_vars PROVE SInv'
  OBVIOUS
<1>0. TypeOK'
  BY TypeNext DEF SInv
<1>1. ASSUME NEW s \in Scripts, Step(s) \/ Again(s) \/ Stop(s) PROVE SInv'
  BY <1>0, <1>1, RequestKeeps, PickKeeps, RemoveKeeps, PurgeKeeps, QuietKeeps DEF Step, Requests
<1>2. CASE UNCHANGED vars \/ \E a \in Archives : Download(a)
  <2>1. SafeStays
    BY <1>2, SameGateway DEF Download, vars, gateway
  <2>2. Gone' \subseteq Gone /\ UNCHANGED <<swept, pc, listed, todo, current, failed>>
    BY <1>2 DEF Download, Gone, vars
  <2>3. PrunedIsSafe'
    BY <2>1, <2>2, NothingPruned DEF SInv
  <2>4. ASSUME NEW t \in Scripts PROVE ScriptOK(t)'
    BY <2>1, <2>2, OthersKeep DEF SInv
  <2> QED
    BY <1>0, <2>3, <2>4 DEF SInv
<1> QED
  BY <1>1, <1>2 DEF Next

(* --prune removes an archive it has listed only when the gateway has its   *)
(* bytes, for any number of scripts on any caches, with lost requests,      *)
(* scripts stopped anywhere, and pip and conda at work meanwhile.  (What no *)
(* script has listed, `pip cache purge` removes unseen: NothingSwept.)      *)
THEOREM PruneLosesNothing == Spec => []NothingLost
<1>1. SInv => NothingLost
  BY DEF SInv, PrunedIsSafe, Safe, NothingLost
<1> QED
  BY <1>1, SInit, SNext, PTL DEF Spec

(* And what it removed can still be had: its row has its SHA-256, and a pip *)
(* archive's origin leads to it or to another archive of that origin.       *)
(* Archives of one row must be one file: register keeps the last.           *)
THEOREM PrunedStaysServed ==
  ASSUME OneFilePerRow
  PROVE  Spec => []PrunedIsServed
<1>1. SInv => PrunedIsServed
  BY DEF SInv, PrunedIsSafe, Safe, PrunedIsServed
<1> QED
  BY <1>1, SInit, SNext, PTL DEF Spec
=============================================================================

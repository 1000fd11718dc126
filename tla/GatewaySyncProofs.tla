-------------------------- MODULE GatewaySyncProofs --------------------------
(* Client cache sync and the download statistics next to the gateway: what  *)
(* still holds when handlers that take no lock write the same tables.       *)
EXTENDS GatewayUsage, ArchiveProofs

USE GatewayConstants, GatewaySentinels, SyncConstants

-----------------------------------------------------------------------------
(* What a sync handler does to the store, and that it touches nothing else. *)

LEMMA SyncedType ==
  ASSUME NEW a \in Archives
  PROVE  /\ a.key \in Keys /\ a.sha \in Contents /\ a.final \in Urls
         /\ a.up \in Urls \cup {NoUrl} /\ PoolOf[a.key] \in Pools
         /\ SyncedRow(a) \in Record
         /\ SyncedRow(a).sha = a.sha
         /\ SyncedRow(a).up = a.up
         /\ SyncedRow(a).final = a.final
<1>1. a.key \in Keys /\ a.sha \in Contents /\ a.final \in Urls /\ a.up \in Urls \cup {NoUrl}
  OBVIOUS
<1> QED
  BY <1>1 DEF SyncedRow, Record

LEMMA SyncStep ==
  ASSUME Sync
  PROVE  /\ UNCHANGED <<published, lock, waiters, pc, key, method, target, url,
                        notFound, fetched, reply, seen>>
         /\ \E a \in Archives :
              /\ blobs' \in {blobs, blobs \cup {<<PoolOf[a.key], a.sha>>}}
              /\ \/ artifacts' = artifacts
                 \/ /\ artifacts' = [artifacts EXCEPT ![a.key] = SyncedRow(a)]
                    /\ <<PoolOf[a.key], a.sha>> \in blobs'
<1>1. PICK a \in Archives : SyncCheck(a) \/ SyncUpload(a) \/ SyncUploadHalf(a)
  BY DEF Sync
<1> QED
  BY <1>1 DEF SyncCheck, SyncUpload, SyncUploadHalf, Register, Requests, cursor

LEMMA SyncType == TypeOK /\ [SyncNext]_vars => TypeOK'
<1> SUFFICES ASSUME TypeOK, Sync PROVE TypeOK'
  BY NextType DEF SyncNext
<1>1. PICK a \in Archives :
        /\ blobs' \in {blobs, blobs \cup {<<PoolOf[a.key], a.sha>>}}
        /\ artifacts' = artifacts \/ artifacts' = [artifacts EXCEPT ![a.key] = SyncedRow(a)]
  BY SyncStep
<1>2. TablesOK'
  <2>1. /\ artifacts \in [Keys -> Record \cup {NoRecord}] /\ seen \subseteq Urls \X Contents
        /\ published \in [Keys -> Contents \cup {Missing}] /\ blobs \subseteq Pools \X Contents
    BY DEF TypeOK, TablesOK
  <2>2. artifacts' \in [Keys -> Record \cup {NoRecord}]
    BY <1>1, <2>1, SyncedType
  <2>3. blobs' \subseteq Pools \X Contents /\ seen' \subseteq Urls \X Contents
    BY <1>1, <2>1, SyncedType, SyncStep
  <2> QED
    BY <2>1, <2>2, <2>3, SyncStep DEF TablesOK
<1>3. LocksOK' /\ PhasesOK' /\ LocalsOK' /\ ReplyOK'
  BY SyncStep DEF TypeOK, LocksOK, PhasesOK, LocalsOK, ReplyOK
<1> QED
  BY <1>2, <1>3 DEF TypeOK

(* The statistics only watch.                                               *)
LEMMA UsageStep == [UsageNext]_usageVars => [SyncNext]_vars
BY DEF UsageNext, SyncNext, usageVars, vars

(* The handlers of sync.py keep the gateway's variables in their sets.      *)
THEOREM SyncTypeCorrect == SyncSpec => []TypeOK
BY InitType, SyncType, PTL DEF SyncSpec

(* Counting transfers changes nothing the gateway or the sync does, so what *)
(* is proved of SyncSpec is true of the system with its statistics.         *)
THEOREM StatisticsOnlyWatch == UsageSpec => SyncSpec
BY UsageStep, PTL DEF UsageSpec, UsageInit, SyncSpec

-----------------------------------------------------------------------------
(* Migration keeps what is cached.                                          *)

LEMMA SyncBytes ==
  ASSUME "loss" \notin Faults
  PROVE  TypeOK /\ BytesFirst /\ [SyncNext]_vars => BytesFirst'
<1> SUFFICES ASSUME TypeOK, BytesFirst, Sync PROVE BytesFirst'
  BY BytesNext DEF SyncNext
<1>0. artifacts \in [Keys -> Record \cup {NoRecord}]
  BY DEF TypeOK, TablesOK
<1>1. PICK a \in Archives :
        /\ blobs \subseteq blobs'
        /\ \/ artifacts' = artifacts
           \/ /\ artifacts' = [artifacts EXCEPT ![a.key] = SyncedRow(a)]
              /\ <<PoolOf[a.key], a.sha>> \in blobs'
  BY SyncStep
<1>2. RecordHasBlob'
  BY <1>0, <1>1, SyncedType DEF BytesFirst, RecordHasBlob
<1> QED
  BY <1>1, <1>2, SyncStep DEF BytesFirst

(* A row is replaced at most.                                               *)
LEMMA SyncedRowStays ==
  ASSUME TypeOK, [Next]_vars \/ Sync, NEW k \in Keys, artifacts[k] # NoRecord
  PROVE  artifacts'[k] # NoRecord
<1>0. artifacts \in [Keys -> Record \cup {NoRecord}]
  BY DEF TypeOK, TablesOK
<1>1. CASE Sync
  <2>1. PICK a \in Archives :
          artifacts' = artifacts \/ artifacts' = [artifacts EXCEPT ![a.key] = SyncedRow(a)]
    BY <1>1, SyncStep
  <2> QED
    BY <1>0, <2>1, SyncedType
<1>2. CASE [Next]_vars
  BY <1>2, RowStays
<1> QED
  BY <1>1, <1>2

(* Clients that offer the archives of their own caches, in any order and    *)
(* cut off anywhere, never make a row name bytes that are not on disk.      *)
THEOREM SyncedRowsHaveBlobs ==
  ASSUME "loss" \notin Faults
  PROVE  SyncSpec => []RecordHasBlob
<1>1. Init => BytesFirst
  BY DEF Init, BytesFirst, RecordHasBlob
<1>2. BytesFirst => RecordHasBlob
  BY DEF BytesFirst
<1> QED
  BY <1>1, <1>2, InitType, SyncType, SyncBytes, PTL DEF SyncSpec

(* Nor do they take an archive out of the cache: whatever a request could   *)
(* be served from before a step of anybody, it can be served from after.    *)
THEOREM MigrationKeepsArchives ==
  ASSUME "loss" \notin Faults
  PROVE  SyncSpec => StaysCached
<1>1. Init => BytesFirst
  BY DEF Init, BytesFirst, RecordHasBlob
<1>2. ASSUME TypeOK, BytesFirst', [SyncNext]_vars, NEW k \in Keys, ~IsMetadata(k),
             Servable(k, FilePath(k, artifacts[k]))
      PROVE  Servable(k, FilePath(k, artifacts[k]))'
  <2>1. artifacts'[k] # NoRecord
    BY <1>2, SyncedRowStays DEF Servable, SyncNext
  <2>2. <<PoolOf[k], artifacts'[k].sha>> \in blobs'
    BY <1>2, <2>1 DEF BytesFirst, RecordHasBlob
  <2> QED
    BY <1>2, <2>1, <2>2 DEF Servable, FilePath, IsFile, Fresh, IsMetadata
<1>3. TypeOK /\ BytesFirst' /\ [SyncNext]_vars =>
        [\A k \in Keys : ~IsMetadata(k) /\ Servable(k, FilePath(k, artifacts[k]))
           => Servable(k, FilePath(k, artifacts[k]))']_vars
  BY <1>2
<1> QED
  BY <1>1, <1>3, InitType, SyncType, SyncBytes, PTL DEF SyncSpec, StaysCached

-----------------------------------------------------------------------------
(* The statistics: a miss of an archive is counted once.                    *)

CountsOK == misses \in [Keys -> Nat]

(* A streaming request that asks upstream knows of no miss so far.          *)
DownloadsAreFirst ==
  \A t \in Tasks :
    pc[t] \in Fetching /\ Streams(key[t], method[t]) => misses[key[t]] = 0

(* One that has filled the cache and has not been counted is the only one.  *)
FillsAreCountedOnce ==
  \A t \in Tasks :
    pc[t] = "closing" /\ reply[t].status = "MISS" =>
      /\ Streams(key[t], method[t])
      /\ artifacts[key[t]] # NoRecord
      /\ misses[key[t]] = 0

UsageInv ==
  /\ TypeOK /\ LockOwned /\ BytesFirst /\ Silent
  /\ CountsOK /\ MissesAreFills /\ DownloadsAreFirst /\ FillsAreCountedOnce

LEMMA SyncKeepsTasks ==
  ASSUME Sync
  PROVE  /\ LockOwned => LockOwned'
         /\ Silent => Silent'
BY SyncStep DEF LockOwned, Silent

(* What a request asks for does not change under it.                        *)
LEMMA SameRequest ==
  ASSUME TypeOK, [Next]_vars, NEW t \in Tasks,
         pc[t] \notin {"idle", "replied"}, pc'[t] # "idle"
  PROVE  key'[t] = key[t] /\ method'[t] = method[t]
<1>0. /\ pc \in [Tasks -> Phases] /\ key \in [Tasks -> Keys \cup {NoKey}]
      /\ method \in [Tasks -> {"HEAD", "GET"}]
  BY DEF TypeOK, PhasesOK
<1>1. CASE \E s \in Tasks, k \in Keys, m \in Methods : Request(s, k, m)
  <2>1. PICK s \in Tasks, k \in Keys, m \in Methods :
          /\ pc[s] = "idle"
          /\ key' = [key EXCEPT ![s] = k]
          /\ method' = [method EXCEPT ![s] = m]
    BY <1>1 DEF Request, FastHit, ArriveReuse, ArriveOpen, ArriveWait, ArriveFails, Arrive, Accept
  <2> QED
    BY <1>0, <2>1
<1>2. CASE \E s \in Tasks : Handle(s)
  BY <1>2 DEF Handle, WakeHit, WakeReuse, WakeOpen, WakeFails, Wake, Respond200, Respond304,
              Respond404, RespondError, RespondOther, AttemptFails, Upstream, StartBody, Abandon,
              Disconnect, Publish, BodyFails, Commit, CommitFails, Close
<1>3. CASE \E s \in Tasks : Leave(s)
  <2>1. PICK s \in Tasks : /\ pc[s] = "replied"
                           /\ key' = [key EXCEPT ![s] = NoKey]
                           /\ method' = [method EXCEPT ![s] = "GET"]
    BY <1>3 DEF Leave
  <2> QED
    BY <1>0, <2>1
<1>4. CASE Crash
  BY <1>4 DEF Crash
<1>5. CASE \/ \E k \in Keys : Expire(k)
           \/ \E b \in Pools \X Contents : LoseBlob(b)
           \/ UNCHANGED vars
  BY <1>5 DEF Expire, LoseBlob, vars
<1> QED
  BY <1>1, <1>2, <1>3, <1>4, <1>5 DEF Next

(* The body of a MISS ends in one place.                                    *)
LEMMA FillEnds ==
  ASSUME TypeOK, Silent, [Next]_vars, NEW t \in Tasks,
         pc'[t] = "closing", reply'[t].status = "MISS"
  PROVE  \/ pc[t] = "closing" /\ reply'[t] = reply[t]
         \/ Commit(t) /\ ~Buffered(t)
<1>0. /\ pc \in [Tasks -> Phases]
      /\ reply \in [Tasks -> [status : Statuses, file : Contents \cup {Missing},
                              sha : Contents \cup {Missing}]]
  BY DEF TypeOK, PhasesOK, ReplyOK
<1>1. CASE \E s \in Tasks, k \in Keys, m \in Methods : Request(s, k, m)
  <2>1. PICK s \in Tasks, k \in Keys, m \in Methods : Request(s, k, m)
    BY <1>1
  <2>2. /\ \E phase \in {"replied", "opening", "waiting"} : pc' = [pc EXCEPT ![s] = phase]
        /\ reply' = reply \/ \E r : reply' = [reply EXCEPT ![s] = r]
    BY <2>1 DEF Request, FastHit, ArriveReuse, ArriveOpen, ArriveWait, ArriveFails, Reuse, Bind, Open,
                Goto, Answer
  <2> QED
    BY <1>0, <2>2
<1>2. CASE \E s \in Tasks : Handle(s)
  <2>1. PICK s \in Tasks : Handle(s)
    BY <1>2
  <2>2. CASE Commit(s)
    <3>1. /\ \E r : reply' = [reply EXCEPT ![s] = r]
          /\ \E phase : pc' = [pc EXCEPT ![s] = phase] /\ (Buffered(s) => phase = "replied")
      BY <2>2 DEF Commit, Answer, Goto
    <3> QED
      BY <1>0, <2>2, <3>1
  <2>3. CASE Disconnect(s) \/ BodyFails(s) \/ CommitFails(s)
    <3>1. /\ pc[s] \in {"reading", "streaming", "committing"}
          /\ \/ reply' = reply
             \/ \E status \in {"NotFound", "Unavailable", "Broken", "Unkept"} : \E file :
                  Answer(s, status, file, file)
          /\ \E phase : pc' = [pc EXCEPT ![s] = phase]
      BY <2>3 DEF Disconnect, BodyFails, CommitFails, NextUrl, Fail, Goto
    <3>2. reply[s] = NoReply
      BY <3>1 DEF Silent
    <3>3. reply'[s].status # "MISS"
      BY <1>0, <3>1, <3>2 DEF Answer, NoReply
    <3>4. t # s
      BY <3>3
    <3> QED
      BY <1>0, <3>1, <3>4 DEF Answer
  <2>4. CASE ~(Commit(s) \/ Disconnect(s) \/ BodyFails(s) \/ CommitFails(s))
    <3>1. /\ \E phase : phase # "closing" /\ pc' = [pc EXCEPT ![s] = phase]
          /\ reply' = reply \/ \E r : reply' = [reply EXCEPT ![s] = r]
      BY <2>1, <2>4 DEF Handle, WakeHit, WakeReuse, WakeOpen, WakeFails, Reuse, Bind, Open,
           Respond200, Respond304, Respond404, RespondError, RespondOther, AttemptFails, StartBody,
           Abandon, Publish, Close, NextUrl, Fail, Goto, Answer
    <3> QED
      BY <1>0, <3>1
  <2> QED
    BY <2>1, <2>2, <2>3, <2>4
<1>3. CASE \E s \in Tasks : Leave(s)
  <2>1. PICK s \in Tasks : /\ pc' = [pc EXCEPT ![s] = "idle"]
                           /\ reply' = [reply EXCEPT ![s] = NoReply]
    BY <1>3 DEF Leave, Goto
  <2> QED
    BY <1>0, <2>1
<1>4. CASE Crash
  BY <1>4 DEF Crash
<1>5. CASE \/ \E k \in Keys : Expire(k)
           \/ \E b \in Pools \X Contents : LoseBlob(b)
           \/ UNCHANGED vars
  BY <1>5 DEF Expire, LoseBlob, vars
<1> QED
  BY <1>1, <1>2, <1>3, <1>4, <1>5 DEF Next

LEMMA Counted ==
  ASSUME CountsOK, CountMisses, NEW k \in Keys
  PROVE  /\ misses'[k] \in {misses[k], misses[k] + 1}
         /\ misses'[k] # misses[k] => \E t \in Tasks : key[t] = k /\ CountsMiss(t)
BY DEF CountsOK, CountMisses

(* The tasks of one key that hold its lock are one task.                    *)
LEMMA HolderCounts ==
  ASSUME UsageInv, CountMisses, NEW t \in Tasks, pc[t] \in Holding, ~CountsMiss(t)
  PROVE  misses'[key[t]] = misses[key[t]]
<1>1. key[t] \in Keys
  BY DEF UsageInv, TypeOK, PhasesOK, Holding
<1>2. ASSUME NEW s \in Tasks, key[s] = key[t], CountsMiss(s) PROVE FALSE
  BY <1>2 DEF UsageInv, LockOwned, CountsMiss, Holding
<1> QED
  BY <1>1, <1>2, Counted DEF UsageInv

LEMMA NextUsage ==
  ASSUME UsageInv, [Next]_vars, CountMisses
  PROVE  /\ CountsOK' /\ MissesAreFills'
         /\ DownloadsAreFirst' /\ FillsAreCountedOnce'
<1>0. /\ TypeOK /\ TypeOK' /\ LockOwned /\ RecordHasBlob /\ Silent /\ CountsOK
  BY NextType DEF UsageInv, BytesFirst
<1>1. CountsOK'
  BY <1>0 DEF CountsOK, CountMisses
<1>2. MissesAreFills'
  <2> SUFFICES ASSUME NEW k \in Keys, misses'[k] > 0
               PROVE  misses'[k] = 1 /\ ~IsMetadata(k) /\ artifacts'[k] # NoRecord
    BY DEF MissesAreFills, IsMetadata
  <2>1. CASE misses'[k] = misses[k]
    BY <1>0, <2>1, SyncedRowStays DEF UsageInv, MissesAreFills
  <2>2. CASE misses'[k] # misses[k]
    <3>1. PICK t \in Tasks : key[t] = k /\ CountsMiss(t)
      BY <1>0, <2>2, Counted
    <3>2. Streams(k, method[t]) /\ artifacts[k] # NoRecord /\ misses[k] = 0
      BY <3>1 DEF UsageInv, FillsAreCountedOnce, CountsMiss
    <3>3. misses'[k] = 1
      BY <1>0, <2>2, <3>2, Counted
    <3> QED
      BY <1>0, <3>2, <3>3, SyncedRowStays DEF Streams
  <2> QED
    BY <2>1, <2>2
<1>3. DownloadsAreFirst'
  <2> SUFFICES ASSUME NEW t \in Tasks, pc'[t] \in Fetching, Streams(key'[t], method'[t])
               PROVE  misses'[key'[t]] = 0
    BY DEF DownloadsAreFirst, Streams, IsMetadata
  <2>0. key'[t] \in Keys /\ ~IsMetadata(key'[t]) /\ method'[t] = "GET"
    BY <1>0 DEF TypeOK, PhasesOK, Fetching, Streams
  <2>1. CASE pc[t] \in Fetching /\ key'[t] = key[t]
    <3>1. method'[t] = method[t]
      BY <1>0, <2>1, SameRequest DEF Fetching
    <3>2. misses[key[t]] = 0
      BY <2>1, <3>1 DEF UsageInv, DownloadsAreFirst
    <3>3. misses'[key[t]] = misses[key[t]]
      BY <2>1, HolderCounts DEF CountsMiss, Fetching, Holding
    <3> QED
      BY <2>1, <3>2, <3>3
  <2>2. CASE (\E m \in Methods : ArriveOpen(t, key'[t], m)) \/ WakeOpen(t)
    <3>1. /\ ~Servable(key'[t], FilePath(key'[t], artifacts[key'[t]]))
          /\ pc[t] \in {"idle", "waiting"}
          /\ pc' = [pc EXCEPT ![t] = "opening"]
      BY <2>0, <2>2 DEF ArriveOpen, Arrive, WakeOpen, Wake, Open, Goto, SecondLook, Streams
    <3>2. artifacts[key'[t]] = NoRecord
      BY <1>0, <2>0, <3>1, FirstLook
    <3>3. misses[key'[t]] = 0
      BY <1>0, <2>0, <3>2 DEF UsageInv, MissesAreFills, CountsOK
    <3>4. ~\E s \in Tasks : CountsMiss(s)
      BY <1>0, <3>1 DEF CountsMiss, TypeOK, PhasesOK
    <3> QED
      BY <1>0, <2>0, <3>3, <3>4, Counted
  <2> QED
    BY <1>0, <2>0, <2>1, <2>2, DownloadBegins
<1>4. FillsAreCountedOnce'
  <2> SUFFICES ASSUME NEW t \in Tasks, pc'[t] = "closing", reply'[t].status = "MISS"
               PROVE  /\ Streams(key'[t], method'[t])
                      /\ artifacts'[key'[t]] # NoRecord
                      /\ misses'[key'[t]] = 0
    BY DEF FillsAreCountedOnce, Streams, IsMetadata
  <2>1. pc[t] \in Holding \ {"opening"} /\ ~CountsMiss(t)
    BY <1>0, FillEnds DEF Holding, Commit, CountsMiss
  <2>2. key'[t] = key[t] /\ method'[t] = method[t] /\ key[t] \in Keys
    BY <1>0, <2>1, SameRequest DEF Holding, TypeOK, PhasesOK
  <2>3. misses'[key[t]] = misses[key[t]]
    BY <2>1, HolderCounts
  <2>4. CASE pc[t] = "closing" /\ reply'[t] = reply[t]
    BY <1>0, <2>2, <2>3, <2>4, SyncedRowStays DEF UsageInv, FillsAreCountedOnce
  <2>5. CASE Commit(t) /\ ~Buffered(t)
    <3>1. pc[t] = "committing" /\ Streams(key[t], method[t])
      BY <2>5 DEF Commit, Buffered
    <3>2. misses[key[t]] = 0
      BY <3>1 DEF UsageInv, DownloadsAreFirst, Fetching
    <3>3. artifacts'[key[t]] = fetched[t] /\ fetched[t] # NoRecord
      BY <1>0, <2>2, <2>5, <3>1 DEF Commit, TypeOK, TablesOK, LocalsOK
    <3> QED
      BY <2>2, <2>3, <3>1, <3>2, <3>3
  <2> QED
    BY <1>0, <2>4, <2>5, FillEnds
<1> QED
  BY <1>1, <1>2, <1>3, <1>4

LEMMA UsageNextInv ==
  ASSUME "loss" \notin Faults
  PROVE  UsageInv /\ [UsageNext]_usageVars => UsageInv'
<1> SUFFICES ASSUME UsageInv, [UsageNext]_usageVars PROVE UsageInv'
  OBVIOUS
<1>0. [SyncNext]_vars
  BY UsageStep
<1>1. TypeOK' /\ BytesFirst' /\ LockOwned' /\ Silent'
  BY <1>0, SyncType, SyncBytes, LockNext, SilentNext, SyncKeepsTasks DEF UsageInv, SyncNext
<1>2. CASE [Next]_vars /\ CountMisses
  BY <1>1, <1>2, NextUsage DEF UsageInv
<1>3. CASE UNCHANGED misses /\ (Sync \/ UNCHANGED vars)
  <2>1. UNCHANGED <<pc, key, method, reply>>
    BY <1>3, SyncStep DEF vars
  <2>2. MissesAreFills'
    BY <1>3, SyncedRowStays DEF UsageInv, MissesAreFills, IsMetadata
  <2>3. FillsAreCountedOnce'
    <3> SUFFICES ASSUME NEW t \in Tasks, pc[t] = "closing", reply[t].status = "MISS"
                 PROVE  artifacts'[key[t]] # NoRecord
      BY <1>3, <2>1 DEF UsageInv, FillsAreCountedOnce, Streams, IsMetadata
    <3>1. artifacts[key[t]] # NoRecord /\ key[t] \in Keys /\ TypeOK
      BY DEF UsageInv, FillsAreCountedOnce, TypeOK, PhasesOK
    <3> QED
      BY <1>3, <3>1, SyncedRowStays
  <2>4. CountsOK' /\ DownloadsAreFirst'
    BY <1>3, <2>1 DEF UsageInv, CountsOK, DownloadsAreFirst, Streams, IsMetadata
  <2> QED
    BY <1>1, <2>2, <2>3, <2>4 DEF UsageInv
<1> QED
  BY <1>2, <1>3 DEF UsageNext, usageVars, vars

(* The statistics know at most one miss of an archive, and only of an       *)
(* archive that is in the cache: while one request downloads it nobody else *)
(* holds its lock, whoever offers it meanwhile is not counted, and a        *)
(* request that looked before finds it when it gets the lock.               *)
THEOREM MissesCountedOnce ==
  ASSUME "loss" \notin Faults
  PROVE  UsageSpec => []MissesAreFills
<1>1. UsageInit => UsageInv
  <2> SUFFICES ASSUME UsageInit PROVE UsageInv
    OBVIOUS
  <2>1. Init /\ misses = [k \in Keys |-> 0]
    BY DEF UsageInit
  <2>2. TypeOK
    BY <2>1, InitType
  <2>3. LockOwned /\ BytesFirst /\ Silent
    BY <2>1 DEF Init, LockOwned, Holding, BytesFirst, RecordHasBlob, Silent
  <2>4. CountsOK /\ MissesAreFills /\ DownloadsAreFirst /\ FillsAreCountedOnce
    BY <2>1 DEF Init, CountsOK, MissesAreFills, DownloadsAreFirst, FillsAreCountedOnce, Fetching
  <2> QED
    BY <2>2, <2>3, <2>4 DEF UsageInv
<1>2. UsageInv => MissesAreFills
  BY DEF UsageInv
<1> QED
  BY <1>1, <1>2, UsageNextInv, PTL DEF UsageSpec

-----------------------------------------------------------------------------
(* Where the bytes of a reply come from.                                    *)

(* A row names the URL its client gives, and what a client built itself     *)
(* names a URL no other key is asked for.                                   *)
BuiltStandApart ==
  \A a \in Archives :
    /\ a.up \in {NoUrl, a.final}
    /\ a.built =>
         \A k \in Keys \ {a.key} : \A i \in DOMAIN UrlsOf[k] : UrlsOf[k][i] # a.final

FromUrl(k, c) == \E i \in DOMAIN UrlsOf[k] : <<UrlsOf[k][i], c>> \in seen

Sound(k, c) == FromUrl(k, c) \/ Offered(k, c)

(* A row may be found at the URLs it names, by whatever key is asked there. *)
Travels(row) ==
  \A k \in Keys : \A i \in DOMAIN UrlsOf[k] :
    UrlsOf[k][i] \in {row.up, row.final} => Sound(k, row.sha)

SoundRow(k, row) == Sound(k, row.sha) /\ Travels(row)

(* Every place a request takes a file from: rows, downloads on their way    *)
(* into rows, the paths in memory, and the path captured on arrival, which  *)
(* a task gives up when it is done.                                         *)
SoundFiles ==
  /\ \A k \in Keys : artifacts[k] # NoRecord => SoundRow(k, artifacts[k])
  /\ \A t \in Tasks : pc[t] = "committing" => Witnessed(key[t], fetched[t])
  /\ \A k \in Keys : published[k] # Missing => Sound(k, published[k])
  /\ \A t \in Tasks : target[t] # Missing =>
       pc[t] \notin {"idle", "closing", "replied"} /\ Sound(key[t], target[t])

LEMMA SoundStays ==
  ASSUME seen \subseteq seen', NEW k, NEW row
  PROVE  /\ \A c : Sound(k, c) => Sound(k, c)'
         /\ Witnessed(k, row) => Witnessed(k, row)'
         /\ SoundRow(k, row) => SoundRow(k, row)'
BY DEF Sound, FromUrl, Offered, Witnessed, SoundRow, Travels

(* What was downloaded for one key is good for every key of the same URL.   *)
LEMMA WitnessedIsSound ==
  ASSUME NEW k \in Keys, NEW row, Witnessed(k, row)
  PROVE  SoundRow(k, row)
<1>1. Sound(k, row.sha)
  BY DEF Witnessed, Sound, FromUrl
<1>2. ASSUME NEW j \in Keys, NEW i \in DOMAIN UrlsOf[j], UrlsOf[j][i] \in {row.up, row.final}
      PROVE  Sound(j, row.sha)
  <2>1. UrlsOf[j][i] \in Urls
    OBVIOUS
  <2>2. <<UrlsOf[j][i], row.sha>> \in seen
    BY <1>2, <2>1 DEF Witnessed
  <2> QED
    BY <2>2 DEF Sound, FromUrl, Offered
<1> QED
  BY <1>1, <1>2 DEF SoundRow, Travels

(* What is registered is good for whoever is asked for the URL it names.    *)
LEMMA OfferedIsSound ==
  ASSUME BuiltStandApart, NEW a \in Archives
  PROVE  SoundRow(a.key, SyncedRow(a))
<1>0. /\ SyncedRow(a).sha = a.sha /\ SyncedRow(a).up = a.up /\ SyncedRow(a).final = a.final
      /\ a.up \in {NoUrl, a.final} /\ a.key \in Keys
  BY SyncedType DEF BuiltStandApart
<1>1. Sound(a.key, a.sha)
  BY DEF Sound, Offered
<1>2. ASSUME NEW j \in Keys, NEW i \in DOMAIN UrlsOf[j], UrlsOf[j][i] \in {a.up, a.final}
      PROVE  Sound(j, a.sha)
  <2>1. UrlsOf[j][i] \in Urls
    OBVIOUS
  <2>2. UrlsOf[j][i] = a.final
    BY <1>0, <1>2, <2>1
  <2>3. j = a.key \/ ~a.built
    BY <2>2 DEF BuiltStandApart
  <2>4. Offered(j, a.sha)
    BY <2>2, <2>3, Zenon DEF Offered
  <2> QED
    BY <2>4 DEF Sound
<1> QED
  BY <1>0, <1>1, <1>2 DEF SoundRow, Travels

LEMMA SoundRows ==
  ASSUME BuiltStandApart, TypeOK, SoundFiles, [Next]_vars \/ Sync,
         seen \subseteq seen', NEW k \in Keys, artifacts'[k] # NoRecord
  PROVE  SoundRow(k, artifacts[k])'
<1>0. artifacts \in [Keys -> Record \cup {NoRecord}]
  BY DEF TypeOK, TablesOK
<1> SUFFICES ASSUME NEW row \in {artifacts'[k]} PROVE SoundRow(k, row)'
  BY DEF SoundRow, Sound, FromUrl, Travels, Offered
<1>s. ASSUME SoundRow(k, row) PROVE SoundRow(k, row)'
  BY <1>s, SoundStays
<1>1. CASE artifacts'[k] = artifacts[k]
  BY <1>1, <1>s DEF SoundFiles
<1>2. CASE Sync /\ artifacts'[k] # artifacts[k]
  <2>1. PICK a \in Archives : artifacts' = [artifacts EXCEPT ![a.key] = SyncedRow(a)]
    BY <1>2, SyncStep
  <2>2. a.key = k /\ row = SyncedRow(a)
    BY <1>0, <1>2, <2>1
  <2> QED
    BY <1>s, <2>2, OfferedIsSound
<1>3. CASE Shared(k)
  <2>1. PICK found \in Reusable(k) : artifacts'[k] = Renewed(found)
    BY <1>3 DEF Shared
  <2>2. PICK j \in Keys : found \in Record /\ artifacts[j] = found
    BY ReusableType DEF TypeOK
  <2>3. PICK i \in DOMAIN UrlsOf[k] : UrlsOf[k][i] \in {found.up, found.final}
    BY ReusableType DEF TypeOK
  <2>4. Travels(found)
    BY <2>2 DEF SoundFiles, SoundRow
  <2>5. Sound(k, found.sha)
    BY <2>3, <2>4 DEF Travels
  <2>6. row.sha = found.sha /\ row.up = found.up /\ row.final = found.final
    BY <2>1, <2>2, RenewedType
  <2>7. SoundRow(k, row)
    BY <2>4, <2>5, <2>6 DEF SoundRow, Travels
  <2> QED
    BY <1>s, <2>7
<1>4. CASE Downloaded(k)
  <2>1. Witnessed(k, row)
    BY <1>4 DEF Downloaded, SoundFiles
  <2> QED
    BY <1>s, <2>1, WitnessedIsSound
<1>5. CASE Stamped(k)
  <2>1. /\ artifacts[k] \in Record /\ row.sha = artifacts[k].sha
        /\ row.up = artifacts[k].up /\ row.final = artifacts[k].final
    BY <1>5 DEF Stamped, Record
  <2>2. SoundRow(k, artifacts[k])
    BY <2>1 DEF SoundFiles
  <2>3. SoundRow(k, row)
    BY <2>1, <2>2 DEF SoundRow, Travels
  <2> QED
    BY <1>s, <2>3
<1> QED
  BY <1>1, <1>2, <1>3, <1>4, <1>5, RowSource

(* The bytes of a download came from the URL it asked.                      *)
LEMMA PublishedBytes ==
  ASSUME TypeOK, NEW t \in Tasks, Publish(t)
  PROVE  \E c \in Contents :
           /\ published' = [published EXCEPT ![key[t]] = c]
           /\ key[t] \in Keys /\ key' = key
           /\ Sound(key[t], c)'
           /\ Witnessed(key[t], fetched[t])'
<1>1. PICK c \in Contents, final \in FinalsOf[Url(t)] :
        /\ published' = [published EXCEPT ![key[t]] = c]
        /\ seen' = seen \cup {<<Url(t), c>>, <<final, c>>}
        /\ fetched' = [fetched EXCEPT ![t] = NewRow(t, c, final)]
  BY DEF Publish
<1>2. /\ key' = key /\ fetched \in [Tasks -> Record \cup {NoRecord}]
      /\ pc[t] # "idle" /\ key[t] \in Keys
      /\ url[t] \in 1..Len(UrlsOf[key[t]])
  BY UrlsLen DEF Publish, TypeOK, PhasesOK, LocalsOK
<1>3. /\ fetched'[t].sha = c /\ fetched'[t].final = final
      /\ fetched'[t].up \in {NoUrl, Url(t)}
  BY <1>1, <1>2, NewRowType DEF TypeOK
<1>4. url[t] \in DOMAIN UrlsOf[key[t]] /\ UrlsOf[key[t]][url[t]] = Url(t)
  BY <1>2 DEF Url
<1> QED
  BY <1>1, <1>2, <1>3, <1>4 DEF Witnessed, Sound, FromUrl

LEMMA PathsInMemory ==
  ASSUME TypeOK, [Next]_vars, NEW k \in Keys
  PROVE  \/ published'[k] \in {published[k], Missing}
         \/ \E t \in Tasks : Publish(t) /\ key[t] = k
<1>0. published \in [Keys -> Contents \cup {Missing}]
  BY DEF TypeOK, TablesOK
<1>1. CASE \E t \in Tasks : Handle(t)
  <2>1. PICK t \in Tasks : Handle(t)
    BY <1>1
  <2>2. CASE Publish(t)
    <3>1. \E c : published' = [published EXCEPT ![key[t]] = c]
      BY <2>2 DEF Publish
    <3> QED
      BY <1>0, <2>2, <3>1
  <2>3. CASE ~Publish(t)
    BY <2>1, <2>3 DEF Handle, WakeHit, WakeReuse, WakeOpen, WakeFails, Reuse, Bind, Open,
         Respond200, Respond304, Respond404, RespondError, RespondOther, AttemptFails, StartBody,
         Abandon, Disconnect, BodyFails, Commit, CommitFails, Close, UseFails, store
  <2> QED
    BY <2>2, <2>3
<1>2. CASE \E t \in Tasks, j \in Keys, m \in Methods : Request(t, j, m)
  BY <1>2 DEF Request, FastHit, ArriveReuse, ArriveOpen, ArriveWait, ArriveFails, Reuse, Bind, Open,
              UseFails, store
<1>3. CASE Crash
  BY <1>3 DEF Crash
<1>4. CASE \/ \E t \in Tasks : Leave(t)
           \/ \E j \in Keys : Expire(j)
           \/ \E b \in Pools \X Contents : LoseBlob(b)
           \/ UNCHANGED vars
  BY <1>4 DEF Leave, Expire, LoseBlob, store, vars
<1> QED
  BY <1>1, <1>2, <1>3, <1>4 DEF Next

(* What a task holds in `target` and what it answers with.                  *)
LEMMA BoundPath ==
  ASSUME TypeOK, NEW t \in Tasks, NEW k \in Keys, NEW m,
         Reuse(t, k, m) \/ \E file : Open(t, k, file)
  PROVE  /\ UNCHANGED <<blobs, published>>
         /\ \A s \in Tasks \ {t} : target'[s] = target[s] /\ reply'[s] = reply[s]
         /\ \/ /\ pc'[t] = "replied" /\ target'[t] = Missing
               /\ reply'[t].file = FilePath(k, artifacts'[k])
            \/ /\ pc'[t] = "opening" /\ reply'[t] = reply[t]
               /\ \/ target'[t] = FilePath(k, artifacts'[k])
                  \/ \E file : Open(t, k, file) /\ target'[t] = file
<1>0. /\ pc \in [Tasks -> Phases] /\ target \in [Tasks -> Contents \cup {Missing}]
      /\ artifacts \in [Keys -> Record \cup {NoRecord}]
      /\ reply \in [Tasks -> [status : Statuses, file : Contents \cup {Missing},
                              sha : Contents \cup {Missing}]]
  BY DEF TypeOK, TablesOK, PhasesOK, LocalsOK, ReplyOK
<1>1. CASE Reuse(t, k, m)
  <2>1. PICK row \in Reusable(k) : Bind(t, k, m, Renewed(row))
    BY <1>1 DEF Reuse
  <2>2. artifacts'[k] = Renewed(row) /\ UNCHANGED <<blobs, published>>
    BY <1>0, <2>1 DEF Bind
  <2>3. CASE /\ Answer(t, "REUSED", FilePath(k, Renewed(row)), Renewed(row).sha)
             /\ Goto(t, "replied") /\ Forget(t)
    BY <1>0, <2>2, <2>3 DEF Answer, Goto, Forget
  <2>4. CASE /\ Goto(t, "opening") /\ reply' = reply
             /\ target' = [target EXCEPT ![t] = FilePath(k, Renewed(row))]
    BY <1>0, <2>2, <2>4 DEF Goto
  <2> QED
    BY <2>1, <2>3, <2>4 DEF Bind
<1>2. ASSUME NEW file, Open(t, k, file)
      PROVE  /\ pc'[t] = "opening" /\ target'[t] = file
             /\ UNCHANGED <<blobs, published, reply>>
             /\ \A s \in Tasks \ {t} : target'[s] = target[s]
  BY <1>0, <1>2 DEF Open, Goto, store
<1> QED
  BY <1>1, <1>2

Done == {"idle", "closing", "replied"}

(* The path a step leaves in `target`: none, the one it found there, or the *)
(* one the store answers for the row as the step leaves it.                 *)
CapturedFrom(t) ==
  \/ target'[t] = Missing
  \/ target'[t] = target[t] /\ pc[t] \in Done
  \/ target'[t] = target[t] /\ key'[t] = key[t] /\ pc'[t] \notin Done
  \/ /\ target'[t] = FilePath(key'[t], artifacts'[key'[t]])
     /\ key'[t] \in Keys /\ pc'[t] \notin Done /\ UNCHANGED <<blobs, published>>

AnsweredFrom(t) ==
  \/ reply'[t].file = Missing
  \/ pc[t] = "committing" /\ reply'[t].file = fetched[t].sha /\ key'[t] = key[t]
  \/ reply'[t] = reply[t] /\ (key'[t] = key[t] \/ pc[t] = "idle")
  \/ reply'[t].file = target[t] /\ key'[t] = key[t]
  \/ /\ reply'[t].file = FilePath(key'[t], artifacts'[key'[t]])
     /\ key'[t] \in Keys /\ UNCHANGED <<blobs, published>>

LEMMA Bystander ==
  ASSUME NEW t, pc'[t] = pc[t], key'[t] = key[t], target'[t] = target[t], reply'[t] = reply[t]
  PROVE  CapturedFrom(t) /\ AnsweredFrom(t)
BY DEF CapturedFrom, AnsweredFrom

LEMMA RequestFiles ==
  ASSUME TypeOK, NEW s \in Tasks, NEW k \in Keys, NEW m \in Methods, Request(s, k, m),
         NEW t \in Tasks
  PROVE  CapturedFrom(t) /\ AnsweredFrom(t)
<1>0. /\ pc \in [Tasks -> Phases] /\ target \in [Tasks -> Contents \cup {Missing}]
      /\ key \in [Tasks -> Keys \cup {NoKey}]
      /\ reply \in [Tasks -> [status : Statuses, file : Contents \cup {Missing},
                              sha : Contents \cup {Missing}]]
  BY DEF TypeOK, PhasesOK, LocalsOK, ReplyOK
<1>1. pc[s] = "idle" /\ key' = [key EXCEPT ![s] = k]
  BY DEF Request, FastHit, ArriveReuse, ArriveOpen, ArriveWait, ArriveFails, Arrive, Accept
<1>2. CASE FastHit(s, k, m)
  <2>1. /\ pc' = [pc EXCEPT ![s] = "replied"] /\ target' = target
        /\ UNCHANGED <<artifacts, blobs, published>>
        /\ \E status, sha : Answer(s, status, FilePath(k, artifacts[k]), sha)
    BY <1>2 DEF FastHit, Goto, store
  <2>2. CASE t = s
    BY <1>0, <1>1, <2>1, <2>2 DEF Answer, CapturedFrom, AnsweredFrom, Done
  <2>3. CASE t # s
    <3>1. pc'[t] = pc[t] /\ key'[t] = key[t] /\ target'[t] = target[t] /\ reply'[t] = reply[t]
      BY <1>0, <1>1, <2>1, <2>3 DEF Answer
    <3> QED
      BY <3>1, Bystander
  <2> QED
    BY <2>2, <2>3
<1>3. CASE ArriveReuse(s, k, m) \/ ArriveOpen(s, k, m)
  <2>1. Reuse(s, k, m) \/ Open(s, k, Captured(k, m))
    BY <1>3 DEF ArriveReuse, ArriveOpen
  <2>2. CASE Reuse(s, k, m)
    <3>1. \/ \E row \in Reusable(k) : Bind(s, k, m, Renewed(row))
      BY <2>2 DEF Reuse
    <3>2. \E phase : pc' = [pc EXCEPT ![s] = phase]
      BY <3>1 DEF Bind, Goto
    <3>3. /\ pc'[t] = pc[t] \/ t = s
          /\ \A file : ~(Open(s, k, file) /\ Reuse(s, k, m))
      BY <1>0, <3>2 DEF Open, Reuse
    <3>4. CASE t # s
      BY <1>0, <1>1, <2>2, <3>3, <3>4, BoundPath, Bystander
    <3>5. CASE t = s
      BY <1>0, <1>1, <2>2, <3>3, <3>5, BoundPath DEF CapturedFrom, AnsweredFrom, Done
    <3> QED
      BY <3>4, <3>5
  <2>3. CASE Open(s, k, Captured(k, m))
    <3>1. /\ pc' = [pc EXCEPT ![s] = "opening"] /\ reply' = reply
          /\ target' = [target EXCEPT ![s] = Captured(k, m)]
          /\ UNCHANGED <<artifacts, blobs, published>>
      BY <2>3 DEF Open, Goto, store
    <3>2. CASE t = s
      BY <1>0, <1>1, <3>1, <3>2 DEF Captured, CapturedFrom, AnsweredFrom, Done
    <3>3. CASE t # s
      BY <1>0, <1>1, <3>1, <3>3, Bystander
    <3> QED
      BY <3>2, <3>3
  <2> QED
    BY <2>1, <2>2, <2>3
<1>4. CASE ArriveWait(s, k, m)
  <2>1. /\ pc' = [pc EXCEPT ![s] = "waiting"] /\ reply' = reply
        /\ target' = [target EXCEPT ![s] = Captured(k, m)]
        /\ UNCHANGED <<artifacts, blobs, published>>
    BY <1>4 DEF ArriveWait, Goto, store
  <2>2. CASE t = s
    BY <1>0, <1>1, <2>1, <2>2 DEF Captured, CapturedFrom, AnsweredFrom, Done
  <2>3. CASE t # s
    BY <1>0, <1>1, <2>1, <2>3, Bystander
  <2> QED
    BY <2>2, <2>3
<1>5. CASE ArriveFails(s, k, m)
  <2>1. /\ pc' = [pc EXCEPT ![s] = "replied"] /\ target' = target
        /\ Answer(s, "Broken", Missing, Missing)
    BY <1>5 DEF ArriveFails, Goto
  <2>2. CASE t = s
    BY <1>0, <1>1, <2>1, <2>2 DEF Answer, CapturedFrom, AnsweredFrom, Done
  <2>3. CASE t # s
    <3>1. pc'[t] = pc[t] /\ key'[t] = key[t] /\ target'[t] = target[t] /\ reply'[t] = reply[t]
      BY <1>0, <1>1, <2>1, <2>3 DEF Answer
    <3> QED
      BY <3>1, Bystander
  <2> QED
    BY <2>2, <2>3
<1> QED
  BY <1>2, <1>3, <1>4, <1>5 DEF Request

LEMMA HandleFiles ==
  ASSUME TypeOK, NEW s \in Tasks, Handle(s), NEW t \in Tasks
  PROVE  CapturedFrom(t) /\ AnsweredFrom(t)
<1>0. /\ pc \in [Tasks -> Phases] /\ target \in [Tasks -> Contents \cup {Missing}]
      /\ artifacts \in [Keys -> Record \cup {NoRecord}]
      /\ reply \in [Tasks -> [status : Statuses, file : Contents \cup {Missing},
                              sha : Contents \cup {Missing}]]
  BY DEF TypeOK, TablesOK, PhasesOK, LocalsOK, ReplyOK
<1>1. key' = key /\ key[s] \in Keys
  BY DEF TypeOK, PhasesOK, Handle, WakeHit, WakeReuse, WakeOpen, WakeFails, Wake, Respond200, Respond304,
         Respond404, RespondError, RespondOther, AttemptFails, Upstream, StartBody, Abandon,
         Disconnect, Publish, BodyFails, Commit, CommitFails, Close
<1>2. \E phase : pc' = [pc EXCEPT ![s] = phase]
  BY DEF Handle, WakeHit, WakeReuse, WakeOpen, WakeFails, Reuse, Bind, Open, Respond200, Respond304,
         Respond404, RespondError, RespondOther, AttemptFails, StartBody, Abandon, Disconnect, Publish,
         BodyFails, Commit, CommitFails, Close, NextUrl, Fail, Goto
<1>3. CASE t # s
  <2>1. /\ target' = target \/ \E file : target' = [target EXCEPT ![s] = file]
        /\ reply' = reply \/ \E r : reply' = [reply EXCEPT ![s] = r]
    BY DEF Handle, WakeHit, WakeReuse, WakeOpen, WakeFails, Reuse, Bind, Open, Respond200, Respond304,
           Respond404, RespondError, RespondOther, AttemptFails, StartBody, Abandon, Disconnect, Publish,
           BodyFails, Commit, CommitFails, Close, NextUrl, Fail, Forget, Answer
  <2> QED
    BY <1>0, <1>1, <1>2, <1>3, <2>1, Bystander
<1>4. CASE t = s
  <2>1. CASE WakeHit(s)
    <3>1. /\ UNCHANGED <<artifacts, blobs, published>>
          /\ target'[s] = Missing
          /\ reply'[s].file = SecondLook(s, key[s])
      BY <1>0, <2>1 DEF WakeHit, Forget, Answer, store
    <3> QED
      BY <1>1, <1>4, <3>1 DEF SecondLook, CapturedFrom, AnsweredFrom
  <2>2. CASE WakeReuse(s)
    <3>1. Reuse(s, key[s], method[s]) /\ \A file : ~Open(s, key[s], file)
      BY <2>2 DEF WakeReuse, Reuse, Open
    <3> QED
      BY <1>0, <1>1, <1>4, <3>1, BoundPath DEF CapturedFrom, AnsweredFrom, Done
  <2>3. CASE WakeOpen(s)
    <3>1. target'[s] = target[s] /\ reply' = reply /\ pc'[s] = "opening"
      BY <1>0, <2>3 DEF WakeOpen, Open, Goto
    <3> QED
      BY <1>1, <1>4, <3>1 DEF CapturedFrom, AnsweredFrom, Done
  <2>4. CASE Respond304(s)
    <3>1. target'[s] = Missing /\ reply'[s].file = target[s]
      BY <1>0, <2>4 DEF Respond304, Forget, Answer
    <3> QED
      BY <1>1, <1>4, <3>1 DEF CapturedFrom, AnsweredFrom
  <2>5. CASE Commit(s)
    <3>1. /\ target'[s] = Missing /\ UNCHANGED <<blobs, published>>
          /\ artifacts'[key[s]] = fetched[s]
          /\ reply'[s].file = FilePath(key[s], fetched[s])
      BY <1>0, <1>1, <2>5 DEF Commit, Forget, Answer
    <3> QED
      BY <1>1, <1>4, <3>1 DEF CapturedFrom, AnsweredFrom
  <2>6. CASE Close(s)
    <3>1. target' = target /\ reply' = reply /\ pc[s] = "closing"
      BY <2>6 DEF Close
    <3> QED
      BY <1>1, <1>4, <3>1 DEF CapturedFrom, AnsweredFrom, Done
  <2>8. CASE CommitFails(s)
    <3>1. /\ target'[s] = Missing /\ pc[s] = "committing"
          /\ reply'[s].file \in {Missing, fetched[s].sha}
      BY <1>0, <2>8 DEF CommitFails, Fail, Forget, Answer
    <3> QED
      BY <1>1, <1>4, <3>1 DEF CapturedFrom, AnsweredFrom
  <2>7. CASE \/ Respond200(s) \/ Respond404(s) \/ RespondError(s) \/ RespondOther(s)
             \/ StartBody(s) \/ Abandon(s) \/ Disconnect(s)
             \/ Publish(s) \/ BodyFails(s) \/ WakeFails(s) \/ AttemptFails(s)
    <3>1. /\ \/ Forget(s)
             \/ target' = target /\ \E phase \in {"reading", "ready", "streaming",
                                                  "committing", "opening"} : Goto(s, phase)
          /\ reply' = reply \/ \E status : Answer(s, status, Missing, Missing)
      BY <2>7 DEF Respond200, Respond404, RespondError, RespondOther, AttemptFails, WakeFails,
                  StartBody, Abandon, Disconnect, Publish, BodyFails, NextUrl, Fail
    <3>2. target'[s] = Missing \/ (target'[s] = target[s] /\ pc'[s] \notin Done)
      BY <1>0, <3>1 DEF Forget, Goto, Done
    <3>3. reply'[s] = reply[s] \/ reply'[s].file = Missing
      BY <1>0, <3>1 DEF Answer
    <3> QED
      BY <1>1, <1>4, <3>2, <3>3 DEF CapturedFrom, AnsweredFrom
  <2> QED
    BY <2>1, <2>2, <2>3, <2>4, <2>5, <2>6, <2>7, <2>8 DEF Handle
<1> QED
  BY <1>3, <1>4

LEMMA FileSources ==
  ASSUME TypeOK, [Next]_vars \/ Sync, NEW t \in Tasks
  PROVE  CapturedFrom(t) /\ AnsweredFrom(t)
<1>0. /\ pc \in [Tasks -> Phases] /\ key \in [Tasks -> Keys \cup {NoKey}]
      /\ target \in [Tasks -> Contents \cup {Missing}]
      /\ reply \in [Tasks -> [status : Statuses, file : Contents \cup {Missing},
                              sha : Contents \cup {Missing}]]
  BY DEF TypeOK, PhasesOK, LocalsOK, ReplyOK
<1>1. CASE \E s \in Tasks, k \in Keys, m \in Methods : Request(s, k, m)
  BY <1>1, RequestFiles
<1>2. CASE \E s \in Tasks : Handle(s)
  BY <1>2, HandleFiles
<1>3. CASE \E s \in Tasks : Leave(s)
  <2>1. PICK s \in Tasks : /\ pc[s] = "replied"
                           /\ pc' = [pc EXCEPT ![s] = "idle"]
                           /\ key' = [key EXCEPT ![s] = NoKey]
                           /\ reply' = [reply EXCEPT ![s] = NoReply]
                           /\ target' = target
    BY <1>3 DEF Leave, Goto
  <2>2. CASE t = s
    BY <1>0, <2>1, <2>2 DEF CapturedFrom, AnsweredFrom, Done, NoReply
  <2>3. CASE t # s
    BY <1>0, <2>1, <2>3, Bystander
  <2> QED
    BY <2>2, <2>3
<1>4. CASE Crash
  BY <1>4 DEF Crash, CapturedFrom, AnsweredFrom, NoReply
<1>5. CASE \/ \E k \in Keys : Expire(k)
           \/ \E b \in Pools \X Contents : LoseBlob(b)
           \/ UNCHANGED vars
           \/ Sync
  <2>1. UNCHANGED <<pc, key, target, reply>>
    BY <1>5, SyncStep DEF Expire, LoseBlob, vars
  <2> QED
    BY <2>1, Bystander
<1> QED
  BY <1>1, <1>2, <1>3, <1>4, <1>5 DEF Next

(* What the store answers is sound when its rows and paths are.             *)
LEMMA SoundPath ==
  ASSUME NEW k \in Keys, NEW c, c # Missing, c = FilePath(k, artifacts'[k]),
         UNCHANGED <<blobs, published>>,
         artifacts'[k] # NoRecord => SoundRow(k, artifacts[k])',
         published'[k] # Missing => Sound(k, published[k])'
  PROVE  Sound(k, c)'
<1>1. CASE artifacts'[k] # NoRecord /\ c = artifacts'[k].sha
  BY <1>1 DEF SoundRow, Sound, FromUrl, Offered
<1>2. CASE c = published'[k]
  BY <1>2 DEF Sound, FromUrl, Offered
<1> QED
  BY <1>1, <1>2 DEF FilePath

LEMMA SoundNext ==
  ASSUME BuiltStandApart
  PROVE  TypeOK /\ SoundFiles /\ [SyncNext]_vars => SoundFiles'
<1> SUFFICES ASSUME TypeOK, SoundFiles, [SyncNext]_vars PROVE SoundFiles'
  OBVIOUS
<1>0. /\ [Next]_vars \/ Sync
      /\ seen \subseteq seen'
  BY SeenGrows, SyncStep DEF SyncNext
<1>1. ASSUME NEW k \in Keys, artifacts'[k] # NoRecord
      PROVE  SoundRow(k, artifacts[k])'
  BY <1>0, <1>1, SoundRows
<1>2. ASSUME NEW t \in Tasks, pc'[t] = "committing"
      PROVE  Witnessed(key[t], fetched[t])'
  <2>1. CASE Publish(t)
    BY <2>1, PublishedBytes
  <2>2. CASE pc[t] = "committing" /\ key'[t] = key[t] /\ fetched'[t] = fetched[t]
    BY <1>0, <2>2 DEF SoundFiles, Witnessed
  <2>3. CASE Sync
    BY <1>0, <1>2, <2>3, SyncStep DEF SoundFiles, Witnessed
  <2> QED
    BY <1>0, <1>2, <2>1, <2>2, <2>3, RowToWrite
<1>3. ASSUME NEW k \in Keys, published'[k] # Missing
      PROVE  Sound(k, published[k])'
  <2>1. CASE published'[k] = published[k]
    <3>1. Sound(k, published[k])
      BY <1>3, <2>1 DEF SoundFiles
    <3> QED
      BY <1>0, <2>1, <3>1 DEF Sound, FromUrl, Offered
  <2>2. CASE \E t \in Tasks : Publish(t) /\ key[t] = k
    <3>1. PICK t \in Tasks, c \in Contents :
            /\ key[t] = k /\ key' = key
            /\ published' = [published EXCEPT ![k] = c] /\ Sound(key[t], c)'
      BY <2>2, PublishedBytes
    <3>2. published'[k] = c
      BY <3>1 DEF TypeOK, TablesOK
    <3> QED
      BY <3>1, <3>2 DEF Sound, FromUrl, Offered
  <2> QED
    BY <1>0, <1>3, <2>1, <2>2, PathsInMemory, SyncStep
<1>4. ASSUME NEW t \in Tasks, target'[t] # Missing
      PROVE  pc'[t] \notin Done /\ Sound(key[t], target[t])'
  <2>1. CASE target'[t] = target[t] /\ key'[t] = key[t] /\ pc'[t] \notin Done
    <3>1. Sound(key[t], target[t])
      BY <1>4, <2>1 DEF SoundFiles
    <3> QED
      BY <1>0, <2>1, <3>1 DEF Sound, FromUrl, Offered
  <2>2. ~(target'[t] = target[t] /\ pc[t] \in Done)
    BY <1>4 DEF SoundFiles, Done
  <2>3. CASE /\ target'[t] = FilePath(key'[t], artifacts'[key'[t]]) /\ key'[t] \in Keys
             /\ pc'[t] \notin Done /\ UNCHANGED <<blobs, published>>
    <3>1. target'[t] # Missing
      BY <1>4
    <3>2. PICK k \in Keys, c \in {target'[t]} : k = key'[t]
      BY <2>3
    <3>3. c # Missing /\ c = FilePath(k, artifacts'[k]) /\ UNCHANGED <<blobs, published>>
      BY <2>3, <3>1, <3>2
    <3>4. /\ artifacts'[k] # NoRecord => SoundRow(k, artifacts[k])'
          /\ published'[k] # Missing => Sound(k, published[k])'
      BY <1>1, <1>3
    <3>5. Sound(k, c)'
      BY <3>3, <3>4, SoundPath
    <3> QED
      BY <2>3, <3>2, <3>5 DEF Sound, FromUrl, Offered
  <2> QED
    BY <1>0, <1>4, <2>1, <2>2, <2>3, FileSources DEF CapturedFrom
<1> QED
  BY <1>1, <1>2, <1>3, <1>4 DEF SoundFiles, Done

LEMMA SoundInit == Init => SoundFiles
BY DEF Init, SoundFiles

(* A client that asks for the file at a URL is given bytes that URL has     *)
(* served, or bytes a client offered for this very key or as what it        *)
(* downloaded from that URL, from whatever row, memory or captured path the *)
(* answer comes, with any faults: provided what clients built themselves    *)
(* stands apart.  (It does not for a wheel whose origin is a source         *)
(* distribution, and that wheel is handed out for it.)                      *)
THEOREM RepliesAreFromUrl ==
  ASSUME BuiltStandApart
  PROVE  SyncSpec => []ReplyIsFromUrl
<1> DEFINE Answers == \A t \in Tasks : reply[t].file # Missing => Sound(key[t], reply[t].file)
<1>1. Init => Answers /\ Silent
  BY DEF Init, Silent, NoReply
<1>2. Answers <=> ReplyIsFromUrl
  BY DEF ReplyIsFromUrl, Sound, FromUrl
<1>3. TypeOK /\ Silent /\ [SyncNext]_vars => Silent'
  BY SilentNext, SyncKeepsTasks DEF SyncNext
<1>4. TypeOK /\ Silent /\ SoundFiles /\ SoundFiles' /\ Answers /\ [SyncNext]_vars => Answers'
  <2> SUFFICES ASSUME TypeOK, Silent, SoundFiles, SoundFiles', Answers, [SyncNext]_vars,
                      NEW t \in Tasks, reply'[t].file # Missing
               PROVE  Sound(key[t], reply[t].file)'
    OBVIOUS
  <2>0. /\ [Next]_vars \/ Sync
        /\ seen \subseteq seen'
    BY SeenGrows, SyncStep DEF SyncNext
  <2>1. CASE reply'[t] = reply[t] /\ (key'[t] = key[t] \/ pc[t] = "idle")
    <3>1. reply[t].file # Missing
      BY <2>1
    <3>a. NoReply.file = Missing
      BY DEF NoReply
    <3>b. pc[t] = "idle" => reply[t] = NoReply
      BY DEF Silent
    <3>2. key'[t] = key[t]
      BY <2>1, <3>1, <3>a, <3>b
    <3>3. Sound(key[t], reply[t].file)
      BY <3>1
    <3> QED
      BY <2>0, <2>1, <3>2, <3>3 DEF Sound, FromUrl, Offered
  <2>2. CASE reply'[t].file = target[t] /\ key'[t] = key[t]
    <3>1. Sound(key[t], target[t])
      BY <2>2 DEF SoundFiles
    <3> QED
      BY <2>0, <2>2, <3>1 DEF Sound, FromUrl, Offered
  <2>3. CASE /\ reply'[t].file = FilePath(key'[t], artifacts'[key'[t]])
             /\ key'[t] \in Keys /\ UNCHANGED <<blobs, published>>
    <3>1. PICK k \in Keys, c \in {reply'[t].file} : k = key'[t]
      BY <2>3
    <3>2. Sound(k, c)'
      BY <2>3, <3>1, SoundPath DEF SoundFiles
    <3> QED
      BY <3>1, <3>2 DEF Sound, FromUrl, Offered
  <2>4. CASE pc[t] = "committing" /\ reply'[t].file = fetched[t].sha /\ key'[t] = key[t]
    <3>1. Witnessed(key[t], fetched[t])
      BY <2>4 DEF SoundFiles
    <3> QED
      BY <2>0, <2>4, <3>1 DEF Witnessed, Sound, FromUrl
  <2> QED
    BY <2>0, <2>1, <2>2, <2>3, <2>4, FileSources DEF AnsweredFrom
<1> QED
  BY <1>1, <1>2, <1>3, <1>4, InitType, SyncType, SoundInit, SoundNext, PTL DEF SyncSpec
=============================================================================

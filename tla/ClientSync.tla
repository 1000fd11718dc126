----------------------------- MODULE ClientSync -----------------------------
(***************************************************************************)
(* Migrating private package caches: client/cache-sync.sh, run by several  *)
(* shells, against the check and upload handlers of app/sync.py.  Requests *)
(* and replies can be lost, the script can be stopped anywhere, and other  *)
(* tools go on filling the caches it prunes.                               *)
(***************************************************************************)
EXTENDS FiniteSets

CONSTANTS
  Scripts,    \* runs of cache-sync.sh
  Archives,   \* archive files that lie or will lie in a private cache
  CacheOf,    \* script -> the archives in the caches it looks at
  Late,       \* archives that other tools add while scripts run
  Listed,     \* archives with a suffix the scan looks for
  KindOf,     \* archive -> "conda" or "pip"
  ShaOf,      \* archive -> SHA-256
  KeyOf,      \* archive -> (source_id, path) of its row
  OriginOf,   \* archive -> origin.json's or urls.txt's URL
  Accepted,   \* archives sync.py can read and has a source for
  Prune,      \* --prune, rather than --sync
  Faults,     \* subset of {"lost", "stop"}
  None

ASSUME SyncConstants ==
  /\ CacheOf \in [Scripts -> SUBSET Archives]
  /\ Late \subseteq Archives /\ Listed \subseteq Archives
  /\ KindOf \in [Archives -> {"conda", "pip"}]
  /\ DOMAIN ShaOf = Archives /\ DOMAIN KeyOf = Archives /\ DOMAIN OriginOf = Archives
  /\ Accepted \subseteq Archives
  /\ Prune \in BOOLEAN
  /\ \A a \in Archives : ShaOf[a] # None /\ KeyOf[a] # None

Keys == {KeyOf[a] : a \in Archives}
Origins == {OriginOf[a] : a \in Archives}
Shas == {ShaOf[a] : a \in Archives}

VARIABLES
  local,     \* archives in private caches
  pending,   \* those of Late still to come
  traced,    \* archives whose origin the cache still records
  blobs,     \* the gateway's files, as <<pool, sha>>
  rows,      \* table artifacts: key -> sha
  links,     \* table pypi_links of import-pip: origin -> key
  pc,
  listed,    \* archives found by the scan
  todo,      \* those not yet processed
  current,   \* $archive
  named,     \* is $origin known?
  failed,    \* $failed # 0
  swept      \* history: purged from pip's cache by a script that did not list them

vars == <<local, pending, traced, blobs, rows, links, pc, listed, todo, current, named,
          failed, swept>>
caches == <<local, pending, traced, swept>>
gateway == <<blobs, rows, links>>

Init ==
  /\ local = Archives \ Late
  /\ pending = Late
  /\ traced = Archives
  /\ blobs = {}
  /\ rows = [k \in Keys |-> None]
  /\ links = [o \in Origins |-> None]
  /\ pc = [s \in Scripts |-> "new"]
  /\ listed = [s \in Scripts |-> {}]
  /\ todo = [s \in Scripts |-> {}]
  /\ current = [s \in Scripts |-> None]
  /\ named = [s \in Scripts |-> FALSE]
  /\ failed = [s \in Scripts |-> FALSE]
  /\ swept = {}

Goto(s, phase) == pc' = [pc EXCEPT ![s] = phase]

-----------------------------------------------------------------------------
(* The gateway *)

Blob(a) == <<KindOf[a], ShaOf[a]>>

(* Does register find a destination?  pip archives need no origin.          *)
Welcome(s) == current[s] \in Accepted /\ (KindOf[current[s]] = "conda" => named[s])

Upsert(a) == rows' = [rows EXCEPT ![KeyOf[a]] = ShaOf[a]]
Link(a) == links' = IF KindOf[a] = "pip" THEN [links EXCEPT ![OriginOf[a]] = KeyOf[a]] ELSE links

(* ClientSync.register, for bytes that are there.                           *)
Register(a) == Upsert(a) /\ Link(a)

(* The same, perhaps cut off between the two commits.                       *)
RegisterCut(a) == Upsert(a) /\ (Link(a) \/ UNCHANGED links)

CheckHandler(s) ==
  /\ Blob(current[s]) \in blobs
  /\ Welcome(s)
  /\ Register(current[s])
  /\ UNCHANGED blobs

UploadOnlyPublishes(s) ==  \* mutant: leaves register to a later check
  blobs' = blobs \cup {Blob(current[s])} /\ UNCHANGED <<rows, links>>

(* The bytes are published before register has its say.                     *)
UploadHandler(s) ==
  /\ blobs' = blobs \cup {Blob(current[s])}
  /\ IF Welcome(s) THEN Register(current[s]) ELSE UNCHANGED <<rows, links>>

(* A request that gets no answer has been handled in full, in part or not   *)
(* at all.                                                                  *)
CheckCut(s) ==
  \/ UNCHANGED gateway
  \/ /\ Blob(current[s]) \in blobs /\ Welcome(s)
     /\ RegisterCut(current[s])
     /\ UNCHANGED blobs

UploadCut(s) ==
  \/ UNCHANGED gateway
  \/ /\ blobs' = blobs \cup {Blob(current[s])}
     /\ UNCHANGED <<rows, links>> \/ (Welcome(s) /\ RegisterCut(current[s]))

-----------------------------------------------------------------------------
(* The script *)

(* find: of what lies in pip's cache, only files with an archive's suffix.  *)
Scan(s) ==
  /\ pc[s] = "new"
  /\ listed' = [listed EXCEPT ![s] = CacheOf[s] \cap local \cap Listed]
  /\ todo' = [todo EXCEPT ![s] = CacheOf[s] \cap local \cap Listed]
  /\ Goto(s, "pip")
  /\ UNCHANGED <<caches, gateway, current, named, failed>>

PickRetries(s, a) ==  \* mutant: a failed archive stays on the list
  /\ pc[s] \in {"pip", "conda"}
  /\ a \in todo[s] \cap local /\ KindOf[a] = pc[s]
  /\ current' = [current EXCEPT ![s] = a]
  /\ named' = [named EXCEPT ![s] = a \in traced]
  /\ Goto(s, "check")
  /\ UNCHANGED <<caches, gateway, listed, todo, failed>>

PickForgets(s, a) ==  \* mutant: calls sync_archive without the archive
  /\ pc[s] \in {"pip", "conda"}
  /\ a \in todo[s] \cap local /\ KindOf[a] = pc[s]
  /\ todo' = [todo EXCEPT ![s] = @ \ {a}]
  /\ Goto(s, "check")
  /\ UNCHANGED <<caches, gateway, listed, current, named, failed>>

(* sync_pip_cache goes through its archives, then sync_conda_cache; origin  *)
(* and SHA-256 are read before anything is sent.                            *)
Pick(s, a) ==
  /\ pc[s] \in {"pip", "conda"}
  /\ a \in todo[s] \cap local /\ KindOf[a] = pc[s]
  /\ todo' = [todo EXCEPT ![s] = @ \ {a}]
  /\ current' = [current EXCEPT ![s] = a]
  /\ named' = [named EXCEPT ![s] = a \in traced]
  /\ Goto(s, "check")
  /\ UNCHANGED <<caches, gateway, listed, failed>>

(* sha256sum finds no file any more; no request without a SHA-256 gets the  *)
(* answer waited for.                                                       *)
PickGone(s, a) ==
  /\ pc[s] \in {"pip", "conda"}
  /\ a \in todo[s] \ local /\ KindOf[a] = pc[s]
  /\ todo' = [todo EXCEPT ![s] = @ \ {a}]
  /\ failed' = [failed EXCEPT ![s] = TRUE]
  /\ UNCHANGED <<caches, gateway, pc, listed, current, named>>

Return(s) ==
  /\ Goto(s, KindOf[current[s]])
  /\ current' = [current EXCEPT ![s] = None]
  /\ named' = [named EXCEPT ![s] = FALSE]
  /\ UNCHANGED <<pending, traced, listed, todo>>

(* Any other answer than the ones waited for counts as a failure.           *)
CountFailure(s) ==
  /\ failed' = [failed EXCEPT ![s] = TRUE]
  /\ Return(s)
  /\ UNCHANGED <<local, swept>>

GoOn(s, phase) == Goto(s, phase) /\ UNCHANGED <<caches, listed, todo, current, named, failed>>

(* GET: 200.                                                                *)
CheckHit(s) ==
  /\ pc[s] = "check"
  /\ CheckHandler(s)
  /\ GoOn(s, "remove")

(* 404.                                                                     *)
CheckMiss(s) ==
  /\ pc[s] = "check"
  /\ Blob(current[s]) \notin blobs
  /\ GoOn(s, "open")
  /\ UNCHANGED gateway

(* 400, or no answer at all.                                                *)
CheckFails(s) ==
  /\ pc[s] = "check"
  /\ \/ Blob(current[s]) \in blobs /\ ~Welcome(s) /\ UNCHANGED gateway
     \/ "lost" \in Faults /\ CheckCut(s)
  /\ CountFailure(s)

(* curl reads the whole file, if it is still there, and then sends it.      *)
Open(s) ==
  /\ pc[s] = "open"
  /\ IF current[s] \in local THEN GoOn(s, "upload") ELSE CountFailure(s)
  /\ UNCHANGED gateway

(* PUT: 201.                                                                *)
UploadDone(s) ==
  /\ pc[s] = "upload"
  /\ Welcome(s)
  /\ UploadHandler(s)
  /\ GoOn(s, "remove")

(* 422, or the request or its answer is lost.                               *)
UploadFails(s) ==
  /\ pc[s] = "upload"
  /\ \/ ~Welcome(s) /\ UploadHandler(s)
     \/ "lost" \in Faults /\ UploadCut(s)
  /\ CountFailure(s)

Remove(s) ==
  /\ pc[s] = "remove"
  /\ local' = IF Prune THEN local \ {current[s]} ELSE local
  /\ Return(s)
  /\ UNCHANGED <<swept, gateway, failed>>

Left(s, kind) == {a \in todo[s] : KindOf[a] = kind}
Cached(s, kind) == {a \in CacheOf[s] : KindOf[a] = kind}

(* `pip cache purge` empties the whole cache: what the scan found, what has *)
(* come since, and the HTTP cache's bodies, which have no suffix.           *)
Purge(s) ==
  /\ local' = local \ Cached(s, "pip")
  /\ swept' = swept \cup ((local \cap Cached(s, "pip")) \ listed[s])

PurgeAlways(s) ==  \* mutant: does not look at $failed
  /\ pc[s] = "pip" /\ Left(s, "pip") = {}
  /\ IF Prune THEN Purge(s) ELSE UNCHANGED <<local, swept>>
  /\ Goto(s, "conda")
  /\ UNCHANGED <<pending, traced, gateway, listed, todo, current, named, failed>>

PurgePip(s) ==
  /\ pc[s] = "pip" /\ Left(s, "pip") = {}
  /\ IF Prune /\ ~failed[s] THEN Purge(s) ELSE UNCHANGED <<local, swept>>
  /\ Goto(s, "conda")
  /\ UNCHANGED <<pending, traced, gateway, listed, todo, current, named, failed>>

(* cache/, urls and urls.txt go; archives in the directory stay.            *)
PurgeConda(s) ==
  /\ pc[s] = "conda" /\ Left(s, "conda") = {}
  /\ traced' = IF Prune /\ ~failed[s] THEN traced \ (Cached(s, "conda") \ pending) ELSE traced
  /\ listed' = [listed EXCEPT ![s] = {}]
  /\ Goto(s, "done")
  /\ UNCHANGED <<local, pending, swept, gateway, todo, current, named, failed>>

(* Run it once more.                                                        *)
Again(s) ==
  /\ pc[s] \in {"done", "stopped"}
  /\ failed' = [failed EXCEPT ![s] = FALSE]
  /\ Goto(s, "new")
  /\ UNCHANGED <<caches, gateway, listed, todo, current, named>>

Stop(s) ==
  /\ "stop" \in Faults
  /\ pc[s] \notin {"new", "done", "stopped"}
  /\ listed' = [listed EXCEPT ![s] = {}]
  /\ todo' = [todo EXCEPT ![s] = {}]
  /\ current' = [current EXCEPT ![s] = None]
  /\ named' = [named EXCEPT ![s] = FALSE]
  /\ failed' = [failed EXCEPT ![s] = FALSE]
  /\ Goto(s, "stopped")
  /\ UNCHANGED <<caches, gateway>>

(* pip or conda puts another archive into its cache.                        *)
Download(a) ==
  /\ a \in pending
  /\ pending' = pending \ {a}
  /\ local' = local \cup {a}
  /\ UNCHANGED <<traced, swept, gateway, pc, listed, todo, current, named, failed>>

Step(s) ==
  \/ Scan(s) \/ \E a \in Archives : Pick(s, a) \/ PickGone(s, a)
  \/ CheckHit(s) \/ CheckMiss(s) \/ CheckFails(s)
  \/ Open(s) \/ UploadDone(s) \/ UploadFails(s) \/ Remove(s)
  \/ PurgePip(s) \/ PurgeConda(s)

Next ==
  \/ \E s \in Scripts : Step(s) \/ Again(s) \/ Stop(s)
  \/ \E a \in Archives : Download(a)

Spec == Init /\ [][Next]_vars

(* The script is not suspended, and each curl, which is given no time       *)
(* limit, returns.                                                          *)
LiveSpec == Spec /\ \A s \in Scripts : WF_vars(Step(s))

-----------------------------------------------------------------------------
(* Properties *)

(* Everything stays in its set, and a script at work on an archive has one. *)
TypeOK ==
  /\ local \subseteq Archives /\ pending \subseteq Late /\ traced \subseteq Archives
  /\ blobs \subseteq {"conda", "pip"} \X Shas
  /\ rows \in [Keys -> Shas \cup {None}]
  /\ links \in [Origins -> Keys \cup {None}]
  /\ pc \in [Scripts -> {"new", "pip", "conda", "check", "open", "upload", "remove", "done",
                         "stopped"}]
  /\ listed \in [Scripts -> SUBSET Archives] /\ todo \in [Scripts -> SUBSET Archives]
  /\ current \in [Scripts -> Archives \cup {None}]
  /\ \A s \in Scripts :
       pc[s] \in {"check", "open", "upload", "remove"} => current[s] \in Archives
  /\ named \in [Scripts -> BOOLEAN] /\ failed \in [Scripts -> BOOLEAN]
  /\ swept \subseteq Archives

Gone == Archives \ (local \cup pending)

(* The archives that went from a private cache although no purge met them   *)
(* without having listed them.                                              *)
Pruned == Gone \ swept

(* What a script has listed goes from a private cache only when the         *)
(* gateway's files have its bytes, whichever replies were lost, wherever    *)
(* scripts were stopped and whatever pip adds meanwhile.                    *)
NothingLost == \A a \in Pruned : Blob(a) \in blobs

(* "Migrate a user's old archives before pruning them" (README.md): also    *)
(* the ones that lie there without a suffix.  `pip cache purge` takes them  *)
(* along.                                                                   *)
NothingSwept == \A a \in Gone : Blob(a) \in blobs

Siblings(a) == {b \in Archives : KindOf[b] = "pip" /\ OriginOf[b] = OriginOf[a]}

Reachable(a) ==
  /\ rows[KeyOf[a]] = ShaOf[a]
  /\ KindOf[a] = "pip" => links[OriginOf[a]] \in {KeyOf[b] : b \in Siblings(a)}

(* And clients can still get it: its row names it, and for pip its origin's *)
(* link leads to it or to a later archive of the same origin.               *)
PrunedIsServed == \A a \in Pruned : Reachable(a)

(* Each by a link of its own.  Two wheels built from one source             *)
(* distribution share theirs.                                               *)
PrunedIsLinked ==
  \A a \in Pruned : KindOf[a] = "pip" => \E o \in Origins : links[o] = KeyOf[a]

(* A run of the script comes to an end.                                     *)
EveryRunEnds == \A s \in Scripts : pc[s] = "new" ~> pc[s] \in {"done", "stopped"}
=============================================================================

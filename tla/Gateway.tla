------------------------------ MODULE Gateway ------------------------------
(***************************************************************************)
(* The package gateway (app/gateway.py) over the cache store               *)
(* (app/store.py) as it runs in one Uvicorn event loop.                    *)
(*                                                                         *)
(* A task is one HTTP request.  An action is what its coroutine does       *)
(* between two awaits, so everything the code does without awaiting is one *)
(* step; the one place split in two is publish/upsert, because a crash or  *)
(* a failing SQLite call can hit between them ("committing").              *)
(* A key is a (source_id, path) pair, a content is a SHA-256 digest.       *)
(***************************************************************************)
EXTENDS Integers, Sequences, FiniteSets

CONSTANTS
  Tasks,      \* concurrent requests
  Keys,       \* (source_id, path) pairs
  Contents,   \* possible bytes of a file, identified by their SHA-256
  Urls,       \* absolute upstream URLs
  Pools,      \* {"conda", "pip"}
  KindOf,     \* key -> "index" (metadata), "conda" or "pypi" archive
  PoolOf,     \* key -> pool of its source
  UrlsOf,     \* key -> the URLs asked for it, in upstream order
  FinalsOf,   \* URL -> URLs a redirect chain from it can end at
  FallsBack,  \* keys whose source has fallback_on_not_found
  ZeroTtl,    \* keys whose source has metadata_ttl_seconds = 0
  Methods,    \* HTTP methods clients use, a subset of {"HEAD", "GET"}
  Faults,     \* subset of {"crash", "commit", "loss", "abandon"}
  NoTask, Leaked, NoKey, Missing, NoUrl, NoRecord   \* sentinels

ASSUME GatewayConstants ==
  /\ KindOf \in [Keys -> {"index", "conda", "pypi"}]
  /\ PoolOf \in [Keys -> Pools]
  /\ UrlsOf \in [Keys -> Seq(Urls)]
  /\ \A k \in Keys : UrlsOf[k] # <<>>
  /\ FinalsOf \in [Urls -> SUBSET Urls]
  /\ FallsBack \subseteq Keys
  /\ ZeroTtl \subseteq Keys
  /\ Methods \subseteq {"HEAD", "GET"}

Record == [sha : Contents, up : Urls \cup {NoUrl}, final : Urls, fresh : BOOLEAN]

ASSUME GatewaySentinels ==
  /\ NoTask \notin Tasks /\ Leaked \notin Tasks /\ NoTask # Leaked
  /\ NoKey \notin Keys
  /\ Missing \notin Contents
  /\ NoUrl \notin Urls
  /\ NoRecord \notin Record

VARIABLES
  artifacts,  \* table artifacts: key -> its row, or NoRecord
  blobs,      \* files on disk, as <<pool, content>>
  published,  \* CacheStore._published_paths (memory only)
  lock,       \* Gateway._locks: the task that must release, or Leaked
  waiters,    \* asyncio.Lock._waiters, first come first served
  pc, key, method,
  target,     \* the `target` path a buffered request captured on arrival
  url,        \* index of the upstream URL being tried
  notFound,   \* all_not_found: every URL tried so far answered 404
  fetched,    \* the row to be written once the bytes are published
  reply,      \* the response: X-Cache status, the file and the row's SHA-256
  seen        \* history: <<URL, content>> pairs some upstream really served

vars == <<artifacts, blobs, published, lock, waiters, pc, key, method, target,
          url, notFound, fetched, reply, seen>>
store == <<artifacts, blobs, published, seen>>
cursor == <<url, notFound, fetched>>

NoReply == [status |-> "none", file |-> Missing, sha |-> Missing]

(* "Unkept" is an X-Cache: MISS whose body went out whole although the row  *)
(* could not be written.                                                    *)
Statuses == {"none", "HIT", "REUSED", "REVALIDATED", "MISS", "Unkept", "NotFound",
             "Unavailable", "Broken"}
Phases == {"idle", "waiting", "opening", "reading", "committing", "ready",
           "streaming", "closing", "replied"}

(* Phases in which the task owns its key's lock: _open_stream, _fetch and   *)
(* _stream_to_cache.                                                        *)
Holding == {"opening", "reading", "committing", "ready", "streaming", "closing"}

Init ==
  /\ artifacts = [k \in Keys |-> NoRecord]
  /\ blobs = {}
  /\ published = [k \in Keys |-> Missing]
  /\ lock = [k \in Keys |-> NoTask]
  /\ waiters = [k \in Keys |-> <<>>]
  /\ pc = [t \in Tasks |-> "idle"]
  /\ key = [t \in Tasks |-> NoKey]
  /\ method = [t \in Tasks |-> "GET"]
  /\ target = [t \in Tasks |-> Missing]
  /\ url = [t \in Tasks |-> 1]
  /\ notFound = [t \in Tasks |-> TRUE]
  /\ fetched = [t \in Tasks |-> NoRecord]
  /\ reply = [t \in Tasks |-> NoReply]
  /\ seen = {}

-----------------------------------------------------------------------------
(* What the store answers *)

IsMetadata(k) == KindOf[k] = "index"

IsFile(k, file) == <<PoolOf[k], file>> \in blobs

FilePathPrefersMemory(k, row) ==  \* mutant: looks in _published_paths first
  IF IsFile(k, published[k]) THEN published[k]
  ELSE IF row # NoRecord /\ IsFile(k, row.sha) THEN row.sha ELSE Missing

(* The row's blob if it is on disk, else what this process published for    *)
(* the key, else the ".missing" path.                                       *)
FilePath(k, row) ==
  IF row # NoRecord /\ IsFile(k, row.sha) THEN row.sha
  ELSE IF IsFile(k, published[k]) THEN published[k] ELSE Missing

Fresh(k, row) == IsMetadata(k) => row.fresh /\ k \notin ZeroTtl

(* The condition of a HIT, for the path `file` the coroutine looks at.      *)
Servable(k, file) ==
  /\ IsFile(k, file)
  /\ artifacts[k] # NoRecord
  /\ Fresh(k, artifacts[k])

FindAnyUrl(k, u) ==  \* mutant: the WHERE clause forgets the URL
  {artifacts[j] : j \in {i \in Keys :
     artifacts[i] # NoRecord /\ PoolOf[i] = PoolOf[k] /\ IsMetadata(i) = IsMetadata(k)}}

(* Rows registered for exactly this URL.  Which of them is the most         *)
(* recently accessed is left open.                                          *)
FindByUpstreamUrl(k, u) ==
  {artifacts[j] : j \in {i \in Keys :
     /\ artifacts[i] # NoRecord
     /\ PoolOf[i] = PoolOf[k]
     /\ IsMetadata(i) = IsMetadata(k)
     /\ u \in {artifacts[i].up, artifacts[i].final}}}

(* The matches of the first of k's URLs that has one.                       *)
Reusable(k) ==
  LET matched == {i \in DOMAIN UrlsOf[k] : FindByUpstreamUrl(k, UrlsOf[k][i]) # {}}
  IN  UNION {FindByUpstreamUrl(k, UrlsOf[k][i]) :
               i \in {i \in matched : \A j \in matched : i <= j}}

-----------------------------------------------------------------------------
(* Requests: main.py sends HEAD and index requests to get/get_url, which    *)
(* answer from a finished file, and archive GETs to the streaming variants. *)

Streams(k, m) == m = "GET" /\ ~IsMetadata(k)

Loop == \A t \in Tasks : pc[t] # "committing"    \* nobody blocks the event loop

LockNeverTaken(k) == TRUE  \* mutant: every request makes a lock of its own

LockFree(k) == lock[k] = NoTask

Accept(t, k, m) ==
  /\ key' = [key EXCEPT ![t] = k]
  /\ method' = [method EXCEPT ![t] = m]

Answer(t, status, file, sha) ==
  reply' = [reply EXCEPT ![t] = [status |-> status, file |-> file, sha |-> sha]]

Goto(t, phase) == pc' = [pc EXCEPT ![t] = phase]

(* get_streaming and get_url_streaming return a finished CacheResult from   *)
(* under `await lock.acquire()`; only an exception releases the lock there. *)
(* get and get_url hold it in an `async with`.                              *)
AfterCached(k, m) == IF Streams(k, m) THEN Leaked ELSE NoTask

(* The coroutine ends or has no more use for its locals.                    *)
Forget(t) ==
  /\ target' = [target EXCEPT ![t] = Missing]
  /\ url' = [url EXCEPT ![t] = 1]
  /\ notFound' = [notFound EXCEPT ![t] = TRUE]
  /\ fetched' = [fetched EXCEPT ![t] = NoRecord]

(* A request that finds the file before looking at the lock.                *)
FastHit(t, k, m) ==
  LET file == FilePath(k, artifacts[k]) IN
  /\ pc[t] = "idle" /\ Loop
  /\ Servable(k, file)
  /\ Accept(t, k, m)
  /\ Goto(t, "replied")
  /\ Answer(t, "HIT", file, artifacts[k].sha)
  /\ UNCHANGED <<store, lock, waiters, target, cursor>>

(* What a request does with the lock in hand and nothing servable: bind the *)
(* key to a row of the same URL, or start asking upstream.  `file` is the   *)
(* path a buffered request captured.  Only an index with a TTL of zero is   *)
(* stale right after its upsert; it goes on to a conditional request.       *)
Bind(t, k, m, row) ==
  /\ artifacts' = [artifacts EXCEPT ![k] = row]
  /\ UNCHANGED <<blobs, published, seen>>
  /\ \/ /\ Fresh(k, row)
        /\ lock' = [lock EXCEPT ![k] = AfterCached(k, m)]
        /\ Answer(t, "REUSED", FilePath(k, row), row.sha)
        /\ Goto(t, "replied")
        /\ Forget(t)
     \/ /\ ~Fresh(k, row)
        /\ lock' = [lock EXCEPT ![k] = t]
        /\ Goto(t, "opening")
        /\ target' = [target EXCEPT ![t] = FilePath(k, row)]
        /\ UNCHANGED <<cursor, reply>>

Renewed(row) == [row EXCEPT !.fresh = TRUE]    \* upsert sets fetched_at to now

Reuse(t, k, m) == \E row \in Reusable(k) : Bind(t, k, m, Renewed(row))

Open(t, k, file) ==
  /\ Reusable(k) = {}
  /\ lock' = [lock EXCEPT ![k] = t]
  /\ Goto(t, "opening")
  /\ target' = [target EXCEPT ![t] = file]
  /\ UNCHANGED <<store, cursor, reply>>

(* SQLite raises in the touch of a hit, in the upsert of _reuse_by_url, or  *)
(* in the touch after that upsert.                                          *)
UseFails(k, file) ==
  /\ "commit" \in Faults
  /\ \/ Servable(k, file) /\ UNCHANGED artifacts
     \/ /\ ~Servable(k, file)
        /\ \E row \in Reusable(k) :
             artifacts' \in {artifacts, [artifacts EXCEPT ![k] = Renewed(row)]}
  /\ UNCHANGED <<blobs, published, seen>>

Captured(k, m) == IF Streams(k, m) THEN Missing ELSE FilePath(k, artifacts[k])

Arrive(t, k, m) ==
  /\ pc[t] = "idle" /\ Loop
  /\ ~Servable(k, FilePath(k, artifacts[k]))
  /\ Accept(t, k, m)

ArriveReuse(t, k, m) ==
  /\ Arrive(t, k, m)
  /\ LockFree(k) /\ waiters[k] = <<>>
  /\ Reuse(t, k, m)
  /\ UNCHANGED waiters

ArriveOpen(t, k, m) ==
  /\ Arrive(t, k, m)
  /\ LockFree(k) /\ waiters[k] = <<>>
  /\ Open(t, k, Captured(k, m))
  /\ UNCHANGED waiters

ArriveWait(t, k, m) ==
  /\ Arrive(t, k, m)
  /\ ~(LockFree(k) /\ waiters[k] = <<>>)
  /\ waiters' = [waiters EXCEPT ![k] = Append(@, t)]
  /\ target' = [target EXCEPT ![t] = Captured(k, m)]
  /\ Goto(t, "waiting")
  /\ UNCHANGED <<store, lock, cursor, reply>>

ArriveFails(t, k, m) ==
  LET file == FilePath(k, artifacts[k]) IN
  /\ pc[t] = "idle" /\ Loop
  /\ Servable(k, file) \/ (LockFree(k) /\ waiters[k] = <<>>)
  /\ UseFails(k, file)
  /\ Accept(t, k, m)
  /\ Answer(t, "Broken", Missing, Missing)
  /\ Goto(t, "replied")
  /\ UNCHANGED <<lock, waiters, target, cursor>>

SecondLookIsFirst(t, k) == target[t]  \* mutant: the path is not read again

(* The second look, when the lock comes round: the row is read again; the   *)
(* path is read again by the streaming variants only.                       *)
SecondLook(t, k) ==
  IF Streams(k, method[t]) THEN FilePath(k, artifacts[k]) ELSE target[t]

WakeEarly(t) ==  \* mutant: does not wait for the holder
  LET k == key[t] IN
  /\ pc[t] = "waiting" /\ Loop
  /\ waiters[k] # <<>> /\ Head(waiters[k]) = t
  /\ waiters' = [waiters EXCEPT ![k] = Tail(@)]
  /\ UNCHANGED <<key, method>>

Wake(t) ==
  LET k == key[t] IN
  /\ pc[t] = "waiting" /\ Loop
  /\ LockFree(k)
  /\ waiters[k] # <<>> /\ Head(waiters[k]) = t
  /\ waiters' = [waiters EXCEPT ![k] = Tail(@)]
  /\ UNCHANGED <<key, method>>

WakeHit(t) ==
  LET k == key[t] IN
  /\ Wake(t)
  /\ Servable(k, SecondLook(t, k))
  /\ lock' = [lock EXCEPT ![k] = AfterCached(k, method[t])]
  /\ Answer(t, "HIT", SecondLook(t, k), artifacts[k].sha)
  /\ Goto(t, "replied")
  /\ Forget(t)
  /\ UNCHANGED store

WakeReuse(t) ==
  LET k == key[t] IN
  /\ Wake(t)
  /\ ~Servable(k, SecondLook(t, k))
  /\ Reuse(t, k, method[t])

WakeOpen(t) ==
  LET k == key[t] IN
  /\ Wake(t)
  /\ ~Servable(k, SecondLook(t, k))
  /\ Open(t, k, target[t])

(* The handler ends with an error; `async with` or `except BaseException`   *)
(* releases the lock.                                                       *)
Fail(t, status) ==
  /\ lock' = [lock EXCEPT ![key[t]] = NoTask]
  /\ Answer(t, status, Missing, Missing)
  /\ Goto(t, "replied")
  /\ Forget(t)

WakeFails(t) ==
  /\ Wake(t)
  /\ UseFails(key[t], SecondLook(t, key[t]))
  /\ Fail(t, "Broken")

-----------------------------------------------------------------------------
(* The upstream exchange *)

Url(t) == UrlsOf[key[t]][url[t]]

Buffered(t) == ~Streams(key[t], method[t])

NextUrlOffByOne(t, none) ==  \* mutant: one URL too many
  \/ /\ url[t] <= Len(UrlsOf[key[t]])
     /\ url' = [url EXCEPT ![t] = @ + 1]
     /\ notFound' = [notFound EXCEPT ![t] = none]
     /\ Goto(t, "opening")
     /\ UNCHANGED <<lock, target, fetched, reply>>
  \/ /\ url[t] > Len(UrlsOf[key[t]])
     /\ Fail(t, IF none THEN "NotFound" ELSE "Unavailable")

NextUrlRetries(t, none) ==  \* mutant: starts over when all have failed
  /\ url' = [url EXCEPT ![t] = IF @ < Len(UrlsOf[key[t]]) THEN @ + 1 ELSE 1]
  /\ notFound' = [notFound EXCEPT ![t] = none]
  /\ Goto(t, "opening")
  /\ UNCHANGED <<lock, target, fetched, reply>>

(* Go on to the next upstream, or end with what the tried ones add up to.   *)
NextUrl(t, none) ==
  \/ /\ url[t] < Len(UrlsOf[key[t]])
     /\ url' = [url EXCEPT ![t] = @ + 1]
     /\ notFound' = [notFound EXCEPT ![t] = none]
     /\ Goto(t, "opening")
     /\ UNCHANGED <<lock, target, fetched, reply>>
  \/ /\ url[t] = Len(UrlsOf[key[t]])
     /\ Fail(t, IF none THEN "NotFound" ELSE "Unavailable")

Upstream(t) ==
  /\ pc[t] = "opening" /\ Loop
  /\ UNCHANGED <<waiters, key, method>>

Respond200Releases(t) ==  \* mutant: the lock covers the headers only
  /\ Upstream(t)
  /\ Goto(t, IF Buffered(t) THEN "reading" ELSE "ready")
  /\ lock' = [lock EXCEPT ![key[t]] = NoTask]
  /\ UNCHANGED <<store, target, cursor, reply>>

(* 200.  _fetch goes on reading; _open_stream returns a body that will.     *)
Respond200(t) ==
  /\ Upstream(t)
  /\ Goto(t, IF Buffered(t) THEN "reading" ELSE "ready")
  /\ UNCHANGED <<store, lock, target, cursor, reply>>

(* 304, which an upstream only sends when validators went out, so for a row *)
(* whose file was there.                                                    *)
Respond304(t) ==
  LET k == key[t] IN
  /\ Upstream(t)
  /\ Buffered(t) /\ IsMetadata(k)
  /\ artifacts[k] # NoRecord /\ IsFile(k, target[t])
  /\ artifacts' = [artifacts EXCEPT ![k].fresh = TRUE]
  /\ lock' = [lock EXCEPT ![k] = NoTask]
  /\ Answer(t, "REVALIDATED", target[t], artifacts[k].sha)
  /\ Goto(t, "replied")
  /\ Forget(t)
  /\ UNCHANGED <<blobs, published, seen>>

Respond404(t) ==
  /\ Upstream(t)
  /\ IF key[t] \in FallsBack THEN NextUrl(t, notFound[t]) ELSE Fail(t, "NotFound")
  /\ UNCHANGED store

(* 5xx, or an httpx error before the headers.                               *)
RespondError(t) ==
  /\ Upstream(t)
  /\ NextUrl(t, FALSE)
  /\ UNCHANGED store

(* Any other status: _fetch gives up at once, get_streaming moves on.       *)
RespondOther(t) ==
  /\ Upstream(t)
  /\ IF Buffered(t) THEN Fail(t, "Unavailable") ELSE NextUrl(t, FALSE)
  /\ UNCHANGED store

(* record_attempt or refresh_not_modified raises, whatever the upstream     *)
(* answered.                                                                *)
AttemptFails(t) ==
  /\ "commit" \in Faults
  /\ Upstream(t)
  /\ Fail(t, "Broken")
  /\ UNCHANGED store

StartBody(t) ==
  /\ pc[t] = "ready" /\ Loop
  /\ Goto(t, "streaming")
  /\ UNCHANGED <<store, lock, waiters, key, method, target, cursor, reply>>

(* The client is gone before the first chunk is asked for: a generator that *)
(* never ran does not run its `finally` either.                             *)
Abandon(t) ==
  /\ "abandon" \in Faults
  /\ pc[t] = "ready" /\ Loop
  /\ lock' = [lock EXCEPT ![key[t]] = Leaked]
  /\ Goto(t, "replied")
  /\ Forget(t)
  /\ UNCHANGED <<store, waiters, key, method, reply>>

(* The client goes away during the body: the generator is closed.           *)
Disconnect(t) ==
  /\ pc[t] = "streaming" /\ Loop
  /\ Goto(t, "closing")
  /\ Forget(t)
  /\ UNCHANGED <<store, lock, waiters, key, method, reply>>

(* The row _fetch and _stream_to_cache will write: get records the upstream *)
(* base, which is no file's URL; the others record the URL they asked.      *)
RecordedUrl(t) ==
  IF Buffered(t) /\ KindOf[key[t]] # "pypi" THEN NoUrl ELSE Url(t)

NewRow(t, c, final) ==
  [sha |-> c, up |-> RecordedUrl(t), final |-> final, fresh |-> TRUE]

PublishLast(t) ==  \* mutant: upsert first, then the file
  LET k == key[t] IN
  /\ pc[t] \in {"reading", "streaming"} /\ Loop
  /\ \E c \in Contents, final \in FinalsOf[Url(t)] :
       /\ artifacts' = [artifacts EXCEPT ![k] = NewRow(t, c, final)]
       /\ fetched' = [fetched EXCEPT ![t] = NewRow(t, c, final)]
       /\ seen' = seen \cup {<<Url(t), c>>, <<final, c>>}
  /\ Goto(t, "committing")
  /\ UNCHANGED <<blobs, published, lock, waiters, key, method, target, url, notFound, reply>>

(* The last chunk is in the temporary file: hash it and move it into place. *)
Publish(t) ==
  LET k == key[t] IN
  /\ pc[t] \in {"reading", "streaming"} /\ Loop
  /\ \E c \in Contents, final \in FinalsOf[Url(t)] :
       /\ blobs' = blobs \cup {<<PoolOf[k], c>>}
       /\ published' = [published EXCEPT ![k] = c]
       /\ seen' = seen \cup {<<Url(t), c>>, <<final, c>>}
       /\ fetched' = [fetched EXCEPT ![t] = NewRow(t, c, final)]
  /\ Goto(t, "committing")
  /\ UNCHANGED <<artifacts, lock, waiters, key, method, target, url, notFound, reply>>

(* The body breaks off.  The temporary file is removed.                     *)
BodyFails(t) ==
  /\ pc[t] \in {"reading", "streaming"} /\ Loop
  /\ IF Buffered(t)
     THEN NextUrl(t, FALSE)
     ELSE /\ Goto(t, "closing")
          /\ Answer(t, "Broken", Missing, Missing)
          /\ Forget(t)
          /\ UNCHANGED lock
  /\ UNCHANGED <<store, waiters, key, method>>

(* upsert, and the end of the `async with` for a buffered request.          *)
Commit(t) ==
  LET k == key[t] IN
  /\ pc[t] = "committing"
  /\ artifacts' = [artifacts EXCEPT ![k] = fetched[t]]
  /\ Answer(t, "MISS", FilePath(k, fetched[t]), fetched[t].sha)
  /\ IF Buffered(t)
     THEN lock' = [lock EXCEPT ![k] = NoTask] /\ Goto(t, "replied")
     ELSE Goto(t, "closing") /\ UNCHANGED lock
  /\ Forget(t)
  /\ UNCHANGED <<blobs, published, seen, waiters, key, method>>

(* upsert raises, for instance after 5 s of "database is locked".  A        *)
(* buffered request has sent nothing yet; a streamed one has sent its last  *)
(* chunk.                                                                   *)
CommitFails(t) ==
  /\ "commit" \in Faults
  /\ pc[t] = "committing"
  /\ IF Buffered(t)
     THEN Fail(t, "Broken")
     ELSE /\ Goto(t, "closing")
          /\ Answer(t, "Unkept", fetched[t].sha, fetched[t].sha)
          /\ Forget(t)
          /\ UNCHANGED lock
  /\ UNCHANGED <<store, waiters, key, method>>

(* response.aclose, client.aclose, lock.release.                            *)
Close(t) ==
  /\ pc[t] = "closing" /\ Loop
  /\ lock' = [lock EXCEPT ![key[t]] = NoTask]
  /\ Goto(t, "replied")
  /\ UNCHANGED <<store, waiters, key, method, target, cursor, reply>>

(* The response is out; the task is free for another request.               *)
Leave(t) ==
  /\ pc[t] = "replied"
  /\ Goto(t, "idle")
  /\ key' = [key EXCEPT ![t] = NoKey]
  /\ method' = [method EXCEPT ![t] = "GET"]
  /\ reply' = [reply EXCEPT ![t] = NoReply]
  /\ UNCHANGED <<store, lock, waiters, target, cursor>>

-----------------------------------------------------------------------------
(* The environment *)

(* metadata_ttl_seconds pass.                                               *)
Expire(k) ==
  /\ IsMetadata(k) /\ artifacts[k] # NoRecord
  /\ artifacts[k].fresh
  /\ artifacts' = [artifacts EXCEPT ![k].fresh = FALSE]
  /\ UNCHANGED <<blobs, published, lock, waiters, pc, key, method, target,
                 cursor, reply, seen>>

(* The process dies and starts again: tables and blobs are what is left.    *)
Crash ==
  /\ "crash" \in Faults
  /\ \E t \in Tasks : pc[t] # "idle"
  /\ published' = [k \in Keys |-> Missing]
  /\ lock' = [k \in Keys |-> NoTask]
  /\ waiters' = [k \in Keys |-> <<>>]
  /\ pc' = [t \in Tasks |-> "idle"]
  /\ key' = [t \in Tasks |-> NoKey]
  /\ method' = [t \in Tasks |-> "GET"]
  /\ target' = [t \in Tasks |-> Missing]
  /\ url' = [t \in Tasks |-> 1]
  /\ notFound' = [t \in Tasks |-> TRUE]
  /\ fetched' = [t \in Tasks |-> NoRecord]
  /\ reply' = [t \in Tasks |-> NoReply]
  /\ UNCHANGED <<artifacts, blobs, seen>>

(* A blob disappears from disk, by hand or because a rename that was never  *)
(* synced is undone by a power cut.                                         *)
LoseBlob(b) ==
  /\ "loss" \in Faults
  /\ b \in blobs
  /\ blobs' = blobs \ {b}
  /\ UNCHANGED <<artifacts, published, seen, lock, waiters, pc, key, method,
                 target, cursor, reply>>

-----------------------------------------------------------------------------
Handle(t) ==
  \/ WakeHit(t) \/ WakeReuse(t) \/ WakeOpen(t) \/ WakeFails(t)
  \/ Respond200(t) \/ Respond304(t) \/ Respond404(t)
  \/ RespondError(t) \/ RespondOther(t) \/ AttemptFails(t)
  \/ StartBody(t) \/ Abandon(t) \/ Disconnect(t)
  \/ Publish(t) \/ BodyFails(t) \/ Commit(t) \/ CommitFails(t) \/ Close(t)

Request(t, k, m) ==
  \/ FastHit(t, k, m) \/ ArriveReuse(t, k, m) \/ ArriveOpen(t, k, m)
  \/ ArriveWait(t, k, m) \/ ArriveFails(t, k, m)

Next ==
  \/ \E t \in Tasks, k \in Keys, m \in Methods : Request(t, k, m)
  \/ \E t \in Tasks : Handle(t) \/ Leave(t)
  \/ \E k \in Keys : Expire(k)
  \/ \E b \in Pools \X Contents : LoseBlob(b)
  \/ Crash

Spec == Init /\ [][Next]_vars

(* The event loop runs what is ready in the order it became ready, so a     *)
(* coroutine is not passed over for ever because others block the loop now  *)
(* and then; an upstream answers or times out; a client reads its body or   *)
(* goes away.  Nothing obliges clients to come.                             *)
LiveSpec == Spec /\ \A t \in Tasks : SF_vars(Handle(t))
-----------------------------------------------------------------------------
(* Properties *)

TablesOK ==
  /\ artifacts \in [Keys -> Record \cup {NoRecord}]
  /\ blobs \subseteq Pools \X Contents
  /\ published \in [Keys -> Contents \cup {Missing}]
  /\ seen \subseteq Urls \X Contents

LocksOK ==
  /\ lock \in [Keys -> Tasks \cup {NoTask, Leaked}]
  /\ waiters \in [Keys -> Seq(Tasks)]

PhasesOK ==
  /\ pc \in [Tasks -> Phases]
  /\ key \in [Tasks -> Keys \cup {NoKey}]
  /\ \A t \in Tasks : pc[t] # "idle" => key[t] \in Keys
  /\ method \in [Tasks -> {"HEAD", "GET"}]

LocalsOK ==
  /\ target \in [Tasks -> Contents \cup {Missing}]
  /\ url \in [Tasks -> Nat \ {0}]
  /\ \A t \in Tasks : key[t] \in Keys => url[t] <= Len(UrlsOf[key[t]])
  /\ \A t \in Tasks :
       pc[t] \in {"idle", "waiting", "closing", "replied"} => url[t] = 1
  /\ notFound \in [Tasks -> BOOLEAN]
  /\ fetched \in [Tasks -> Record \cup {NoRecord}]
  /\ \A t \in Tasks : pc[t] = "committing" => fetched[t] \in Record

ReplyOK ==
  reply \in [Tasks -> [status : Statuses, file : Contents \cup {Missing},
                       sha : Contents \cup {Missing}]]

(* Every variable stays in its set, and a task at work has a key, an index  *)
(* inside the key's list of URLs, and a row to commit when it commits.      *)
TypeOK == TablesOK /\ LocksOK /\ PhasesOK /\ LocalsOK /\ ReplyOK

(* No two requests ever download the same key at the same time.             *)
SingleFlight ==
  \A t1, t2 \in Tasks :
    pc[t1] \in Holding /\ pc[t2] \in Holding /\ key[t1] = key[t2] => t1 = t2

(* A row never names bytes that are not on disk, whatever crash or failing  *)
(* SQLite call hits between publishing a file and registering it.           *)
RecordHasBlob ==
  \A k \in Keys : artifacts[k] # NoRecord => <<PoolOf[k], artifacts[k].sha>> \in blobs

(* Whichever routes share a file by URL, the bytes registered for a key     *)
(* were served by one of the key's own upstream URLs.                       *)
Provenance ==
  \A k \in Keys : artifacts[k] # NoRecord =>
    \E i \in DOMAIN UrlsOf[k] : <<UrlsOf[k][i], artifacts[k].sha>> \in seen

(* Upstream is only asked for an archive while it is missing: a request     *)
(* that slept on the lock does not download again what came meanwhile.      *)
FetchOnlyMissing ==
  \A t \in Tasks :
    pc[t] \in {"opening", "reading", "ready", "streaming", "committing"} /\ ~IsMetadata(key[t])
      => ~Servable(key[t], FilePath(key[t], artifacts[key[t]]))

(* The X-Cache-SHA256 header names the bytes that are sent.                 *)
ReplyMatchesRow ==
  \A t \in Tasks : reply[t].file = reply[t].sha

(* The bytes of a cached archive never change.                              *)
ImmutableArchive ==
  [][\A k \in Keys : ~IsMetadata(k) /\ artifacts[k] # NoRecord =>
       artifacts'[k] # NoRecord /\ artifacts'[k].sha = artifacts[k].sha]_vars

(* To its clients the cache of archives is the cupboard of ArchiveCache.    *)
Shelf == [k \in Keys |->
  IF Servable(k, FilePath(k, artifacts[k])) THEN artifacts[k].sha ELSE Missing]

Given == [t \in Tasks |->
  IF reply[t].status \in {"HIT", "REUSED", "MISS", "Unkept"}
  THEN <<key[t], reply[t].file>> ELSE Missing]

Archive == INSTANCE ArchiveCache WITH Nothing <- Missing, shelf <- Shelf, given <- Given

(* Archive GETs implement the promise: filled once, the same bytes for      *)
(* every client and every restart after that; bytes whose row could not be  *)
(* written go out only while there is no row.                               *)
KeepsArchives == Archive!Spec

(* A stale index becomes fresh by an exchange with an upstream, or by       *)
(* taking over the row of an index found at one of its own URLs: the match  *)
(* of find_by_upstream_url never passes off another file as news.           *)
RenewedAlongUrls ==
  [][\A k \in Keys :
       /\ artifacts[k] # NoRecord /\ ~Fresh(k, artifacts[k])
       /\ artifacts'[k] # NoRecord /\ Fresh(k, artifacts'[k])
       => \/ \E t \in Tasks : key[t] = k /\ pc[t] \in {"opening", "committing"}
          \/ \E j \in Keys, i \in DOMAIN UrlsOf[k] :
               /\ artifacts[j] # NoRecord /\ artifacts[j].sha = artifacts'[k].sha
               /\ IsMetadata(j) /\ PoolOf[j] = PoolOf[k]
               /\ UrlsOf[k][i] \in {artifacts[j].up, artifacts[j].final}]_vars

(* A stale index becomes fresh only by an exchange with an upstream.        *)
FreshnessIsEarned ==
  [][\A k \in Keys :
       /\ artifacts[k] # NoRecord /\ ~Fresh(k, artifacts[k])
       /\ artifacts'[k] # NoRecord /\ Fresh(k, artifacts'[k])
       => \E t \in Tasks : key[t] = k /\ pc[t] \in {"opening", "committing"}]_vars

(* A request that waits for another one's download is answered.             *)
EveryWaiterAnswered ==
  \A t \in Tasks : pc[t] = "waiting" ~> pc[t] = "replied"
=============================================================================

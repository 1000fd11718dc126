# PkgRelay in TLA+

TLA+ models of PkgRelay (`app/`, `client/`), TLC runs that check them on small
instances and TLAPS proofs for every size. Paths below are those of the
repository; `main.py` stands for `app/main.py` and so on.

    tlc -config Gateway_routes.cfg GatewayRoutes.tla     # PROJECT.json lists every run
    tlapm GatewayProofs.tla

## 1. The system

| Component | State | Operations | Interacts with |
| --- | --- | --- | --- |
| Gateway (`gateway.py`, routes in `main.py`) | per-key `asyncio.Lock`s, coroutine locals, bodies being streamed | `get`, `get_url` (answer from a finished file), `get_streaming`, `get_url_streaming` (forward while caching) | store; upstreams over HTTP; clients that hang up |
| Cache store (`store.py`) | table `artifacts`, content-addressed blobs, `_published_paths`, `pypi_links`, `clients`, usage tables | `file_path`, `find_by_upstream_url`, `publish`, `upsert`, `refresh_not_modified`, `register_*` | everybody; one SQLite connection per process |
| Client sync (`sync.py`, `client/cache-sync.sh`) | private caches, the listing and counters of the script | check, upload; prune, `pip cache purge` | store (without the gateway's locks) |
| Client update and version gate (`update-check.sh`, `setenv.sh`, `main.py`) | installed files, `client.conf`, environment of each shell, `clients.client_version` | version query, download, install, register, gate (426) | redeployment (`rebuild.sh`), reset (`reset-cache.sh`) |
| Static delivery (`static_server.py`) | none | Range parsing, bounded write loop | blob directory, read-only |
| PyPI pages (`pypi.py`) | LRU of rendered pages, links | `simple_index`, `artifact`, `artifact_streaming` | gateway, store, worker threads that share the store's connection |
| Importer (`importer.py`) | the archives it has still to do | import of conda and pip caches, dry runs | a second process on the same database and blobs, without the gateway's locks |
| Conda staging (`conda-wrapper.sh`) | one staging directory | cleared before and after a transaction | other shells of the user |
| Usage accounting | daily counters | `record_client_download` | responses, dashboard |
| Configuration (`config.py`) | none | validation at start | |

What makes it hard, and what must hold:

* **Gateway.** Requests interleave at every `await`; the second look under the
  lock uses values read before it; a streamed download is finished by a
  generator that the server may close, or never start; a crash or an SQLite
  error can hit between the file and its row; three different kinds of URL enter
  the index by which routes share files. It must download a key once at a
  time, ask upstream for an archive only while it is missing, never have a row
  without bytes, never give a URL bytes it has not served, keep archives
  unchanged, never pass off another file as a renewed index, and answer who waits.
* **Client sync.** Replies get lost, the script is stopped, caches change under
  it. What it deletes on the strength of its listing must be on the gateway and
  reachable there; what was cached must stay cached.
* **Client update.** Several shells share one directory, the gateway is
  redeployed between any two steps, Ctrl-C hits anywhere, an installed file is
  written in place or its `install` fails unnoticed. A client that counts
  as current must not mix versions, and whoever passes the check must pass the
  gate.
* **PyPI pages.** Imported links are read before the awaits and used after
  them; pages are rendered in threads while the event loop goes on; finished
  ones are kept under a SHA-256. Every link of a page must work, and what was
  imported must be on it.
* **Importer.** It writes file, row and link one after the other next to a
  running gateway and can end anywhere. Imported files must never need an
  upstream, and what a run got through must be served.
* **SQLite connection.** The event loop and the rendering threads share one
  connection, so they share its transactions, and nothing rolls back. What a
  call returned from must be committed, and an error must stay where it happened.
* **Conda staging.** Shells clear one directory under each other, conda fails or
  is interrupted. Nothing must be left over, and nothing old be used.
* **Usage.** Hits are counted before the body, misses after it. An archive must
  count as missed once.
* **Static delivery.** Boundary arithmetic on ranges and blocks.

PROJECT.json lists each hazard at its line with the properties aimed at it.

## 2. Modules

| Module | Models | Notes |
| --- | --- | --- |
| `ArchiveCache` | nothing in the code: what the cache of archives promises | a shelf place is filled once; everyone is handed those bytes; while it is empty, bytes may pass through unkept (`PassOn`) |
| `Gateway` | `gateway.py`, `store.py`, the route handlers | `KeepsArchives` instantiates `ArchiveCache` with the shelf and the replies computed from tables, files and responses |
| `GatewaySync` | the handlers of `sync.py` next to `Gateway` | extends it: `SyncNext` adds three actions on the same tables |
| `ClientSync` | `cache-sync.sh` against those handlers, with failures | |
| `ClientUpdate` | `update-check.sh`, `setenv.sh`, registration, gate, redeployment, reset | |
| `PypiPages` | `pypi.py` on top of `Gateway` | extends it: a request has a page besides its reply |
| `Importer` | `importer.py` next to `PypiPages` | extends it: one more process on the same tables |
| `GatewayUsage` | `record_client_download` and its callers | extends `GatewaySync` by one counter |
| `CondaStaging` | `conda-wrapper.sh` | extends `ClientUpdate`: a shell that has passed the check may run a transaction |
| `StoreConnection` | the writing methods of `store.py` as SQLite transactions | stands alone: below the steps of `Gateway` |
| `StaticDelivery` | `static_server.py` | |
| `GatewayProofs`, `ArchiveProofs`, `GatewaySyncProofs`, `ImporterProofs` | theorems of `Gateway`, its refinement, and of what extends it | `GatewaySyncProofs` and `ImporterProofs` build on the lemmas of `GatewayProofs` and `ArchiveProofs`; see section 5 |
| `ClientSyncProofs`, `ClientUpdateProofs`, `StaticDeliveryProofs`, `StoreConnectionProofs` | theorems of the other modules | `ClientUpdateProofs` covers `CondaStaging` |
| `GatewayRoutes`, `GatewayOneKey`, `GatewayIndexes`, `GatewaySyncMC`, `ClientSyncMC`, `ClientUpdateMC`, `ImporterMC`, `StoreConnectionMC` | instances for TLC | constants, symmetry, and the view of `ImporterMC` |

### Gateway

A task is one request. One action is what its coroutine does between two
awaits; all code of one process runs in one event loop (`Dockerfile` starts a
single Uvicorn worker). The path from arrival through the uncontended lock and
the second look contains no suspension (an `asyncio.Lock` that is free is taken
without yielding), so `ArriveReuse` and `ArriveOpen` are single steps. The only
step that is split further is the synchronous pair publish/upsert: between
`Publish` and `Commit` (phase `committing`) nobody else runs (`Loop`), but a
crash or an SQLite error can hit.

With the fault `commit`, SQLite raises wherever a request writes: in the touch
of a hit and in the upsert or touch of a reuse (`ArriveFails`, `WakeFails`, which
may leave the reused row written), in `record_attempt` and
`refresh_not_modified` (`AttemptFails`), and in the upsert of a download
(`CommitFails`). A buffered request then fails. A streamed one has yielded its
last chunk by then (gateway.py:255-259): the client has the whole body as an
`X-Cache: MISS`, the file is published, and there is no row. Its status is
`Unkept`, and `KeepsArchives` counts its bytes as handed out.

| Phase | Where the coroutine stands |
| --- | --- |
| `idle` | no request |
| `waiting` | `await lock.acquire()` or `async with lock` (gateway.py:79, 110, 140, 172) |
| `opening` | waiting for response headers (208, 330) |
| `reading` | `_fetch` reads the body (352) |
| `ready` | a `StreamingCacheResult` was returned, its body not yet asked for |
| `streaming` | inside `_stream_to_cache` (255) |
| `committing` | between publish and upsert |
| `closing` | in the `finally` of `_stream_to_cache` (272-277) |
| `replied` | the response is out |

`lock[k]` is the task that must still release it; `Leaked` means that no code is
left that would. `waiters[k]` is the FIFO of the lock; a newcomer queues when
somebody is in it. `target` is the path a buffered request captured on arrival.
A row is `[sha, up, final, fresh]`: `up` and `final` are the columns
`find_by_upstream_url` searches. `get` records the upstream base, which is no
file's URL (`NoUrl`); the other routes record the URL they asked. `fresh` says
whether the TTL has passed since `fetched_at`. `seen` is a history variable:
which URL an upstream has served which bytes at.

Abstractions. Bytes are their SHA-256. Of several rows with one URL any may be
the most recently used. A 304 is only answered when validators could have been
sent. Hit counters and the contents of the table of attempts are left out; misses are in `GatewayUsage`. For buffered requests,
closing the HTTP client after the last state change (an await that changes
nothing others see except the lock) is merged with that change. Fallback URLs
share the task's `url` index.

### GatewaySync and ClientSync

`GatewaySync` asks what the handlers do to requests in flight. An offer of a
client is a record `[key, sha, up, final, built]`, the outcome of
`_conda_destination` / `_pip_destination`; `built` marks wheels pip built on
the client, whose `origin.json` names the source distribution. Nobody looks
whether the URL of an offer has served its bytes (sync.py:77 even makes it up from
the first upstream), so offers leave `seen` alone and `ReplyIsFromUrl` keeps the
two sources of bytes apart: an upstream's, or a client's word for this key or
this URL (`Offered`). Everything after the upload's last chunk is one step of
the event loop; `SyncUploadHalf` is that step cut off after `publish`.

`ClientSync` asks what the script may delete. Its steps are the script's
requests and removals; each request is atomic on the gateway, but its answer may
be lost, or the handler be cut off after any of its commits (`CheckCut`,
`UploadCut`). `local` are the archives in private caches, `pending` those other
tools will still add, `traced` those whose origin `urls.txt` still names.
`listed` is what the scan has found: of pip's cache only files with an archive's
suffix (`Listed`), while `pip cache purge` empties it. What a purge takes along
that its script has not listed goes to the history `swept`. `named` says whether
the origin was known when the archive was picked; a file can go before it is
hashed (`PickGone`) or before curl reads it for the upload (`Open`), but once
hashed it can be checked without being there.

### ClientUpdate

`History` is the sequence of deployed versions; a version is a hash of the
client payload (`rebuild.sh`), so a rollback brings back an old value. One
installation, several shells. Each line of the update that touches shared state
is a step: version query, each download, each install, registration, the draft
of `client.conf`, its `mv`, the export. `Setup` is `setenv.sh`, which registers
first and downloads in place: `SetupOpen` is where `curl -o` empties the
installed file, `SetupFetch` where the last byte is there, and between them the
network may fail or the user interrupt. `spoiled` are the installed files whose
last writing was cut off or failed: by a setup, by Ctrl-C during `install`, or by an
`install` whose exit status update-check.sh:41 and 43 do not look at
(`InstallFails`). Writing the draft is one step although `>` truncates first, and
so is the `client.conf` that setenv.sh:102 writes in place. A shell keeps the wrapper functions it has sourced; which
version those functions are is not modelled.

### PypiPages, Importer and GatewayUsage

`PypiPages` wraps every step of a request for an index: `AskForPage` reads the
imported links in the same step in which `Gateway.get` looks for the file, as
the code does without awaiting, and `KeepRecord` keeps the row the request is
answered with. When `Gateway` has replied, `simple_index` goes on: a page made
of imports, an error, a kept page, or `Render` in a thread and `Keep` back on
the event loop. Reading and parsing happen before the look at the kept pages;
as a blob does not change, they are part of `Render`. `links` is the table
`pypi_links`, as the set of files its tokens lead to. A page is the set of files
it links to; `LinksIn` says what an index document holds at the URL it came
from. There is one project; HTML, fragments and attributes are left out.

`Importer` adds the process: `job` is where it stands with the archive at hand.
File, row and link are three steps, and `Die` can come between any two. A
run that finds a pip archive writes its row again and goes on to the link; a
dry run skips the row and still registers the link, as importer.py:306 does.

`GatewayUsage` counts a miss where `tracked_body` does: when the generator has
ended without an exception, that is in `Close` of a request that was answered
`MISS` and not `Unkept`; what clients offer is not counted. The counter stops at `MaxMisses`. Only GETs that name a client are
counted, and the model has one client per request.

### StoreConnection

The other modules take a method of the store for one step. This one looks
inside. A call is one run of a method that writes. Python's sqlite3 (its default
isolation level) looks whether a transaction is open, steps `BEGIN` if not, and
in `commit` looks again and steps `COMMIT`; the interpreter lock is given up
around each step, so a rendering thread gets between. `open`, `pending`
and `pinned` belong to the connection, not to the thread: that is the whole
difficulty. Rows stand for what a statement writes; SQL errors other than those
two of interleaving (`cannot start a transaction within a transaction`, `cannot
commit - no transaction is active`) and `database is locked` are left out.

### CondaStaging

A shell whose check went through (`cleared`) may run a command that changes
packages: `Prepare`, `Run` (the gate of `ClientUpdate`), downloads, `End`.
`staging` remembers whose packages are in the directory and whether their
transaction is still at work. `rm -rf` and `mkdir` are one step. Interrupting
conda may or may not end the shell function; `CutOff` is the case in which it
does, `Break` the one in which it does not.

### StaticDelivery

One request is the whole story, because threads share nothing but read-only
files. A byte is its position in the blob, a body an interval. A Range header
the expression does not match and one with two empty groups are one case: both
are answered 416 (static_server.py:46, 55).

## 3. Runs and what they show

Passing runs (bounds in the .cfg files):

| Run | Instance | Properties |
| --- | --- | --- |
| routes | 2 GETs, 2 routes to one archive with redirect and fallback, 2 contents; crash, SQLite failures, abandon | `TypeOK`, `SingleFlight`, `Provenance`, `RecordHasBlob`, `FetchOnlyMissing`, `ReplyMatchesRow`, `ImmutableArchive`, `KeepsArchives` |
| indexes | 2 GETs, two index documents, one with TTL 0, one that is sometimes redirected; SQLite failures, blobs that vanish | `RenewedAlongUrls`, `EveryWaiterAnswered` |
| pages | 2 requests for a redirected page (2 versions, one without links) and an imported file; an importer with a pip and a Conda archive; crash; room for one kept page | `PagesTypeOK`, `PageLinksWork`, `ImportsAreShown`, `ImportsAreLocal`, `FinishedIsServed` |
| connection | 2 calls of the event loop, one of two statements, 2 pages with a common link, 1 call of the importer; crash | `TypeOK`, `AckedIsCommitted`, `EveryCallEnds` |
| migrate | 2 GETs and clients' offers for a conda, a pip and two imported archives, counted; crash | `RecordHasBlob`, `ReplyIsFromUrl`, `MissesAreFills`, `StaysCached` |
| prune | 2 scripts, one without conda, on two wheels of one source distribution, an HTTP-cache body without a suffix and a conda package; one wheel and the package arrive late; lost replies, stops | `TypeOK`, `NothingLost`, `PrunedIsServed`, `EveryRunEnds` |
| update | 1 shell, 3 versions; network failure, failing `install`, Ctrl-C, reset | `TypeOK`, `CurrentIsComplete`, `FreshStart` |
| shells | 2 shells, 3 versions, conda transactions that fail | `GateAdmitsCurrent`, `CleanWhenIdle`, `ShellsCatchUp` |
| delivery | blobs of 0 to 7 bytes, all ranges of small numbers, blocks of 3 | `TypeOK`, `RangeIsWanted`, `BodyIsPromised` |

Why the bounds suffice: two tasks are a holder and a waiter, three a holder, the
waiter that leaks and the one that suffers; two contents tell old bytes from
new; two URLs are the least with a redirect and a fallback; three versions are
an old, a newer and a still newer one, and two shells can hold two of them.
Tasks and contents are symmetric where no definition chooses among them; the
runs with liveness properties use no symmetry. `pages` compares states by
`Essentials`, which leaves out what no guard and no property reads; one kept page
and two versions are the least with an eviction, and the Conda archive has bytes
of its own so that the two kinds of import are told apart. In `connection` every
call runs once: the two pages are what can meet in threads, the call of two
statements is what can be cut in the middle. `shells` has no failures because
`ShellsCatchUp` is false while they go on for ever; `GateAdmitsCurrent` under
failures is a theorem (section 5). In `prune` the late wheel shares its origin
with one that is there, the body without a suffix can only be swept, and the
shell without conda cannot purge what the other one lists.

Distinct states: routes 75,571, indexes 33,933, pages 937,176, migrate 419,555,
prune 160,375, update 498,330, shells 360,249; the longest run takes about three
minutes with two workers.

Disagreements with the documentation (runs that end in a violation; the quotes
are in PROJECT.json):

* **hang** – the streaming routes return a `CacheResult` from under a manually
  acquired lock. Three GETs of one cold archive are enough: the first downloads,
  the second finds the file and keeps the lock, the third waits forever.
* **stale** – `_reuse_by_url` finds the expired row itself when the recorded
  final URL is the URL asked for, and renews it without a request: of the two ways
  `RenewedAlongUrls` leaves a stale index to become fresh, the second asks nobody.
* **locked_out** – a write that raises leaves its transaction open on the shared
  connection. A lookup in it pins what it saw; when the importer commits next,
  the gateway cannot write any more until it is restarted, and every hit writes.

Further counterexamples, which explain how the passing runs are set up. TLC finds
each of them when the named configuration is changed as stated and checks the
one property.

| Configuration | Change | Property that fails | Why |
| --- | --- | --- | --- |
| `Gateway_hang` | two tasks, `Faults = {"abandon"}`, `CHECK_DEADLOCK FALSE` | `EveryWaiterAnswered` | the lock of a streamed miss is released by the body generator, which never runs when the client leaves before the first chunk |
| `Gateway_hang` | `Spec`, two tasks and contents, `Methods = {"HEAD"}`, `redirects = TRUE` | `FetchOnlyMissing` | `get_url` tests the path it looked up before it waited and downloads a second time |
| `Gateway_hang` | `Spec`, two tasks and contents, `kind = "index"`, `redirects = TRUE` | `ReplyMatchesRow` | `get` sends the old file under the new row's SHA-256 |
| `GatewaySync_migrate` | `Keys = {conda}`, `Archives <- Conda`, `Imports = {}` | `ImmutableArchive` | a client's archive replaces the bytes of a cached conda path |
| `GatewaySync_migrate` | `Keys = {sdist, imported}`, `Archives <- Built`, `Imports = {imported}` | `ReplyIsFromUrl` | a wheel is registered under its source distribution's URL and served for it |
| `ClientSync_prune` | | `NothingSwept` | `pip cache purge` (cache-sync.sh:192) deletes what arrived after the scan and HTTP-cache bodies without a suffix, which line 171 does not find, without having offered them. README.md:176 says "Migrate a user's old archives before pruning them" |
| `ClientSync_prune` | | `PrunedIsLinked` | two wheels of one source distribution share one link: the later one's replaces the first one's |
| `ClientUpdate_one` | | `CurrentIsWhole` | a setup run again (setenv.sh:98) is cut off in the first file, which stays truncated while `client.conf` names the current version |
| `ClientUpdate_one` | `Faults = {"install"}` | `CurrentIsWhole` | `install` fails, the update goes on to registration and `client.conf` (update-check.sh:41-65) |
| `ClientUpdate_one` | `History <- Rollback` | `CurrentIsComplete` | the files of a withdrawn version stay under the version that counts as current |
| `ClientUpdate_shared` | `StagingSpec` | `CurrentIsComplete` | the slower of two shells installs old files over new ones, is refused registration, and leaves them under a `client.conf` that counts as current (update-check.sh:2 says "Atomically refresh") |
| `ClientUpdate_shared` | `StagingSpec` | `KeepsDownloads` | a second shell's transaction clears what the first one has downloaded |
| `Importer` | | `KeptPageIsItsIndex` | a request that slept on the lock parses the file it captured on arrival (the counterexample to `ReplyMatchesRow`) and keeps the page under the SHA-256 of the new row: the old page is served until the index changes again |
| `StoreConnection` | | `WholePages` | store.py:478 says "in one SQLite transaction"; a commit of the event loop ends that transaction after the first row, and a later row fails |
| `ClientUpdate_one` | | `GateAdmitsCurrent` | after `reset-cache.sh` the check passes and the gate refuses |

So `routes` restricts clients to GET and leaves blobs alone; `indexes` stays on
the routes that hold the lock in `async with`; `migrate` has one client per
conda path and no wheels built on clients; `prune` speaks of what scripts have
listed; `update` has one shell and versions that never return, and
`CurrentIsComplete` speaks of the files that are whole; `shells` has no reset.

## 4. Fairness

* `Gateway!LiveSpec`: strong fairness of what a task does next. A coroutine that is
  ready can run only between the stretches in which another one blocks the
  event loop with SQLite, and the loop runs ready callbacks in the order in which
  they became ready, so none is passed over for ever; httpx has timeouts for
  connecting, reading and writing, so an upstream answers or fails; a client
  reads its body or goes away. Arrival of requests is not fair.
* `ClientSync!LiveSpec`: weak fairness of the script's steps. That each curl
  returns is an assumption: cache-sync.sh:126 and 143 set no `--max-time`, and
  on a connection that stays silent a run would not end. Archives need not arrive.
* `CondaStaging!LiveStagingSpec`: weak fairness of each shell's steps, which includes
  that commands go on being typed: `ShellsCatchUp` is about shells that are used.
  Setup, reopening and redeployment are not fair. A conda command ends: `End` is
  fair by itself, because two shells can clear and download in turn for ever.
* `StoreConnection!LiveSpec`: weak fairness of each call's steps. Threads and processes
  are scheduled, and SQLite gives up waiting for another writer after
  `busy_timeout`. That calls are made is not fair, nor is `Select`.

## 5. Proofs

Every safety invariant and every safety action property that a passing run
checks is also a theorem, for all constants that satisfy the ASSUMEs of the
modules:

| Theorem | States | Beyond the ASSUMEs |
| --- | --- | --- |
| `GatewayProofs!TypeCorrect` | `Spec => []TypeOK` | |
| `GatewayProofs!OneFlight` | `Spec => []SingleFlight` | |
| `GatewayProofs!RowsHaveBlobs` | `Spec => []RecordHasBlob` | no loss |
| `GatewayProofs!RowsHaveASource` | `Spec => []Provenance` | |
| `GatewayProofs!ArchivesFetchedOnce` | `Spec => []FetchOnlyMissing /\ ImmutableArchive` | no loss, GET |
| `GatewayProofs!RenewalFollowsUrls` | `Spec => RenewedAlongUrls` | |
| `ArchiveProofs!ArchivesAreKept` | `Spec => KeepsArchives` | no loss, GET, archives only |
| `ArchiveProofs!RepliesAreRows` | `Spec => []ReplyMatchesRow` | no loss, GET, archives only |
| `GatewaySyncProofs!SyncTypeCorrect` | `SyncSpec => []TypeOK` | |
| `GatewaySyncProofs!SyncedRowsHaveBlobs` | `SyncSpec => []RecordHasBlob` | no loss |
| `GatewaySyncProofs!MigrationKeepsArchives` | `SyncSpec => StaysCached` | no loss |
| `GatewaySyncProofs!RepliesAreFromUrl` | `SyncSpec => []ReplyIsFromUrl` | `BuiltStandApart` |
| `GatewaySyncProofs!StatisticsOnlyWatch` | `UsageSpec => SyncSpec` | |
| `GatewaySyncProofs!MissesCountedOnce` | `UsageSpec => []MissesAreFills` | no loss |
| `ImporterProofs!ImportTypeCorrect` | `ImportSpec => []TypeOK` | |
| `ImporterProofs!PagesTypeCorrect` | `ImportSpec => []PagesTypeOK` | |
| `ImporterProofs!PagesLinkToFiles` | `ImportSpec => []PageLinksWork` | |
| `ImporterProofs!OneFlightWithImporter` | `ImportSpec => []SingleFlight` | |
| `ImporterProofs!ImportedRowsHaveBlobs` | `ImportSpec => []RecordHasBlob` | no loss |
| `ImporterProofs!ImportsReachPages` | `ImportSpec => []ImportsAreShown` | no loss |
| `ImporterProofs!ImportsStayLocal` | `ImportSpec => []ImportsAreLocal` | no loss |
| `ImporterProofs!FinishedStaysServed` | `ImportSpec => []FinishedIsServed` | no loss |
| `StoreConnectionProofs!TypeCorrect` | `Spec => []TypeOK` | |
| `StoreConnectionProofs!ReturnedMeansCommitted` | `Spec => []AckedIsCommitted` | |
| `StaticDeliveryProofs!DeliveryTypeCorrect` | `Spec => []TypeOK` | |
| `StaticDeliveryProofs!RangesAreHonoured` | `Spec => []RangeIsWanted` | |
| `StaticDeliveryProofs!BodiesAreComplete` | `Spec => []BodyIsPromised` | |
| `ClientUpdateProofs!TypeCorrect`, `WrappedTypeCorrect` | `Spec => []TypeOK`, `StagingSpec => []TypeOK` | |
| `ClientUpdateProofs!CheckedShellsPassTheGate`, `WrappedShellsPassTheGate` | `Spec`, `StagingSpec => []GateAdmitsCurrent` | no rollback, no reset |
| `ClientUpdateProofs!CurrentClientsAreComplete`, `WrappedClientsAreComplete` | `Spec`, `StagingSpec => []CurrentIsComplete` | no rollback, one shell |
| `ClientUpdateProofs!StagingIsCleared` | `StagingSpec => []CleanWhenIdle` | no interrupt |
| `ClientUpdateProofs!TransactionsStartFresh` | `StagingSpec => []FreshStart` | one shell |
| `ClientSyncProofs!SyncTypeCorrect` | `Spec => []TypeOK` | |
| `ClientSyncProofs!PruneLosesNothing` | `Spec => []NothingLost` | |
| `ClientSyncProofs!PrunedStaysServed` | `Spec => []PrunedIsServed` | `OneFilePerRow` |

"No loss" is `"loss" \notin Faults`: blobs do not vanish from disk. "GET" is
`Methods \subseteq {"GET"}`, what conda and pip send for archives; "archives
only" says that no key is an index. The extra assumptions are the ones whose
absence the violations of section 3 are about:

* `BuiltStandApart`: the URLs of an offer are the one the client gives, or none, and what
  a client built itself names one that no other key is asked for. A wheel built
  from a source distribution that is also asked for breaks it. Of what clients
  offer as downloaded nothing is assumed: `Offered` says whose word it is.
* `OneFilePerRow`: archives of one row are one file. The path of a pip archive
  contains its SHA-256, so this is about Conda files of two channels or builds
  under one name.

*Gateway.* `TypeOK` is inductive. For `SingleFlight` it is strengthened by
`LockOwned`: whoever is between taking the lock and giving it back is the task
`lock` names, so two cannot be. `RecordHasBlob` needs `BytesFirst`: what a task
in `committing` is about to write into the row has been published. `Provenance`
needs `AllWitnessed`: the row a task is about to write is backed by `seen` too,
and a row found by URL stays backed when it is copied to another key. For
`FetchOnlyMissing`, `FetchedIsNew` says that a GET of an archive that has passed
its second look under the lock has found the key without bytes, and because it
is the only one in flight that stays so until it publishes; `OnlyGet` keeps out
the route that does not look again. `RowSource` and `RowStays` are what all of
this has in common: which steps write a row, and that none removes one.
`RenewedAlongUrls` follows from `RowSource` and types alone: a row's new value is a
download's, a stamp, or a row found by URL.

*Refinement.* `ArchivesAreKept` maps the gateway to `ArchiveCache` with the shelf
computed from tables and files and the hand-outs from replies. `ShelfIsTable`:
when every row has its bytes, the shelf of `k` is just the SHA-256 of its row,
so a step changes at most one place, and `FetchedIsNew` says that it was empty.
`Silent`: nobody has been told anything before its phase is `closing` or
`replied`, so a hand-out is never overwritten. A commit that answers is
`FillAndServe`, a streamed body whose upsert raises `PassOn` (`FetchedIsNew`
again: its place is empty), a reused row `FillAndServe` or `Serve`, a hit `Serve`, an error
or a step upstream a stutter, `Crash` is `Restart`.

*GatewaySync, GatewayUsage.* The handlers change tables only, so `LockOwned` and
`Silent` are theirs for free and `BytesFirst` holds because `SyncUpload`
publishes first. For `ReplyIsFromUrl`, `SoundFiles` lists every place a
request can take a file from (rows, downloads on the way into rows,
`_published_paths`, captured paths) and says of each that its bytes are sound for
its key, served there or offered for it; a row's are sound for every key that
is asked for at one of the row's URLs (`Travels`), so copying it is harmless. For `MissesAreFills`, `UsageInv` counts along: a streamed download
is of a key without a counted miss (`DownloadsAreFirst`), and an answer `MISS` that is not
closed yet belongs to a key not counted so far (`FillsAreCountedOnce`). `UsageSpec`
implements `SyncSpec`, so counting disturbs nothing.

*Pages and importer.* `PageInv` holds with every fault. `AtPage` ties a page's
stage to the phase of its request, and says that an answered request with a file
has a base URL for its links: that is the step where the gateway's answers must be followed
through all of `Handle` (`Backed`). `LinksFirst` adds the rendered pages that are not
kept yet to `PageLinksWork`. The lemmas on `Without`, `Append` and `Newest` show
that the cache is a list without repeated keys. `ImportInv` adds, without losses,
the order in which the importer writes (`ImportsInOrder`: a link has a row, a row
has bytes) and who writes which rows (`CondaRows`). A request for an import
therefore finds its row and its bytes before it looks at a lock, and is
answered at once; that an answer which is no error is a file (`Answers`) leaves
`ShowError` to requests that broke or have no imports.

*StoreConnection.* `NothingDropped`: a row a call is done with is committed, or
pending on the call's connection, where only a commit of any of the
connection's threads takes it away. A call that returns found the connection's
transaction closed, so `ClosedIsEmpty` leaves only the first. For the importer
a rollback ends the process (`OneImport`: there is no other call it could hit).

*StaticDelivery.* `Booked`: what the headers promise is what was wanted and lies
inside the blob; position plus remainder is the promise.

*ClientUpdate and CondaStaging.* `Fetched` ties the loop index to the files
downloaded so far. `OnlyDeployed`: nobody remembers a version that is still to
come, so after a redeployment nobody counts as current. `RegisteredFirst`: the
current version reaches the draft, `client.conf` or an environment only through
a registration. `Followed`, for one shell: while the version it is after is
current, all whole files so far are of that version; when it is not, neither is
`client.conf`. A writing that is cut off moves its file into `spoiled` and changes no
other (`BreakOff`). A conda transaction runs in a shell that is past its check
(`AtWork`), so cutting it off (`CutOff`, which is no step of `ClientUpdate`) leaves
these facts alone. `Owned`: packages marked `now` belong to a transaction
that has not ended.

*ClientSync.* One invariant carries both theorems. `Safe(a)`: the gateway has `a`'s
bytes and, under `OneFilePerRow`, hands them out. At `rm` the archive at hand is
safe, and until an archive fails each pip archive the script has listed is still
to be done, being done, or safe (`ScriptOK`); what is gone without having been
swept is safe (`PrunedIsSafe`). A handler makes its own archive safe
(`AnswerMakesSafe`) and no other one unsafe (`HandlerKeepsSafe`), wherever it is
cut off.

TLC checked the inductive invariants on the runs' instances before they were
proved (`ImportInv`, for example, on `Importer.cfg`).

What stays with TLC: the liveness properties (`EveryWaiterAnswered`,
`EveryRunEnds`, `ShellsCatchUp`, `EveryCallEnds`), which need fairness and ENABLED,
and the three runs that end in a violation.

## 6. Not modelled, and the plan

Next:

1. `FetchOnlyMissing` and `ImmutableArchive` next to the importer, which writes rows
   without the lock: what an importer may do to a download in flight, and
   `KeepsArchives` with it.
2. A statement of what `KeptPageIsItsIndex` becomes when requests do not
   sleep on the lock, with its proof.
3. The liveness properties' safety halves: a waiter of a lock that is not leaked
   always has a holder in a phase that some step of the code ends.

Left out for good:

* dashboards, queries and the web page: they only read;
* configuration parsing: what it guarantees (upstreams are not empty, TTLs not
  negative) is in the assumptions of `Gateway`;
* archive and HTML parsing: which archives are accepted and what a page links to
  are constants;
* Conda archives of two channels with one file name, of which the importer takes
  the first: an archive is its destination in `Importer`;
* the rewriting of pip's arguments and `.condarc`, uninstalling;
* the schema upgrade on open: it runs before there are requests;
* growth of the lock table and of orphaned temporary files: a finite model has
  nothing to say about it.

---------------------------- MODULE GatewaySync ----------------------------
(***************************************************************************)
(* Client cache sync (app/sync.py) next to the gateway.  A client offers   *)
(* archives of its own caches; the handlers write the same tables as the   *)
(* gateway but never take its per-key locks.                               *)
(***************************************************************************)
EXTENDS Gateway

CONSTANTS
  Archives,  \* what clients offer, as sync.py resolves it
  Imports    \* the pip keys of import-pip, one per SHA-256 and file name

(* `built` archives were made on the client from the file at `final`, the   *)
(* others were downloaded from there.  A conda row gets the upstream base   *)
(* as upstream_url when its origin is a gateway URL, a pip row the origin   *)
(* in both places.                                                          *)
ASSUME SyncConstants ==
  /\ Archives \subseteq [key : Keys, sha : Contents, up : Urls \cup {NoUrl},
                         final : Urls, built : BOOLEAN]
  /\ \A a, b \in Archives : a.key = b.key /\ a.key \in Imports => a.sha = b.sha

SyncedRow(a) == [sha |-> a.sha, up |-> a.up, final |-> a.final, fresh |-> TRUE]

Requests == <<lock, waiters, pc, key, method, target, cursor, reply>>

RegisterUnchecked(a) ==  \* mutant: does not look for the blob
  artifacts' = [artifacts EXCEPT ![a.key] = SyncedRow(a)]

(* ClientSyncService.register: the upsert replaces whatever row is there.   *)
Register(a) ==
  /\ <<PoolOf[a.key], a.sha>> \in blobs'
  /\ artifacts' = [artifacts EXCEPT ![a.key] = SyncedRow(a)]

(* GET /api/v1/client-sync: 404 unless the bytes are there.                 *)
SyncCheck(a) ==
  /\ Loop
  /\ UNCHANGED blobs
  /\ Register(a)
  /\ UNCHANGED <<published, seen, Requests>>

(* PUT, once the body is in the temporary file: nothing awaits between      *)
(* publish and the end of register.  The path published for is an           *)
(* "uploads/" one that no request asks for.                                 *)
SyncUpload(a) ==
  /\ Loop
  /\ blobs' = blobs \cup {<<PoolOf[a.key], a.sha>>}
  /\ Register(a)
  /\ UNCHANGED <<published, seen, Requests>>

SyncUploadCleansUp(a) ==  \* mutant: a failed upload deletes its destination
  /\ Faults \cap {"crash", "commit"} # {}
  /\ Loop
  /\ blobs' = blobs \ {<<PoolOf[a.key], a.sha>>}
  /\ UNCHANGED <<artifacts, published, seen, Requests>>

(* The same, cut off after publish by a crash or a failing upsert.          *)
SyncUploadHalf(a) ==
  /\ Faults \cap {"crash", "commit"} # {}
  /\ Loop
  /\ blobs' = blobs \cup {<<PoolOf[a.key], a.sha>>}
  /\ UNCHANGED <<artifacts, published, seen, Requests>>

Sync == \E a \in Archives : SyncCheck(a) \/ SyncUpload(a) \/ SyncUploadHalf(a)

(* A token of import-pip that nobody registered is answered with 404.       *)
Linked == \A t \in Tasks : key'[t] \in Imports => artifacts[key'[t]] # NoRecord

SyncNext == (Next /\ Linked) \/ Sync
SyncSpec == Init /\ [][SyncNext]_vars

-----------------------------------------------------------------------------
(* Migrating a client's archives never takes one out of the cache: what a   *)
(* request can be served from stays servable, be it with other bytes.       *)
StaysCached ==
  [][\A k \in Keys : ~IsMetadata(k) /\ Servable(k, FilePath(k, artifacts[k]))
       => Servable(k, FilePath(k, artifacts[k]))']_vars

(* A client says that the file of k is this: it offers the bytes for k, or  *)
(* as what it downloaded from one of k's URLs.                              *)
Offered(k, file) ==
  \E a \in Archives :
    /\ a.sha = file
    /\ \/ a.key = k
       \/ ~a.built /\ \E i \in DOMAIN UrlsOf[k] : UrlsOf[k][i] = a.final

(* Whoever asks for the file at a URL is given bytes an upstream has served *)
(* at that URL, or bytes that came with a client's word for it; never what  *)
(* a client built from the file, and never a file of another URL.           *)
ReplyIsFromUrl ==
  \A t \in Tasks : reply[t].file # Missing =>
    \/ \E i \in DOMAIN UrlsOf[key[t]] : <<UrlsOf[key[t]][i], reply[t].file>> \in seen
    \/ Offered(key[t], reply[t].file)
=============================================================================

------------------------------ MODULE Importer ------------------------------
(***************************************************************************)
(* The importer (app/importer.py), a process of its own next to a running  *)
(* gateway: it shares the tables and the blobs, not the locks and not      *)
(* _published_paths.  For each archive of a Conda or pip cache it looks,   *)
(* copies, writes the row, and registers the link if it is pip's.  It may  *)
(* end anywhere.                                                           *)
(***************************************************************************)
EXTENDS PypiPages

CONSTANTS
  CondaImports,  \* conda keys of import-conda
  ContentOf,     \* import -> bytes of the archive in the cache it comes from
  FileUrl,       \* import -> file:// URL of that archive
  NoImport

Archives == Imports \cup CondaImports

(* What a pip archive comes from is its file; a Conda archive's URL is in   *)
(* urls.txt.                                                                *)
ASSUME ImporterConstants ==
  /\ CondaImports \subseteq {k \in Keys : KindOf[k] = "conda"}
  /\ ContentOf \in [Archives -> Contents]
  /\ FileUrl \in [Archives -> Urls]
  /\ NoImport \notin Archives

VARIABLES
  job,      \* what the process does next, "off" when there is none
  dry,      \* --dry-run
  left,     \* archives the run has still to look at
  current,  \* the archive at hand
  finished  \* archives a run without --dry-run has got through

importVars == <<job, dry, left, current, finished>>
everything == <<allVars, importVars>>

ImportInit ==
  /\ PageInit
  /\ job = "off" /\ dry = FALSE /\ left = {} /\ current = NoImport
  /\ finished = {}

Others == <<published, seen, lock, waiters, pc, key, method, target, cursor, reply,
            imported, final, stage, page, rendered>>

ImportRow(i, c) ==
  [sha |-> c, up |-> UrlsOf[i][1], final |-> FileUrl[i], fresh |-> TRUE]

Start(archives, pretend) ==
  /\ job = "off"
  /\ job' = "looking" /\ left' = archives /\ dry' = pretend
  /\ UNCHANGED <<artifacts, blobs, links, current, finished, Others>>

Present(i) == artifacts[i] # NoRecord /\ IsFile(i, artifacts[i].sha)

Take(i) ==
  /\ job = "looking" /\ i \in left
  /\ left' = left \ {i}
  /\ UNCHANGED <<dry, Others>>

Done(i) == finished' = IF dry THEN finished ELSE finished \cup {i}

SkipDone(i) ==  \* mutant: a pip archive that is there is done as well
  /\ Take(i) /\ Present(i) /\ i \in Imports
  /\ Done(i)
  /\ UNCHANGED <<artifacts, blobs, links, job, current>>

(* The pip archive is there: its row is written again, unless this is a dry *)
(* run, and its link is registered in any case.                             *)
Skip(i) ==
  /\ Take(i) /\ Present(i) /\ i \in Imports
  /\ job' = "linking" /\ current' = i
  /\ artifacts' = IF dry THEN artifacts
                  ELSE [artifacts EXCEPT ![i] = ImportRow(i, artifacts[i].sha)]
  /\ UNCHANGED <<blobs, links, finished>>

SkipConda(i) ==
  /\ Take(i) /\ Present(i) /\ i \in CondaImports
  /\ Done(i)
  /\ UNCHANGED <<artifacts, blobs, links, job, current>>

Count(i) ==
  /\ Take(i) /\ ~Present(i) /\ dry
  /\ UNCHANGED <<artifacts, blobs, links, job, current, finished>>

CopyLinksFirst(i) ==  \* mutant: the link is registered before the row
  /\ Take(i) /\ ~Present(i) /\ ~dry
  /\ blobs' = blobs \cup {<<PoolOf[i], ContentOf[i]>>}
  /\ links' = IF i \in Imports THEN links \cup {i} ELSE links
  /\ job' = "writing" /\ current' = i
  /\ UNCHANGED <<artifacts, finished>>

(* Copy to a temporary file, hash it, move it into place.                   *)
Copy(i) ==
  /\ Take(i) /\ ~Present(i) /\ ~dry
  /\ blobs' = blobs \cup {<<PoolOf[i], ContentOf[i]>>}
  /\ job' = "writing" /\ current' = i
  /\ UNCHANGED <<artifacts, links, finished>>

WriteRow ==
  /\ job = "writing"
  /\ artifacts' = [artifacts EXCEPT ![current] = ImportRow(current, ContentOf[current])]
  /\ IF current \in Imports
     THEN job' = "linking" /\ UNCHANGED <<current, finished>>
     ELSE job' = "looking" /\ current' = NoImport /\ Done(current)
  /\ UNCHANGED <<blobs, links, dry, left, Others>>

RegisterLink ==
  /\ job = "linking"
  /\ links' = links \cup {current}
  /\ Done(current)
  /\ job' = "looking" /\ current' = NoImport
  /\ UNCHANGED <<artifacts, blobs, dry, left, Others>>

Exit ==
  /\ job = "looking" /\ left = {}
  /\ job' = "off" /\ dry' = FALSE
  /\ UNCHANGED <<artifacts, blobs, links, left, current, finished, Others>>

(* Ctrl-C, a full disk, "database is locked".                               *)
Die ==
  /\ job # "off"
  /\ job' = "off" /\ dry' = FALSE /\ left' = {} /\ current' = NoImport
  /\ UNCHANGED <<artifacts, blobs, links, finished, Others>>

ImportStep ==
  \/ \E i \in Archives : Skip(i) \/ SkipConda(i) \/ Count(i) \/ Copy(i)
  \/ WriteRow \/ RegisterLink \/ Exit

(* One kind of cache at a time.                                             *)
Import ==
  \/ \E archives \in (SUBSET Imports) \cup (SUBSET CondaImports), pretend \in BOOLEAN :
       archives # {} /\ Start(archives, pretend)
  \/ ImportStep \/ Die

ImportNext == (PageNext /\ UNCHANGED importVars) \/ Import
ImportSpec == ImportInit /\ [][ImportNext]_everything
-----------------------------------------------------------------------------
(* Properties *)

(* The variables of pages and importer stay in their sets, and the cache of *)
(* pages within its bound, with one entry for a key.                        *)
PagesTypeOK ==
  /\ links \subseteq Files
  /\ imported \in [Tasks -> SUBSET Imports]
  /\ stage \in [Tasks -> {"none", "fetching", "rendered", "shown"}]
  /\ page \in [Tasks -> (SUBSET Files) \cup {NoPage}]
  /\ Len(rendered) <= MaxRendered
  /\ \A i, j \in DOMAIN rendered : rendered[i].key = rendered[j].key => i = j
  /\ job \in {"off", "looking", "writing", "linking"}
  /\ left \subseteq Archives /\ finished \subseteq Archives
  /\ job \in {"writing", "linking"} => current \in Archives

(* Every link of a page handed out, or kept for others, is registered: its  *)
(* token will be found, also after a restart.                               *)
PageLinksWork ==
  /\ \A t \in Tasks : stage[t] = "shown" /\ page[t] # NoPage => page[t] \subseteq links
  /\ \A i \in DOMAIN rendered : rendered[i].page \subseteq links

(* What was imported when a page was asked for is on it, whether the page   *)
(* is rendered or cached and whether an upstream has answered.              *)
ImportsAreShown ==
  \A t \in Tasks :
    stage[t] = "shown" /\ imported[t] # {} /\ reply[t].status # "Broken"
      => page[t] # NoPage /\ imported[t] \subseteq page[t]

(* A page kept for others is the page of the index its entry is named for.  *)
(* A request that slept on the lock breaks it: it parses the file it        *)
(* captured on arrival and keeps the result under the row's new SHA-256.    *)
KeptPageIsItsIndex ==
  \A i \in DOMAIN rendered : \E u \in Urls :
    rendered[i].page = LinksIn[rendered[i].key[2], u]

(* "Imported files are always resolved from a pre-existing local blob":     *)
(* whoever asks for one never gets to an upstream, wherever an importer     *)
(* stopped or is right now.                                                 *)
ImportsAreLocal ==
  \A t \in Tasks : key[t] \in Imports => pc[t] = "replied"

(* An archive that a run of the importer has got through, in one go or      *)
(* after others died half way, is there: a pip archive under its link, a    *)
(* Conda archive for whoever asks for the URL it once came from.            *)
FinishedIsServed ==
  \A i \in finished :
    /\ Servable(i, FilePath(i, artifacts[i]))
    /\ IF i \in Imports THEN i \in links ELSE FindByUpstreamUrl(i, UrlsOf[i][1]) # {}
=============================================================================

------------------------------ MODULE PypiPages ------------------------------
(***************************************************************************)
(* PyPI project pages (app/pypi.py) on top of the gateway.  A page request *)
(* reads the imported links of the project, lets Gateway.get fetch the     *)
(* upstream index, and hands out its links and the imported ones, each     *)
(* registered so that its token can be asked for.  Finished pages without  *)
(* imports are kept in memory under the SHA-256 of the index row.          *)
(*                                                                         *)
(* There is one project; every index key is its page at some source.       *)
(***************************************************************************)
EXTENDS Gateway

CONSTANTS
  Imports,      \* pip keys of import-pip
  Files,        \* what a link can lead to; files that are keys are asked for
  LinksIn,      \* <<index content, final URL>> -> the files its links lead to
  NameOf,       \* file -> file name
  MaxRendered   \* _max_rendered_indexes

(* Upstream links are registered under the name of their source, imported   *)
(* ones under import-pip.                                                   *)
ASSUME PageConstants ==
  /\ Imports \subseteq {k \in Keys : KindOf[k] = "pypi"} \cap Files
  /\ NoKey \notin Files
  /\ LinksIn \in [Contents \X Urls -> SUBSET (Files \ Imports)]
  /\ MaxRendered \in Nat
  /\ "GET" \in Methods

VARIABLES
  links,     \* table pypi_links, as the files its rows lead to
  imported,  \* task -> imported_links, read when the request arrives
  final,     \* task -> result.record.final_url
  stage,     \* task -> how far simple_index is
  page,      \* task -> the links handed out
  rendered   \* _rendered_indexes, least recently used first

NoPage == {NoKey}    \* the answer is an error

pageVars == <<links, imported, final, stage, page, rendered>>
allVars == <<vars, pageVars>>

PageInit ==
  /\ Init
  /\ links = {}
  /\ imported = [t \in Tasks |-> {}]
  /\ final = [t \in Tasks |-> NoUrl]
  /\ stage = [t \in Tasks |-> "none"]
  /\ page = [t \in Tasks |-> NoPage]
  /\ rendered = <<>>

-----------------------------------------------------------------------------
(* Requests *)

(* _imported_links: of links with one file name, one is shown.              *)
ImportedLinks ==
  {s \in SUBSET (Imports \cap links) :
     /\ {NameOf[k] : k \in s} = {NameOf[k] : k \in Imports \cap links}
     /\ \A j, k \in s : NameOf[j] = NameOf[k] => j = k}

(* Gateway.get returns the row as it is when it answers.                    *)
KeepRecord ==
  final' = [t \in Tasks |->
    IF pc[t] # "replied" /\ pc'[t] = "replied" /\ reply'[t].file # Missing
    THEN artifacts'[key'[t]].final ELSE final[t]]

AskForPage(t, k) ==
  /\ IsMetadata(k)
  /\ Request(t, k, "GET")
  /\ KeepRecord
  /\ stage' = [stage EXCEPT ![t] = "fetching"]
  /\ \E s \in ImportedLinks : imported' = [imported EXCEPT ![t] = s]
  /\ UNCHANGED <<links, page, rendered>>

(* get_pypi_link finds the token, or the answer is 404.                     *)
AskForFile(t, k, m) ==
  /\ KindOf[k] = "pypi" /\ k \in links
  /\ Request(t, k, m)
  /\ UNCHANGED pageVars

HandlePage(t) ==
  /\ Handle(t)
  /\ KeepRecord
  /\ UNCHANGED <<links, imported, stage, page, rendered>>

-----------------------------------------------------------------------------
(* simple_index, when Gateway.get is done *)

Fetched(t) == stage[t] = "fetching" /\ pc[t] = "replied"

Readable(t) == reply[t].file # Missing /\ IsFile(key[t], reply[t].file)

(* Imported files come first and shadow upstream files of the same name.    *)
Links(t) ==
  LET names == {NameOf[k] : k \in imported[t]} IN
  imported[t] \cup {k \in LinksIn[<<reply[t].file, final[t]>>] : NameOf[k] \notin names}

Show(t, shown) ==
  /\ page' = [page EXCEPT ![t] = shown]
  /\ stage' = [stage EXCEPT ![t] = "shown"]
  /\ UNCHANGED <<vars, imported, final>>

(* PackageNotFound and UpstreamUnavailable leave the imported links.        *)
ShowImports(t) ==
  /\ Fetched(t) /\ reply[t].status \in {"NotFound", "Unavailable"}
  /\ imported[t] # {}
  /\ links' = links \cup imported[t]
  /\ Show(t, imported[t])
  /\ UNCHANGED rendered

ShowError(t) ==
  /\ Fetched(t) /\ ~Readable(t)
  /\ reply[t].status \in {"NotFound", "Unavailable"} => imported[t] = {}
  /\ Show(t, NoPage)
  /\ UNCHANGED <<links, rendered>>

CacheKey(t) == <<key[t], reply[t].sha>>

Positions(k) == {i \in DOMAIN rendered : rendered[i].key = k}

(* The others: an OrderedDict has one entry for a key.                      *)
Without(k) ==
  IF Positions(k) = {} THEN rendered
  ELSE LET at == CHOOSE i \in Positions(k) : TRUE
       IN  SubSeq(rendered, 1, at - 1) \o SubSeq(rendered, at + 1, Len(rendered))

CachedAnyway(t) == Readable(t) /\ Positions(CacheKey(t)) # {}  \* mutant: for all

(* A finished page is only used, and only kept, when nothing is imported.   *)
Cached(t) == Readable(t) /\ imported[t] = {} /\ Positions(CacheKey(t)) # {}

ShowCached(t) ==
  /\ Fetched(t) /\ Cached(t)
  /\ \E i \in Positions(CacheKey(t)) :
       /\ rendered' = Append(Without(CacheKey(t)), rendered[i])
       /\ Show(t, rendered[i].page)
  /\ UNCHANGED links

RenderRegistersImports(t) ==  \* mutant: upstream links are taken as known
  /\ Fetched(t) /\ Readable(t) /\ ~Cached(t)
  /\ links' = links \cup imported[t]
  /\ page' = [page EXCEPT ![t] = Links(t)]
  /\ stage' = [stage EXCEPT ![t] = "rendered"]
  /\ UNCHANGED <<vars, imported, final, rendered>>

(* _render in a worker thread.  The file was read and parsed in others      *)
(* before the look at the cache, but a blob does not change.                *)
Render(t) ==
  /\ Fetched(t) /\ Readable(t) /\ ~Cached(t)
  /\ links' = links \cup Links(t)
  /\ page' = [page EXCEPT ![t] = Links(t)]
  /\ stage' = [stage EXCEPT ![t] = "rendered"]
  /\ UNCHANGED <<vars, imported, final, rendered>>

NewestOffByOne(entries) ==  \* mutant: one page too many
  SubSeq(entries, IF Len(entries) > MaxRendered + 1 THEN 2 ELSE 1, Len(entries))

Newest(entries) ==
  SubSeq(entries, IF Len(entries) > MaxRendered THEN 2 ELSE 1, Len(entries))

(* The event loop keeps the page and drops the least recently used one.     *)
Keep(t) ==
  /\ stage[t] = "rendered"
  /\ Show(t, page[t])
  /\ rendered' =
       IF imported[t] # {} THEN rendered
       ELSE Newest(Append(Without(CacheKey(t)), [key |-> CacheKey(t), page |-> page[t]]))
  /\ UNCHANGED links

Serve(t) == ShowImports(t) \/ ShowError(t) \/ ShowCached(t) \/ Render(t) \/ Keep(t)

LeavePage(t) ==
  /\ Leave(t)
  /\ stage[t] \in {"none", "shown"}
  /\ imported' = [imported EXCEPT ![t] = {}]
  /\ final' = [final EXCEPT ![t] = NoUrl]
  /\ stage' = [stage EXCEPT ![t] = "none"]
  /\ page' = [page EXCEPT ![t] = NoPage]
  /\ UNCHANGED <<links, rendered>>

CrashPages ==
  /\ Crash
  /\ imported' = [t \in Tasks |-> {}]
  /\ final' = [t \in Tasks |-> NoUrl]
  /\ stage' = [t \in Tasks |-> "none"]
  /\ page' = [t \in Tasks |-> NoPage]
  /\ rendered' = <<>>
  /\ UNCHANGED links

PageNext ==
  \/ \E t \in Tasks, k \in Keys : AskForPage(t, k)
  \/ \E t \in Tasks, k \in Keys, m \in Methods : AskForFile(t, k, m)
  \/ \E t \in Tasks : HandlePage(t) \/ Serve(t) \/ LeavePage(t)
  \/ \E k \in Keys : Expire(k) /\ UNCHANGED pageVars
  \/ \E b \in Pools \X Contents : LoseBlob(b) /\ UNCHANGED pageVars
  \/ CrashPages

PageSpec == PageInit /\ [][PageNext]_allVars
=============================================================================

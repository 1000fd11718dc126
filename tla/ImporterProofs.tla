--------------------------- MODULE ImporterProofs ---------------------------
(* Project pages and the importer, for any number of projects' files, tasks *)
(* and archives: what a page shows can be asked for, what was imported is   *)
(* shown and is served from disk, wherever gateway or importer stopped.     *)
EXTENDS Importer, ArchiveProofs, SequenceTheorems

-----------------------------------------------------------------------------
(* The invariants                                                           *)

Entry == [key : Keys \X (Contents \cup {Missing}), page : SUBSET Files]

NoKeyTwice(entries) ==
  \A i, j \in DOMAIN entries : entries[i].key = entries[j].key => i = j

PagesOK ==
  /\ links \subseteq Files
  /\ imported \in [Tasks -> SUBSET Imports]
  /\ DOMAIN final = Tasks
  /\ stage \in [Tasks -> {"none", "fetching", "rendered", "shown"}]
  /\ page \in [Tasks -> (SUBSET Files) \cup {NoPage}]
  /\ rendered \in Seq(Entry) /\ Len(rendered) <= MaxRendered /\ NoKeyTwice(rendered)

JobOK ==
  /\ job \in {"off", "looking", "writing", "linking"} /\ dry \in BOOLEAN
  /\ left \subseteq Archives /\ finished \subseteq Archives
  /\ job = "writing" => current \in Archives
  /\ job = "linking" => current \in Imports

(* A page is asked for with GET and fetched whole: what Gateway.get returns *)
(* has a row, so a base URL for the links.                                  *)
AtPage(t) ==
  /\ IsMetadata(key[t]) /\ method[t] = "GET"
  /\ pc[t] \notin {"idle", "ready", "streaming", "closing"}
  /\ stage[t] # "fetching" => pc[t] = "replied"
  /\ stage[t] = "fetching" /\ pc[t] = "replied" /\ reply[t].file # Missing => final[t] \in Urls

PageTasks == \A t \in Tasks : stage[t] # "none" => AtPage(t)

(* Links are registered before the page is kept or handed out.              *)
LinksFirst ==
  /\ \A t \in Tasks : stage[t] = "rendered" => page[t] \subseteq links
  /\ PageLinksWork

PageInv == TypeOK /\ PagesOK /\ JobOK /\ PageTasks /\ LinksFirst

(* The order in which the importer writes: bytes, row, link.  So an import  *)
(* with a link has a row, and is finished when its link is there.           *)
ImportsInOrder ==
  /\ job = "writing" => <<PoolOf[current], ContentOf[current]>> \in blobs
  /\ job = "linking" => artifacts[current] # NoRecord
  /\ \A i \in Imports \cap links : artifacts[i] # NoRecord
  /\ \A t \in Tasks : imported[t] \subseteq links
  /\ \A i \in finished : artifacts[i] # NoRecord /\ (i \in Imports => i \in links)

(* Nobody asks for an import-conda key by name.                             *)
CondaRows ==
  /\ \A t \in Tasks : key[t] \in Keys => KindOf[key[t]] # "conda"
  /\ \A i \in CondaImports : artifacts[i] # NoRecord => artifacts[i].up = UrlsOf[i][1]

Errors == {"NotFound", "Unavailable", "Broken"}

(* An answer that is no error is a file, and then the imports are shown.    *)
Answers ==
  \A t \in Tasks :
    stage[t] = "fetching" /\ pc[t] = "replied" =>
      reply[t].status \in Errors \/ IsFile(key[t], reply[t].file)

OnPage(t) ==
  /\ stage[t] = "rendered" => page[t] # NoPage /\ imported[t] \subseteq page[t]
  /\ stage[t] = "shown" /\ imported[t] # {} /\ reply[t].status # "Broken"
       => page[t] # NoPage /\ imported[t] \subseteq page[t]

ImportsOnPage == Answers /\ \A t \in Tasks : OnPage(t)

ImportInv ==
  PageInv /\ BytesFirst /\ ImportsInOrder /\ CondaRows /\ ImportsAreLocal /\ ImportsOnPage

-----------------------------------------------------------------------------
(* The cache of pages                                                       *)

LEMMA WithoutProperties ==
  ASSUME rendered \in Seq(Entry), NoKeyTwice(rendered), NEW k
  PROVE  /\ Without(k) \in Seq(Entry)
         /\ Len(Without(k)) = IF Positions(k) = {} THEN Len(rendered) ELSE Len(rendered) - 1
         /\ NoKeyTwice(Without(k))
         /\ \A i \in DOMAIN Without(k) :
              Without(k)[i].key # k /\ \E j \in DOMAIN rendered : Without(k)[i] = rendered[j]
<1>0. Len(rendered) \in Nat /\ DOMAIN rendered = 1 .. Len(rendered)
  OBVIOUS
<1>1. CASE Positions(k) = {}
  BY <1>0, <1>1 DEF Without, Positions
<1>2. CASE Positions(k) # {}
  <2> DEFINE at == CHOOSE i \in Positions(k) : TRUE
             n == Len(rendered)
             before == SubSeq(rendered, 1, at - 1)
             after == SubSeq(rendered, at + 1, n)
  <2>0. at \in 1 .. n /\ rendered[at].key = k
    BY <1>0, <1>2 DEF Positions
  <2>1. at \in Int /\ n \in Int /\ 1 <= at /\ at <= n
    BY <1>0, <2>0
  <2>2. Without(k) = before \o after
    BY <1>2 DEF Without
  <2> HIDE DEF at
  <2> DEFINE second == at + 1
             old(i) == IF i < at THEN i ELSE i + 1
  <2>3. /\ before \in Seq(Entry) /\ Len(before) = at - 1
        /\ \A i \in 1 .. at - 1 : before[i] = rendered[i]
    <3>1. \A i \in 1 .. at - 1 : rendered[i] \in Entry
      BY <1>0, <2>1
    <3> QED
      BY <2>1, <3>1, SubSeqProperties
  <2>4. /\ after \in Seq(Entry) /\ Len(after) = n - at
        /\ \A i \in 1 .. n - at : after[i] = rendered[at + i]
    <3>1. second \in Int /\ n \in Int /\ \A i \in second .. n : rendered[i] \in Entry
      BY <1>0, <2>1
    <3> HIDE DEF second
    <3>2. /\ SubSeq(rendered, second, n) \in Seq(Entry)
          /\ Len(SubSeq(rendered, second, n)) = IF second <= n THEN n - second + 1 ELSE 0
          /\ \A i \in 1 .. n - second + 1 :
               SubSeq(rendered, second, n)[i] = rendered[second + i - 1]
      BY <3>1, SubSeqProperties
    <3>3. \A i \in 1 .. n - at : second + i - 1 = at + i
      BY <1>0, <2>1 DEF second
    <3>4. n - second + 1 = n - at /\ (second <= n \/ n - at = 0)
      BY <2>1 DEF second
    <3> QED
      BY <3>2, <3>3, <3>4 DEF second
  <2> HIDE DEF before, after
  <2>5. /\ before \o after \in Seq(Entry)
        /\ Len(before \o after) = n - 1
        /\ \A i \in 1 .. n - 1 : (before \o after)[i] = rendered[old(i)]
    <3>1. /\ before \o after \in Seq(Entry)
          /\ Len(before \o after) = Len(before) + Len(after)
          /\ \A i \in 1 .. Len(before) + Len(after) :
               (before \o after)[i] = IF i <= Len(before) THEN before[i] ELSE after[i - Len(before)]
      BY <2>3, <2>4, ConcatProperties
    <3>2. Len(before) + Len(after) = n - 1
      BY <1>0, <2>1, <2>3, <2>4
    <3>3. ASSUME NEW i \in 1 .. n - 1 PROVE (before \o after)[i] = rendered[old(i)]
      <4>1. CASE i < at
        BY <1>0, <2>1, <2>3, <3>1, <3>2, <4>1
      <4>2. CASE i >= at
        <5>1. i - (at - 1) \in 1 .. n - at /\ at + (i - (at - 1)) = i + 1
          BY <1>0, <2>1, <4>2
        <5>2. (before \o after)[i] = after[i - (at - 1)]
          BY <1>0, <2>1, <2>3, <3>1, <3>2, <4>2
        <5> QED
          BY <2>1, <2>4, <4>2, <5>1, <5>2
      <4>3. i < at \/ i >= at
        BY <2>1
      <4> QED
        BY <4>1, <4>2, <4>3
    <3> QED
      BY <3>1, <3>2, <3>3
  <2>6. DOMAIN Without(k) = 1 .. n - 1
    BY <2>2, <2>5
  <2>7. ASSUME NEW i \in 1 .. n - 1
        PROVE  /\ old(i) \in 1 .. n /\ old(i) # at
               /\ \A j \in 1 .. n - 1 : old(i) = old(j) => i = j
    BY <1>0, <2>1
  <2> HIDE DEF old
  <2>8. ASSUME NEW i \in 1 .. n - 1
        PROVE  /\ Without(k)[i] = rendered[old(i)] /\ old(i) \in DOMAIN rendered
               /\ Without(k)[i].key # k
    <3>1. old(i) \in DOMAIN rendered /\ at \in DOMAIN rendered /\ old(i) # at
      BY <1>0, <2>0, <2>7
    <3>2. rendered[old(i)].key # k
      BY <2>0, <3>1 DEF NoKeyTwice
    <3> QED
      BY <2>2, <2>5, <3>1, <3>2
  <2>9. NoKeyTwice(Without(k))
    BY <2>6, <2>7, <2>8 DEF NoKeyTwice
  <2> QED
    BY <1>2, <2>2, <2>5, <2>6, <2>8, <2>9
<1> QED
  BY <1>1, <1>2

(* entries has the pages of old, and perhaps e.                             *)
Adds(entries, old, e) ==
  \A i \in DOMAIN entries : entries[i] = e \/ \E j \in DOMAIN old : entries[i] = old[j]

(* move_to_end, or a new entry.                                             *)
LEMMA MovedToEnd ==
  ASSUME rendered \in Seq(Entry), NoKeyTwice(rendered), NEW e \in Entry,
         NEW k, e.key = k, NEW moved, moved = Append(Without(k), e)
  PROVE  /\ moved \in Seq(Entry) /\ NoKeyTwice(moved)
         /\ Len(moved) = IF Positions(k) = {} THEN Len(rendered) + 1 ELSE Len(rendered)
         /\ Adds(moved, rendered, e)
<1> DEFINE w == Without(k)
<1>1. /\ w \in Seq(Entry) /\ NoKeyTwice(w)
      /\ Len(w) = IF Positions(k) = {} THEN Len(rendered) ELSE Len(rendered) - 1
      /\ \A i \in DOMAIN w : w[i].key # k /\ \E j \in DOMAIN rendered : w[i] = rendered[j]
  BY WithoutProperties
<1>2. Len(rendered) \in Nat /\ (Positions(k) # {} => Len(rendered) >= 1)
  BY DEF Positions
<1> HIDE DEF w
<1>3. /\ Append(w, e) \in Seq(Entry) /\ Len(Append(w, e)) = Len(w) + 1
      /\ \A i \in 1 .. Len(w) : Append(w, e)[i] = w[i]
      /\ Append(w, e)[Len(w) + 1] = e
  BY <1>1, AppendProperties
<1>4. DOMAIN w = 1 .. Len(w) /\ DOMAIN Append(w, e) = 1 .. Len(w) + 1 /\ Len(w) \in Nat
  BY <1>1, <1>3
<1>5. NoKeyTwice(Append(w, e))
  <2>1. ASSUME NEW i \in 1 .. Len(w) + 1, NEW j \in 1 .. Len(w) + 1,
               Append(w, e)[i].key = Append(w, e)[j].key
        PROVE  i = j
    <3>1. i \in 1 .. Len(w) \/ i = Len(w) + 1
      BY <1>4
    <3>2. j \in 1 .. Len(w) \/ j = Len(w) + 1
      BY <1>4
    <3> QED
      BY <1>1, <1>3, <1>4, <2>1, <3>1, <3>2 DEF NoKeyTwice
  <2> QED
    BY <1>4, <2>1 DEF NoKeyTwice
<1>6. \A i \in DOMAIN Append(w, e) :
        Append(w, e)[i] = e \/ \E j \in DOMAIN rendered : Append(w, e)[i] = rendered[j]
  BY <1>1, <1>3, <1>4
<1> QED
  BY <1>1, <1>2, <1>3, <1>5, <1>6 DEF w, Adds

(* popitem(last=False), once: one page too many at most.                    *)
LEMMA NewestProperties ==
  ASSUME NEW entries \in Seq(Entry), NoKeyTwice(entries), Len(entries) <= MaxRendered + 1
  PROVE  /\ Newest(entries) \in Seq(Entry) /\ NoKeyTwice(Newest(entries))
         /\ Len(Newest(entries)) <= MaxRendered
         /\ \A i \in DOMAIN Newest(entries) :
              \E j \in DOMAIN entries : Newest(entries)[i] = entries[j]
<1> DEFINE first == IF Len(entries) > MaxRendered THEN 2 ELSE 1
           newest == SubSeq(entries, first, Len(entries))
<1>0. Len(entries) \in Nat /\ DOMAIN entries = 1 .. Len(entries) /\ first \in Nat /\ first >= 1
  OBVIOUS
<1>1. \A i \in first .. Len(entries) : entries[i] \in Entry
  BY <1>0
<1>2. Len(entries) - first + 1 \in Nat /\ Len(entries) - first + 1 <= MaxRendered
  BY <1>0, PageConstants
<1>3. Newest(entries) = newest
  BY DEF Newest
<1> HIDE DEF first
<1>4. /\ newest \in Seq(Entry) /\ Len(newest) = Len(entries) - first + 1
      /\ \A i \in 1 .. Len(entries) - first + 1 : newest[i] = entries[first + i - 1]
  BY <1>0, <1>1, <1>2, SubSeqProperties
<1> HIDE DEF newest
<1>5. DOMAIN newest = 1 .. Len(entries) - first + 1
  BY <1>4
<1>6. ASSUME NEW i \in DOMAIN newest
      PROVE  first + i - 1 \in DOMAIN entries /\ newest[i] = entries[first + i - 1]
  <2>1. i \in 1 .. Len(entries) - first + 1 /\ i \in Int
    BY <1>0, <1>5
  <2>2. first + i - 1 \in 1 .. Len(entries)
    BY <1>0, <2>1
  <2> QED
    BY <1>0, <1>4, <2>1, <2>2
<1>7. NoKeyTwice(newest)
  <2>1. ASSUME NEW i \in DOMAIN newest, NEW j \in DOMAIN newest, newest[i].key = newest[j].key
        PROVE  i = j
    <3>1. first + i - 1 = first + j - 1
      BY <1>6, <2>1 DEF NoKeyTwice
    <3> QED
      BY <1>0, <1>5, <3>1
  <2> QED
    BY <2>1 DEF NoKeyTwice
<1> QED
  BY <1>2, <1>3, <1>4, <1>6, <1>7

(* What a task adds to the table of links and to its page is known files.   *)
LEMMA LinksType ==
  ASSUME TypeOK, PagesOK, PageTasks, NEW t \in Tasks, Fetched(t)
  PROVE  /\ imported[t] \subseteq Files
         /\ Readable(t) => /\ Links(t) \subseteq Files /\ imported[t] \subseteq Links(t)
                           /\ Links(t) \cap Imports \subseteq imported[t]
         /\ CacheKey(t) \in Keys \X (Contents \cup {Missing})
<1>1. imported[t] \subseteq Imports /\ Imports \subseteq Files
  BY PageConstants DEF PagesOK
<1>2. key[t] \in Keys /\ reply[t].sha \in Contents \cup {Missing}
  BY DEF Fetched, TypeOK, PhasesOK, ReplyOK
<1>3. ASSUME Readable(t)
      PROVE  LinksIn[<<reply[t].file, final[t]>>] \subseteq Files \ Imports
  <2>1. reply[t].file \in Contents /\ final[t] \in Urls
    BY <1>3, PageConstants DEF Readable, Fetched, PageTasks, AtPage, TypeOK, ReplyOK
  <2>2. LinksIn[<<reply[t].file, final[t]>>] \in SUBSET (Files \ Imports)
    BY <2>1, PageConstants
  <2> QED
    BY <2>2
<1> QED
  BY <1>1, <1>2, <1>3 DEF Links, CacheKey

LEMMA ServeKeeps ==
  ASSUME PageInv, NEW t \in Tasks, Serve(t)
  PROVE  PagesOK' /\ LinksFirst'
<1>0. TypeOK /\ PagesOK /\ PageTasks /\ LinksFirst
  BY DEF PageInv
<1>p. /\ rendered \in Seq(Entry) /\ NoKeyTwice(rendered) /\ Len(rendered) <= MaxRendered
      /\ Len(rendered) \in Nat /\ MaxRendered \in Nat
  BY <1>0, PageConstants DEF PagesOK
<1>1. CASE ShowImports(t) \/ ShowError(t)
  <2>1. /\ Fetched(t) /\ rendered' = rendered
        /\ links \subseteq links' /\ links' \subseteq links \cup imported[t]
        /\ \/ page' = [page EXCEPT ![t] = NoPage]
           \/ page' = [page EXCEPT ![t] = imported[t]] /\ imported[t] \subseteq links'
        /\ stage' = [stage EXCEPT ![t] = "shown"] /\ UNCHANGED <<imported, final>>
    BY <1>1 DEF ShowImports, ShowError, Show
  <2>2. imported[t] \subseteq Files
    BY <1>0, <2>1, LinksType
  <2>3. PagesOK'
    BY <1>0, <2>1, <2>2 DEF PagesOK
  <2>4. LinksFirst'
    BY <1>0, <2>1 DEF PagesOK, LinksFirst, PageLinksWork
  <2> QED
    BY <2>3, <2>4
<1>2. CASE ShowCached(t)
  <2>1. PICK i \in Positions(CacheKey(t)) :
          /\ rendered' = Append(Without(CacheKey(t)), rendered[i])
          /\ page' = [page EXCEPT ![t] = rendered[i].page]
          /\ stage' = [stage EXCEPT ![t] = "shown"]
          /\ UNCHANGED <<links, imported, final>>
    BY <1>2 DEF ShowCached, Show
  <2>e. /\ rendered[i] \in Entry /\ rendered[i].key = CacheKey(t)
        /\ Positions(CacheKey(t)) # {} /\ i \in DOMAIN rendered
    BY <1>0, <2>1 DEF Positions, PagesOK
  <2>2. PICK e \in Entry : e = rendered[i]
    BY <2>e
  <2>k. PICK k \in {CacheKey(t)} : e.key = k
    BY <2>2, <2>e
  <2>3. e.page \in SUBSET Files /\ e.page \subseteq links
    BY <1>0, <2>2, <2>e DEF Entry, LinksFirst, PageLinksWork
  <2>4. rendered' = Append(Without(k), e) /\ Positions(k) # {}
    <3>1. k = CacheKey(t)
      OBVIOUS
    <3> QED
      BY <2>1, <2>2, <2>e, <3>1
  <2>m. /\ rendered' \in Seq(Entry) /\ NoKeyTwice(rendered')
        /\ Len(rendered') = IF Positions(k) = {} THEN Len(rendered) + 1 ELSE Len(rendered)
        /\ Adds(rendered', rendered, e)
    BY <1>p, <2>2, <2>k, <2>4, MovedToEnd
  <2>5. /\ rendered' \in Seq(Entry) /\ NoKeyTwice(rendered') /\ Len(rendered') = Len(rendered)
        /\ \A j \in DOMAIN rendered' :
             rendered'[j] = e \/ \E n \in DOMAIN rendered : rendered'[j] = rendered[n]
    BY <2>4, <2>m DEF Adds
  <2>6. PagesOK'
    BY <1>0, <2>1, <2>2, <2>3, <2>5 DEF PagesOK, NoKeyTwice
  <2>7. \A j \in DOMAIN rendered' : rendered'[j].page \subseteq links
    BY <1>0, <2>3, <2>5 DEF LinksFirst, PageLinksWork
  <2>8. LinksFirst'
    BY <1>0, <2>1, <2>2, <2>3, <2>7 DEF PagesOK, LinksFirst, PageLinksWork
  <2> QED
    BY <2>6, <2>8
<1>3. CASE Render(t)
  <2>1. /\ Fetched(t) /\ Readable(t)
        /\ links' = links \cup Links(t) /\ page' = [page EXCEPT ![t] = Links(t)]
        /\ stage' = [stage EXCEPT ![t] = "rendered"]
        /\ UNCHANGED <<imported, final, rendered>>
    BY <1>3 DEF Render
  <2>2. Links(t) \subseteq Files
    BY <1>0, <2>1, LinksType
  <2>3. PagesOK'
    BY <1>0, <2>1, <2>2 DEF PagesOK
  <2>4. LinksFirst'
    BY <1>0, <2>1 DEF PagesOK, LinksFirst, PageLinksWork
  <2> QED
    BY <2>3, <2>4
<1>4. CASE Keep(t)
  <2>1. /\ stage[t] = "rendered" /\ page' = [page EXCEPT ![t] = page[t]]
        /\ stage' = [stage EXCEPT ![t] = "shown"] /\ UNCHANGED <<links, imported, final>>
    BY <1>4 DEF Keep, Show
  <2>2. page[t] \in SUBSET Files /\ page[t] \subseteq links
    BY <1>0, <2>1 DEF PagesOK, LinksFirst
  <2>3. [key |-> CacheKey(t), page |-> page[t]] \in Entry
    <3>1. key[t] \in Keys /\ reply[t].sha \in Contents \cup {Missing}
      BY <1>0, <2>1 DEF PageTasks, AtPage, TypeOK, PhasesOK, ReplyOK
    <3> QED
      BY <2>2, <3>1 DEF Entry, CacheKey
  <2>e. PICK e \in Entry : e = [key |-> CacheKey(t), page |-> page[t]]
    BY <2>3
  <2>k. PICK k \in {CacheKey(t)} : e.key = k
    BY <2>e
  <2>p. e.page = page[t]
    BY <2>e
  <2>6. rendered' = rendered \/ rendered' = Newest(Append(Without(k), e))
    <3>1. k = CacheKey(t)
      OBVIOUS
    <3> QED
      BY <1>4, <2>e, <3>1 DEF Keep
  <2>l. PICK moved : moved = Append(Without(k), e)
    OBVIOUS
  <2>m. /\ moved \in Seq(Entry) /\ NoKeyTwice(moved)
        /\ Len(moved) = IF Positions(k) = {} THEN Len(rendered) + 1 ELSE Len(rendered)
        /\ Adds(moved, rendered, e)
    BY <1>p, <2>e, <2>k, <2>l, MovedToEnd
  <2>4. /\ moved \in Seq(Entry) /\ NoKeyTwice(moved) /\ Len(moved) <= MaxRendered + 1
        /\ \A i \in DOMAIN moved :
             moved[i] = e \/ \E j \in DOMAIN rendered : moved[i] = rendered[j]
    BY <1>p, <2>m DEF Adds
  <2>5. /\ Newest(moved) \in Seq(Entry) /\ NoKeyTwice(Newest(moved))
        /\ Len(Newest(moved)) <= MaxRendered
        /\ \A i \in DOMAIN Newest(moved) : \E j \in DOMAIN moved : Newest(moved)[i] = moved[j]
    BY <2>4, NewestProperties, Zenon
  <2>7. /\ rendered' \in Seq(Entry) /\ NoKeyTwice(rendered') /\ Len(rendered') <= MaxRendered
        /\ \A i \in DOMAIN rendered' : rendered'[i].page \subseteq links
    <3>1. CASE rendered' = rendered
      BY <1>0, <1>p, <3>1 DEF LinksFirst, PageLinksWork
    <3>2. CASE rendered' = Newest(moved)
      <4>1. \A i \in DOMAIN moved : moved[i].page \subseteq links
        BY <1>0, <2>p, <2>2, <2>4 DEF LinksFirst, PageLinksWork
      <4>2. \A i \in DOMAIN Newest(moved) : Newest(moved)[i].page \subseteq links
        BY <2>5, <4>1
      <4> QED
        BY <2>5, <3>2, <4>2
    <3> QED
      BY <2>6, <2>l, <3>1, <3>2
  <2>8. PagesOK'
    BY <1>0, <2>1, <2>2, <2>7 DEF PagesOK, NoKeyTwice
  <2>9. LinksFirst'
    BY <1>0, <2>1, <2>2, <2>7 DEF PagesOK, LinksFirst, PageLinksWork
  <2> QED
    BY <2>8, <2>9
<1> QED
  BY <1>1, <1>2, <1>3, <1>4 DEF Serve

-----------------------------------------------------------------------------
USE GatewayConstants, GatewaySentinels, PageConstants, ImporterConstants

(* What the steps do to the gateway                                         *)

LEMMA PageStep ==
  ASSUME PageNext
  PROVE  [Next]_vars
<1>1. ASSUME NEW t \in Tasks, Serve(t) PROVE UNCHANGED vars
  BY <1>1 DEF Serve, ShowImports, ShowError, ShowCached, Render, Keep, Show
<1> QED
  BY <1>1 DEF PageNext, AskForPage, AskForFile, HandlePage, LeavePage, CrashPages, Next

LEMMA ArchiveType ==
  ASSUME NEW i \in Archives, NEW c \in Contents
  PROVE  /\ i \in Keys /\ ~IsMetadata(i) /\ ContentOf[i] \in Contents
         /\ i \in Imports => KindOf[i] = "pypi"
         /\ i \in CondaImports => KindOf[i] = "conda"
         /\ ImportRow(i, c) \in Record /\ ImportRow(i, c) # NoRecord
         /\ ImportRow(i, c).sha = c /\ ImportRow(i, c).up = UrlsOf[i][1]
<1>1. i \in Keys /\ ~IsMetadata(i) /\ ContentOf[i] \in Contents /\ FileUrl[i] \in Urls
  BY DEF Archives, IsMetadata
<1>2. UrlsOf[i][1] \in Urls
  BY <1>1, UrlsLen
<1>3. ImportRow(i, c) \in Record
  BY <1>1, <1>2 DEF ImportRow, Record
<1>4. ImportRow(i, c).sha = c /\ ImportRow(i, c).up = UrlsOf[i][1]
  BY DEF ImportRow
<1> QED
  BY <1>1, <1>3, <1>4

(* The importer touches no request; it writes a row or a file at a time.    *)
LEMMA ImportFrame ==
  ASSUME Import
  PROVE  UNCHANGED <<published, seen, lock, waiters, pc, key, method, target, url, notFound,
                     fetched, reply, imported, final, stage, page, rendered>>
BY DEF Import, ImportStep, Start, Skip, SkipConda, Count, Copy, Take, WriteRow, RegisterLink,
       Exit, Die, Others, cursor

LEMMA ImportedRow ==
  ASSUME TypeOK, JobOK, Import
  PROVE  /\ blobs \subseteq blobs'
         /\ \/ artifacts' = artifacts
            \/ \E i \in Archives, c \in Contents :
                 /\ artifacts' = [artifacts EXCEPT ![i] = ImportRow(i, c)]
                 /\ \/ <<PoolOf[i], c>> \in blobs
                    \/ job = "writing" /\ i = current /\ c = ContentOf[i]
<1>1. ASSUME NEW i \in Archives, Present(i) PROVE artifacts[i].sha \in Contents
  BY <1>1, ArchiveType DEF Present, IsFile, TypeOK, TablesOK
<1>2. ASSUME NEW i \in Archives, Skip(i)
      PROVE  /\ artifacts' \in {artifacts, [artifacts EXCEPT ![i] = ImportRow(i, artifacts[i].sha)]}
             /\ artifacts[i].sha \in Contents /\ <<PoolOf[i], artifacts[i].sha>> \in blobs
             /\ blobs' = blobs
  BY <1>1, <1>2 DEF Skip, Present, IsFile
<1>3. ASSUME WriteRow
      PROVE  /\ job = "writing" /\ current \in Archives /\ ContentOf[current] \in Contents
             /\ artifacts' = [artifacts EXCEPT ![current] = ImportRow(current, ContentOf[current])]
             /\ blobs' = blobs
  BY <1>3, ArchiveType DEF WriteRow, JobOK
<1>4. ASSUME Import, ~WriteRow, \A i \in Archives : ~Skip(i)
      PROVE  artifacts' = artifacts /\ blobs \subseteq blobs'
  BY <1>4 DEF Import, ImportStep, Start, SkipConda, Count, Copy, RegisterLink, Exit, Die
<1> QED
  BY <1>2, <1>3, <1>4

LEMMA ImportType ==
  ASSUME TypeOK, JobOK, Import
  PROVE  TypeOK'
<1>1. artifacts' \in [Keys -> Record \cup {NoRecord}]
  <2>1. \/ artifacts' = artifacts
        \/ \E i \in Archives, c \in Contents :
             artifacts' = [artifacts EXCEPT ![i] = ImportRow(i, c)]
    BY ImportedRow
  <2>2. \A i \in Archives, c \in Contents : ImportRow(i, c) \in Record
    BY ArchiveType
  <2>3. artifacts \in [Keys -> Record \cup {NoRecord}]
    BY DEF TypeOK, TablesOK
  <2>4. ASSUME NEW i \in Archives, NEW c \in Contents,
               artifacts' = [artifacts EXCEPT ![i] = ImportRow(i, c)]
        PROVE  artifacts' \in [Keys -> Record \cup {NoRecord}]
    BY <2>2, <2>3, <2>4
  <2> QED
    BY <2>1, <2>3, <2>4
<1>2. blobs' \subseteq Pools \X Contents
  <2>1. blobs' = blobs \/ \E i \in Archives : blobs' = blobs \cup {<<PoolOf[i], ContentOf[i]>>}
    BY DEF Import, ImportStep, Start, Skip, SkipConda, Count, Copy, WriteRow, RegisterLink, Exit, Die
  <2>2. \A i \in Archives : PoolOf[i] \in Pools /\ ContentOf[i] \in Contents
    BY ArchiveType
  <2> QED
    BY <2>1, <2>2 DEF TypeOK, TablesOK
<1>3. TablesOK'
  BY <1>1, <1>2, ImportFrame DEF TypeOK, TablesOK
<1>4. LocksOK' /\ PhasesOK' /\ LocalsOK' /\ ReplyOK'
  BY ImportFrame DEF TypeOK, LocksOK, PhasesOK, LocalsOK, ReplyOK
<1> QED
  BY <1>3, <1>4 DEF TypeOK

LEMMA JobNext ==
  ASSUME JobOK, Import \/ UNCHANGED importVars
  PROVE  JobOK'
<1>1. CASE UNCHANGED importVars
  BY <1>1 DEF importVars, JobOK
<1>2. CASE Import
  <2>1. ASSUME NEW archives \in (SUBSET Imports) \cup (SUBSET CondaImports), NEW pretend \in BOOLEAN,
               Start(archives, pretend)
        PROVE  JobOK'
    <3>1. dry' \in BOOLEAN
      BY <2>1 DEF Start
    <3>2. job' = "looking" /\ left' = archives /\ finished' = finished
      BY <2>1 DEF Start
    <3>3. archives \subseteq Archives /\ finished \subseteq Archives
      BY DEF Archives, JobOK
    <3> QED
      BY <3>1, <3>2, <3>3 DEF JobOK
  <2>2. ASSUME NEW i \in Archives, Skip(i) \/ SkipConda(i) \/ Count(i) \/ Copy(i)
        PROVE  JobOK'
    BY <2>2 DEF Skip, SkipConda, Count, Copy, Take, Done, JobOK
  <2>3. CASE WriteRow \/ RegisterLink \/ Exit \/ Die
    BY <2>3 DEF WriteRow, RegisterLink, Exit, Die, Done, JobOK, Archives
  <2> QED
    BY <1>2, <2>1, <2>2, <2>3 DEF Import, ImportStep
<1> QED
  BY <1>1, <1>2

-----------------------------------------------------------------------------
(* What a page request gets from the gateway                                *)

(* Every step of Handle is one coroutine's.                                 *)
LEMMA OneTask ==
  ASSUME TypeOK, NEW t \in Tasks, Handle(t)
  PROVE  /\ pc[t] \notin {"idle", "replied"} /\ pc'[t] # "idle"
         /\ key' = key /\ method' = method
         /\ \A s \in Tasks \ {t} : pc'[s] = pc[s] /\ reply'[s] = reply[s]
<1>0. pc \in [Tasks -> Phases] /\ DOMAIN reply = Tasks
  BY DEF TypeOK, PhasesOK, ReplyOK
<1>1. CASE WakeHit(t) \/ WakeReuse(t) \/ WakeOpen(t) \/ WakeFails(t)
  BY <1>0, <1>1 DEF WakeHit, WakeReuse, WakeOpen, WakeFails, Wake, Reuse, Bind, Open, Fail,
                    Goto, Answer
<1>2. CASE \/ Respond200(t) \/ Respond304(t) \/ Respond404(t)
           \/ RespondError(t) \/ RespondOther(t) \/ AttemptFails(t)
  BY <1>0, <1>2 DEF Respond200, Respond304, Respond404, RespondError, RespondOther,
                    AttemptFails, Upstream, NextUrl, Fail, Goto, Answer
<1>3. CASE \/ StartBody(t) \/ Abandon(t) \/ Disconnect(t) \/ Publish(t)
           \/ BodyFails(t) \/ Commit(t) \/ CommitFails(t) \/ Close(t)
  BY <1>0, <1>3 DEF StartBody, Abandon, Disconnect, Publish, BodyFails, Commit, CommitFails,
                    Close, NextUrl, Fail, Goto, Answer
<1> QED
  BY <1>1, <1>2, <1>3 DEF Handle

(* What an answer with a file has behind it: a row, and bytes on disk if    *)
(* rows have theirs.                                                        *)
Backed(t) ==
  /\ reply'[t].file # Missing => artifacts'[key'[t]] \in Record
  /\ BytesFirst => reply'[t].status \in Errors \/ IsFile(key[t], reply[t].file)'

LEMMA FileAnswer ==
  ASSUME TypeOK, NEW t \in Tasks, NEW k \in Keys, key'[t] = k, NEW row \in Record,
         artifacts'[k] = row, reply'[t].file = FilePath(k, row), UNCHANGED <<blobs, published>>,
         BytesFirst => <<PoolOf[k], row.sha>> \in blobs
  PROVE  Backed(t)
<1>1. BytesFirst => IsFile(k, FilePath(k, row))
  BY DEF FilePath, IsFile
<1> QED
  BY <1>1 DEF Backed, IsFile

LEMMA BoundAnswer ==
  ASSUME TypeOK, NEW t \in Tasks, NEW k \in Keys, NEW m, Reuse(t, k, m),
         key'[t] = k, pc'[t] = "replied"
  PROVE  Backed(t)
<1>1. PICK old \in Reusable(k) : Bind(t, k, m, Renewed(old))
  BY DEF Reuse
<1> DEFINE row == Renewed(old)
<1>2. old \in Record /\ row \in Record /\ row.sha = old.sha
  BY ReusableType, RenewedType DEF TypeOK
<1>3. BytesFirst => <<PoolOf[k], row.sha>> \in blobs
  <2>1. PICK j \in Keys : artifacts[j] = old /\ PoolOf[j] = PoolOf[k]
    BY ReusableType DEF TypeOK
  <2>2. artifacts[j] # NoRecord
    BY <1>2, <2>1
  <2> QED
    BY <1>2, <2>1, <2>2 DEF BytesFirst, RecordHasBlob
<1>4. /\ artifacts' = [artifacts EXCEPT ![k] = row] /\ UNCHANGED <<blobs, published>>
      /\ Answer(t, "REUSED", FilePath(k, row), row.sha) \/ Goto(t, "opening")
  BY <1>1 DEF Bind
<1> HIDE DEF row
<1>5. Answer(t, "REUSED", FilePath(k, row), row.sha)
  BY <1>4 DEF Goto, TypeOK, PhasesOK
<1>6. artifacts'[k] = row /\ reply'[t].file = FilePath(k, row)
  BY <1>4, <1>5 DEF Answer, TypeOK, TablesOK, ReplyOK
<1> QED
  BY <1>2, <1>3, <1>4, <1>6, FileAnswer

(* A HIT, or a 304: the file was there, and its row.                        *)
LEMMA FoundAnswer ==
  ASSUME TypeOK, NEW t \in Tasks, NEW k \in Keys, key'[t] = k, NEW file,
         IsFile(k, file), artifacts'[k] \in Record, reply'[t].file = file, UNCHANGED blobs
  PROVE  Backed(t)
BY DEF Backed, IsFile

LEMMA ErrorAnswer ==
  ASSUME ReplyOK, NEW t \in Tasks, NEW status \in Errors, Answer(t, status, Missing, Missing)
  PROVE  Backed(t)
BY DEF Backed, Answer, ReplyOK

LEMMA RequestAnswer ==
  ASSUME TypeOK, NEW t \in Tasks, NEW k \in Keys, NEW m, Request(t, k, m)
  PROVE  /\ pc[t] = "idle" /\ pc'[t] \in {"opening", "waiting", "replied"}
         /\ key' = [key EXCEPT ![t] = k] /\ method' = [method EXCEPT ![t] = m]
         /\ \A s \in Tasks \ {t} : pc'[s] = pc[s] /\ reply'[s] = reply[s]
         /\ pc'[t] = "replied" => Backed(t)
<1>0. /\ pc \in [Tasks -> Phases] /\ DOMAIN reply = Tasks /\ DOMAIN key = Tasks
      /\ artifacts \in [Keys -> Record \cup {NoRecord}]
  BY DEF TypeOK, TablesOK, PhasesOK, ReplyOK
<1>1. CASE FastHit(t, k, m)
  <2>1. /\ pc[t] = "idle" /\ pc' = [pc EXCEPT ![t] = "replied"]
        /\ key' = [key EXCEPT ![t] = k] /\ method' = [method EXCEPT ![t] = m]
        /\ Servable(k, FilePath(k, artifacts[k]))
        /\ Answer(t, "HIT", FilePath(k, artifacts[k]), artifacts[k].sha)
        /\ UNCHANGED <<artifacts, blobs>>
    BY <1>1 DEF FastHit, Accept, Goto, store
  <2>2. reply'[t].file = FilePath(k, artifacts[k]) /\ \A s \in Tasks \ {t} : reply'[s] = reply[s]
    BY <1>0, <2>1 DEF Answer
  <2>3. IsFile(k, FilePath(k, artifacts[k])) /\ artifacts'[k] \in Record /\ key'[t] = k
    BY <1>0, <2>1 DEF Servable
  <2>4. Backed(t)
    BY <2>1, <2>2, <2>3, FoundAnswer
  <2> QED
    BY <1>0, <2>1, <2>2, <2>4
<1>2. CASE ArriveReuse(t, k, m)
  <2>1. /\ pc[t] = "idle" /\ Reuse(t, k, m)
        /\ key' = [key EXCEPT ![t] = k] /\ method' = [method EXCEPT ![t] = m]
    BY <1>2 DEF ArriveReuse, Arrive, Accept
  <2>2. /\ pc'[t] \in {"opening", "replied"}
        /\ \A s \in Tasks \ {t} : pc'[s] = pc[s] /\ reply'[s] = reply[s]
    BY <1>0, <2>1 DEF Reuse, Bind, Goto, Answer
  <2>3. key'[t] = k
    BY <1>0, <2>1
  <2> QED
    BY <2>1, <2>2, <2>3, BoundAnswer
<1>3. CASE ArriveOpen(t, k, m) \/ ArriveWait(t, k, m)
  BY <1>0, <1>3 DEF ArriveOpen, ArriveWait, Arrive, Accept, Open, Goto
<1>4. CASE ArriveFails(t, k, m)
  <2>1. /\ pc[t] = "idle" /\ pc' = [pc EXCEPT ![t] = "replied"]
        /\ key' = [key EXCEPT ![t] = k] /\ method' = [method EXCEPT ![t] = m]
        /\ Answer(t, "Broken", Missing, Missing)
    BY <1>4 DEF ArriveFails, Accept, Goto
  <2>2. PICK status \in Errors : Answer(t, status, Missing, Missing)
    BY <2>1 DEF Errors
  <2>3. Backed(t)
    BY <2>2, ErrorAnswer DEF TypeOK
  <2> QED
    BY <1>0, <2>1, <2>3 DEF Answer
<1> QED
  BY <1>1, <1>2, <1>3, <1>4 DEF Request

(* A page is fetched whole, so it is never at a body of its own.            *)
LEMMA HandleAnswer ==
  ASSUME TypeOK, NEW t \in Tasks, Handle(t), Buffered(t),
         pc[t] \notin {"ready", "streaming", "closing"}
  PROVE  /\ pc'[t] \notin {"ready", "streaming", "closing"}
         /\ pc'[t] = "replied" => Backed(t)
<1>0. /\ pc \in [Tasks -> Phases] /\ key[t] \in Keys /\ key' = key
      /\ artifacts \in [Keys -> Record \cup {NoRecord}] /\ DOMAIN reply = Tasks
  BY OneTask DEF TypeOK, TablesOK, PhasesOK, ReplyOK
<1>1. CASE WakeHit(t)
  <2> DEFINE file == SecondLook(t, key[t])
  <2>1. /\ pc' = [pc EXCEPT ![t] = "replied"] /\ Servable(key[t], file)
        /\ Answer(t, "HIT", file, artifacts[key[t]].sha) /\ UNCHANGED <<artifacts, blobs>>
    BY <1>1 DEF WakeHit, Goto, store
  <2> HIDE DEF file
  <2>2. IsFile(key[t], file) /\ artifacts'[key[t]] \in Record /\ reply'[t].file = file
    BY <1>0, <2>1 DEF Servable, Answer
  <2> QED
    BY <1>0, <2>1, <2>2, FoundAnswer
<1>2. CASE WakeReuse(t)
  <2>1. Reuse(t, key[t], method[t])
    BY <1>2 DEF WakeReuse
  <2>2. pc'[t] \in {"opening", "replied"}
    BY <1>0, <2>1 DEF Reuse, Bind, Goto
  <2> QED
    BY <1>0, <2>1, <2>2, BoundAnswer
<1>3. CASE WakeOpen(t) \/ Respond200(t) \/ Publish(t)
  BY <1>0, <1>3 DEF WakeOpen, Open, Respond200, Publish, Goto
<1>4. CASE Respond304(t)
  <2>1. /\ pc' = [pc EXCEPT ![t] = "replied"] /\ IsFile(key[t], target[t])
        /\ artifacts[key[t]] # NoRecord /\ blobs' = blobs
        /\ artifacts' = [artifacts EXCEPT ![key[t]] = [artifacts[key[t]] EXCEPT !.fresh = TRUE]]
        /\ Answer(t, "REVALIDATED", target[t], artifacts[key[t]].sha)
    BY <1>4 DEF Respond304, Goto
  <2>2. artifacts[key[t]] \in Record
    BY <1>0, <2>1
  <2>3. [artifacts[key[t]] EXCEPT !.fresh = TRUE] \in Record
    BY <2>2 DEF Record
  <2>4. artifacts'[key[t]] \in Record /\ reply'[t].file = target[t]
    BY <1>0, <2>1, <2>3 DEF Answer
  <2> QED
    BY <1>0, <2>1, <2>4, FoundAnswer
<1>5. ASSUME NEW status \in Errors, Fail(t, status)
      PROVE  pc'[t] = "replied" /\ Backed(t)
  BY <1>0, <1>5, ErrorAnswer DEF Fail, Goto, TypeOK
<1>6. ASSUME NEW none, NextUrl(t, none)
      PROVE  pc'[t] = "opening" \/ (pc'[t] = "replied" /\ Backed(t))
  BY <1>0, <1>5, <1>6 DEF NextUrl, Goto, Errors
<1>7. CASE \/ Respond404(t) \/ RespondError(t) \/ RespondOther(t)
           \/ BodyFails(t) \/ CommitFails(t) \/ AttemptFails(t) \/ WakeFails(t)
  BY <1>5, <1>6, <1>7 DEF Respond404, RespondError, RespondOther, BodyFails, CommitFails,
                          AttemptFails, WakeFails, Errors
<1>8. CASE Commit(t)
  <2>1. /\ pc' = [pc EXCEPT ![t] = "replied"] /\ pc[t] = "committing"
        /\ artifacts' = [artifacts EXCEPT ![key[t]] = fetched[t]]
        /\ Answer(t, "MISS", FilePath(key[t], fetched[t]), fetched[t].sha)
        /\ UNCHANGED <<blobs, published>>
    BY <1>8 DEF Commit, Goto
  <2>2. fetched[t] \in Record /\ (BytesFirst => <<PoolOf[key[t]], fetched[t].sha>> \in blobs)
    BY <2>1 DEF TypeOK, LocalsOK, BytesFirst
  <2>3. artifacts'[key[t]] = fetched[t] /\ reply'[t].file = FilePath(key[t], fetched[t])
    BY <1>0, <2>1 DEF Answer
  <2> QED
    BY <1>0, <2>1, <2>2, <2>3, FileAnswer
<1>9. CASE StartBody(t) \/ Abandon(t) \/ Disconnect(t) \/ Close(t)
  BY <1>9 DEF StartBody, Abandon, Disconnect, Close
<1> QED
  BY <1>1, <1>2, <1>3, <1>4, <1>7, <1>8, <1>9 DEF Handle

-----------------------------------------------------------------------------
(* Pages                                                                    *)

LEMMA SameTask ==
  ASSUME PageTasks, NEW s \in Tasks, stage'[s] = stage[s], pc'[s] = pc[s], key'[s] = key[s],
         method'[s] = method[s], reply'[s] = reply[s], final'[s] = final[s]
  PROVE  stage'[s] # "none" => AtPage(s)'
BY DEF PageTasks, AtPage

LEMMA KeptRecord ==
  ASSUME KeepRecord, NEW s \in Tasks
  PROVE  /\ DOMAIN final' = Tasks
         /\ pc[s] = "replied" \/ pc'[s] # "replied" => final'[s] = final[s]
         /\ pc[s] # "replied" /\ pc'[s] = "replied" /\ Backed(s) /\ reply'[s].file # Missing
              => final'[s] \in Urls
<1>1. \A row \in Record : row.final \in Urls
  BY DEF Record
<1> QED
  BY <1>1 DEF KeepRecord, Backed

LEMMA PageTasksNext ==
  ASSUME TypeOK, PagesOK, PageTasks, PageNext
  PROVE  PageTasks'
<1>0. /\ pc \in [Tasks -> Phases] /\ key \in [Tasks -> Keys \cup {NoKey}]
      /\ method \in [Tasks -> {"HEAD", "GET"}] /\ DOMAIN reply = Tasks
      /\ DOMAIN stage = Tasks /\ DOMAIN final = Tasks
  BY DEF TypeOK, PhasesOK, ReplyOK, PagesOK
<1>1. ASSUME NEW t \in Tasks, NEW k \in Keys, AskForPage(t, k) PROVE PageTasks'
  <2>1. /\ Request(t, k, "GET") /\ IsMetadata(k) /\ KeepRecord
        /\ stage' = [stage EXCEPT ![t] = "fetching"]
    BY <1>1 DEF AskForPage
  <2>2. /\ pc[t] = "idle" /\ pc'[t] \in {"opening", "waiting", "replied"}
        /\ key' = [key EXCEPT ![t] = k] /\ method' = [method EXCEPT ![t] = "GET"]
        /\ \A s \in Tasks \ {t} : pc'[s] = pc[s] /\ reply'[s] = reply[s]
        /\ pc'[t] = "replied" => Backed(t)
    BY <2>1, RequestAnswer
  <2>3. AtPage(t)'
    BY <1>0, <2>1, <2>2, KeptRecord DEF AtPage
  <2>4. ASSUME NEW s \in Tasks \ {t} PROVE stage'[s] # "none" => AtPage(s)'
    <3>1. final'[s] = final[s]
      BY <2>1, <2>2, KeptRecord
    <3> QED
      BY <1>0, <2>1, <2>2, <3>1, SameTask
  <2> QED
    BY <2>3, <2>4 DEF PageTasks
<1>2. ASSUME NEW t \in Tasks, NEW k \in Keys, NEW m \in Methods, AskForFile(t, k, m)
      PROVE  PageTasks'
  <2>1. Request(t, k, m) /\ stage' = stage /\ final' = final
    BY <1>2 DEF AskForFile, pageVars
  <2>2. /\ pc[t] = "idle"
        /\ key' = [key EXCEPT ![t] = k] /\ method' = [method EXCEPT ![t] = m]
        /\ \A s \in Tasks \ {t} : pc'[s] = pc[s] /\ reply'[s] = reply[s]
    BY <2>1, RequestAnswer
  <2>3. stage'[t] = "none"
    BY <2>1, <2>2 DEF PageTasks, AtPage
  <2>4. ASSUME NEW s \in Tasks \ {t} PROVE stage'[s] # "none" => AtPage(s)'
    BY <1>0, <2>1, <2>2, SameTask
  <2> QED
    BY <2>3, <2>4 DEF PageTasks
<1>3. ASSUME NEW t \in Tasks, HandlePage(t) PROVE PageTasks'
  <2>1. Handle(t) /\ KeepRecord /\ stage' = stage
    BY <1>3 DEF HandlePage
  <2>2. /\ pc[t] \notin {"idle", "replied"} /\ pc'[t] # "idle"
        /\ key' = key /\ method' = method
        /\ \A s \in Tasks \ {t} : pc'[s] = pc[s] /\ reply'[s] = reply[s]
    BY <2>1, OneTask
  <2>3. ASSUME stage[t] # "none" PROVE AtPage(t)'
    <3>1. AtPage(t) /\ stage[t] = "fetching" /\ Buffered(t)
      BY <2>2, <2>3 DEF PageTasks, AtPage, Buffered, Streams
    <3>2. /\ pc'[t] \notin {"ready", "streaming", "closing"}
          /\ pc'[t] = "replied" => Backed(t)
      BY <2>1, <3>1, HandleAnswer DEF AtPage
    <3> QED
      BY <2>1, <2>2, <3>1, <3>2, KeptRecord DEF AtPage
  <2>4. ASSUME NEW s \in Tasks \ {t} PROVE stage'[s] # "none" => AtPage(s)'
    <3>1. final'[s] = final[s]
      BY <2>1, <2>2, KeptRecord
    <3> QED
      BY <2>1, <2>2, <3>1, SameTask
  <2> QED
    BY <2>1, <2>3, <2>4 DEF PageTasks
<1>4. ASSUME NEW t \in Tasks, Serve(t) PROVE PageTasks'
  <2>1. /\ UNCHANGED <<pc, key, method, reply, final>>
        /\ stage[t] # "none" /\ pc[t] = "replied"
        /\ stage' \in {[stage EXCEPT ![t] = "rendered"], [stage EXCEPT ![t] = "shown"]}
    BY <1>4 DEF Serve, ShowImports, ShowError, ShowCached, Render, Keep, Show, Fetched, vars,
                PageTasks, AtPage
  <2>2. AtPage(t)'
    BY <1>0, <2>1 DEF PageTasks, AtPage
  <2>3. ASSUME NEW s \in Tasks \ {t} PROVE stage'[s] # "none" => AtPage(s)'
    BY <1>0, <2>1, SameTask
  <2> QED
    BY <2>2, <2>3 DEF PageTasks
<1>5. ASSUME NEW t \in Tasks, LeavePage(t) PROVE PageTasks'
  <2>1. /\ stage' = [stage EXCEPT ![t] = "none"] /\ final' = [final EXCEPT ![t] = NoUrl]
        /\ \A s \in Tasks \ {t} : /\ pc'[s] = pc[s] /\ key'[s] = key[s]
                                  /\ method'[s] = method[s] /\ reply'[s] = reply[s]
    BY <1>0, <1>5 DEF LeavePage, Leave, Goto
  <2>2. ASSUME NEW s \in Tasks \ {t} PROVE stage'[s] # "none" => AtPage(s)'
    BY <1>0, <2>1, SameTask
  <2> QED
    BY <1>0, <2>1, <2>2 DEF PageTasks
<1>6. ASSUME \/ \E k \in Keys : Expire(k) /\ UNCHANGED pageVars
             \/ \E b \in Pools \X Contents : LoseBlob(b) /\ UNCHANGED pageVars
      PROVE  PageTasks'
  <2>1. UNCHANGED <<pc, key, method, reply, final, stage>>
    BY <1>6 DEF Expire, LoseBlob, pageVars
  <2> QED
    BY <2>1 DEF PageTasks, AtPage
<1>7. CASE CrashPages
  BY <1>7 DEF CrashPages, PageTasks
<1> QED
  BY <1>1, <1>2, <1>3, <1>4, <1>5, <1>6, <1>7 DEF PageNext

LEMMA PageNextKeeps ==
  ASSUME PageInv, PageNext
  PROVE  PagesOK' /\ LinksFirst'
<1>0. TypeOK /\ PagesOK /\ LinksFirst
  BY DEF PageInv
<1>1. ASSUME NEW t \in Tasks, NEW k \in Keys, AskForPage(t, k) PROVE PagesOK' /\ LinksFirst'
  <2>1. /\ stage' = [stage EXCEPT ![t] = "fetching"] /\ UNCHANGED <<links, page, rendered>>
        /\ \E s \in SUBSET Imports : imported' = [imported EXCEPT ![t] = s]
        /\ DOMAIN final' = Tasks
    BY <1>1 DEF AskForPage, ImportedLinks, KeepRecord
  <2> QED
    BY <1>0, <2>1 DEF PagesOK, LinksFirst, PageLinksWork
<1>2. ASSUME NEW t \in Tasks, HandlePage(t) PROVE PagesOK' /\ LinksFirst'
  <2>1. UNCHANGED <<links, imported, stage, page, rendered>> /\ DOMAIN final' = Tasks
    BY <1>2 DEF HandlePage, KeepRecord
  <2> QED
    BY <1>0, <2>1 DEF PagesOK, LinksFirst, PageLinksWork
<1>3. ASSUME NEW t \in Tasks, LeavePage(t) PROVE PagesOK' /\ LinksFirst'
  BY <1>0, <1>3 DEF LeavePage, PagesOK, LinksFirst, PageLinksWork
<1>4. CASE CrashPages
  <2>1. /\ links' = links /\ rendered' = <<>> /\ DOMAIN final' = Tasks
        /\ imported' = [t \in Tasks |-> {}] /\ page' = [t \in Tasks |-> NoPage]
        /\ stage' = [t \in Tasks |-> "none"]
    BY <1>4 DEF CrashPages
  <2> QED
    BY <1>0, <2>1 DEF PagesOK, LinksFirst, PageLinksWork, NoKeyTwice
<1>5. CASE UNCHANGED pageVars
  BY <1>0, <1>5 DEF pageVars, PagesOK, LinksFirst, PageLinksWork
<1> QED
  BY <1>1, <1>2, <1>3, <1>4, <1>5, ServeKeeps DEF PageNext, AskForFile

LEMMA PageInvInit == ImportInit => PageInv
<1> SUFFICES ASSUME ImportInit PROVE PageInv
  OBVIOUS
<1>1. TypeOK
  BY InitType DEF ImportInit, PageInit
<1>2. PagesOK /\ LinksFirst /\ PageTasks
  BY DEF ImportInit, PageInit, PagesOK, LinksFirst, PageLinksWork, PageTasks, NoKeyTwice
<1>3. JobOK
  BY DEF ImportInit, JobOK
<1> QED
  BY <1>1, <1>2, <1>3 DEF PageInv

LEMMA ImportKeepsPages ==
  ASSUME PageInv, Import
  PROVE  PagesOK' /\ LinksFirst' /\ PageTasks'
<1>1. UNCHANGED <<pc, key, method, reply, imported, final, stage, page, rendered>>
  BY ImportFrame
<1>2. links \subseteq links' /\ links' \subseteq Files
  BY DEF Import, ImportStep, Start, Skip, SkipConda, Count, Copy, WriteRow, RegisterLink, Exit, Die,
         PageInv, PagesOK, JobOK
<1>3. PageTasks'
  BY <1>1 DEF PageInv, PageTasks, AtPage
<1>4. PagesOK'
  BY <1>1, <1>2 DEF PageInv, PagesOK
<1>5. LinksFirst'
  BY <1>1, <1>2 DEF PageInv, LinksFirst, PageLinksWork
<1> QED
  BY <1>3, <1>4, <1>5

LEMMA PageInvNext == PageInv /\ [ImportNext]_everything => PageInv'
<1> SUFFICES ASSUME PageInv, [ImportNext]_everything PROVE PageInv'
  OBVIOUS
<1>0. TypeOK /\ PagesOK /\ PageTasks /\ LinksFirst /\ JobOK
  BY DEF PageInv
<1>1. CASE PageNext /\ UNCHANGED importVars
  BY <1>0, <1>1, PageStep, NextType, PageTasksNext, PageNextKeeps, JobNext DEF PageInv
<1>2. CASE Import
  BY <1>0, <1>2, ImportType, ImportKeepsPages, JobNext DEF PageInv
<1>3. CASE UNCHANGED everything
  <2>1. UNCHANGED vars /\ UNCHANGED pageVars /\ UNCHANGED importVars
    BY <1>3 DEF everything, allVars
  <2>2. TypeOK' /\ JobOK'
    BY <1>0, <2>1, NextType, JobNext
  <2>3. PagesOK' /\ LinksFirst'
    BY <1>0, <2>1 DEF pageVars, PagesOK, LinksFirst, PageLinksWork
  <2>4. PageTasks'
    BY <1>0, <2>1 DEF vars, pageVars, PageTasks, AtPage
  <2> QED
    BY <2>2, <2>3, <2>4 DEF PageInv
<1> QED
  BY <1>1, <1>2, <1>3 DEF ImportNext

(* The importer writes the gateway's tables without ever putting something  *)
(* else into them, next to requests in any phase.                           *)
THEOREM ImportTypeCorrect == ImportSpec => []TypeOK
<1>1. PageInv => TypeOK
  BY DEF PageInv
<1> QED
  BY <1>1, PageInvInit, PageInvNext, PTL DEF ImportSpec

(* The cache of finished pages keeps to its bound and has one page for a    *)
(* key, however many requests render at the same time.                      *)
THEOREM PagesTypeCorrect == ImportSpec => []PagesTypeOK
<1>1. PageInv => PagesTypeOK
  BY DEF PageInv, PagesOK, JobOK, PagesTypeOK, NoKeyTwice, Archives
<1> QED
  BY <1>1, PageInvInit, PageInvNext, PTL DEF ImportSpec

(* No client is given a page with a link whose token is unknown, whether    *)
(* the page was rendered for it, comes from the cache or lists the imports  *)
(* alone, and no restart in between changes that.                           *)
THEOREM PagesLinkToFiles == ImportSpec => []PageLinksWork
<1>1. PageInv => PageLinksWork
  BY DEF PageInv, LinksFirst
<1> QED
  BY <1>1, PageInvInit, PageInvNext, PTL DEF ImportSpec

-----------------------------------------------------------------------------
(* While nothing outside deletes a blob                                     *)

(* A row of an archive is only written by a request that asks for it.       *)
LEMMA RowIsAskedFor ==
  ASSUME TypeOK, [Next]_vars, NEW k \in Keys, ~IsMetadata(k), artifacts'[k] # artifacts[k]
  PROVE  \E t \in Tasks : key'[t] = k
<1>0. DOMAIN key = Tasks /\ DOMAIN artifacts = Keys
  BY DEF TypeOK, TablesOK, PhasesOK
<1>1. ASSUME NEW t \in Tasks, NEW j \in Keys, NEW m \in Methods, Request(t, j, m)
      PROVE  key'[t] = k
  <2>1. key' = [key EXCEPT ![t] = j]
    BY <1>1, RequestAnswer
  <2>2. Reuse(t, j, m) \/ UseFails(j, FilePath(j, artifacts[j]))
    BY <1>1 DEF Request, FastHit, ArriveReuse, ArriveOpen, ArriveWait, ArriveFails, Open, store
  <2>3. j = k
    BY <2>2, BoundRow, FailedRow
  <2> QED
    BY <1>0, <2>1, <2>3
<1>2. ASSUME NEW t \in Tasks, Handle(t) PROVE key'[t] = k
  <2>1. key' = key
    BY <1>2, OneTask
  <2>2. CASE WakeReuse(t)
    <3>1. key[t] \in Keys
      BY <2>2 DEF WakeReuse, Wake, TypeOK, PhasesOK
    <3> QED
      BY <2>1, <2>2, <3>1, BoundRow DEF WakeReuse
  <2>3. CASE Respond304(t) \/ Commit(t)
    <3>1. \E row : artifacts' = [artifacts EXCEPT ![key[t]] = row]
      BY <2>3 DEF Respond304, Commit
    <3> QED
      BY <1>0, <2>1, <3>1
  <2>4. CASE UNCHANGED artifacts
    BY <2>4
  <2>5. CASE WakeFails(t)
    <3>1. key[t] \in Keys /\ UseFails(key[t], SecondLook(t, key[t]))
      BY <2>5 DEF WakeFails, Wake, TypeOK, PhasesOK
    <3> QED
      BY <2>1, <3>1, FailedRow
  <2> QED
    BY <1>2, <2>2, <2>3, <2>4, <2>5 DEF Handle, WakeHit, WakeOpen, Open, Respond200, Respond404,
         RespondError, RespondOther, AttemptFails, StartBody, Abandon, Disconnect, Publish, BodyFails,
         CommitFails, Close, store
<1>3. ASSUME NEW j \in Keys, Expire(j) PROVE FALSE
  BY <1>0, <1>3 DEF Expire
<1>4. CASE \/ \E t \in Tasks : Leave(t)
           \/ \E b \in Pools \X Contents : LoseBlob(b)
           \/ Crash \/ UNCHANGED vars
  BY <1>4 DEF Leave, LoseBlob, Crash, vars, store
<1> QED
  BY <1>1, <1>2, <1>3, <1>4 DEF Next

(* A page registers no import that was not: it only knows those it has read *)
(* from the table.                                                          *)
LEMMA LinksGrow ==
  ASSUME PageInv, ImportsInOrder, PageNext
  PROVE  /\ links \subseteq links' /\ links' \cap Imports \subseteq links
         /\ \A t \in Tasks : imported'[t] \subseteq links'
<1>0. /\ DOMAIN imported = Tasks /\ TypeOK /\ PagesOK /\ PageTasks
      /\ \A t \in Tasks : imported[t] \subseteq links
  BY DEF PageInv, PagesOK, ImportsInOrder
<1>1. ASSUME NEW t \in Tasks, NEW k \in Keys, AskForPage(t, k)
      PROVE  /\ links' = links
             /\ \E s \in SUBSET links : imported' = [imported EXCEPT ![t] = s]
  BY <1>1 DEF AskForPage, ImportedLinks
<1>2. ASSUME NEW t \in Tasks, Serve(t)
      PROVE  /\ links \subseteq links' /\ links' \cap Imports \subseteq links
             /\ imported' = imported
  <2>1. imported' = imported
    BY <1>2 DEF Serve, ShowImports, ShowError, ShowCached, Render, Keep, Show
  <2>2. CASE Render(t)
    <3>1. Fetched(t) /\ Readable(t) /\ links' = links \cup Links(t)
      BY <2>2 DEF Render
    <3>2. Links(t) \cap Imports \subseteq imported[t]
      BY <1>0, <3>1, LinksType
    <3> QED
      BY <1>0, <2>1, <3>1, <3>2
  <2>3. CASE ~Render(t)
    <3>1. links' \in {links, links \cup imported[t]}
      BY <1>2, <2>3 DEF Serve, ShowImports, ShowError, ShowCached, Keep
    <3> QED
      BY <1>0, <2>1, <3>1
  <2> QED
    BY <2>2, <2>3
<1>3. ASSUME NEW t \in Tasks, LeavePage(t)
      PROVE  links' = links /\ imported' = [imported EXCEPT ![t] = {}]
  BY <1>3 DEF LeavePage
<1>4. CASE CrashPages
  BY <1>4 DEF CrashPages
<1>5. CASE UNCHANGED <<links, imported>>
  BY <1>0, <1>5
<1> QED
  BY <1>0, <1>1, <1>2, <1>3, <1>4, <1>5 DEF PageNext, AskForFile, HandlePage, pageVars

(* The importer's steps keep to the order bytes, row, link.                 *)
LEMMA ImportWrites ==
  ASSUME PageInv, BytesFirst, ImportsInOrder, Import
  PROVE  BytesFirst' /\ ImportsInOrder'
<1>0. /\ TypeOK /\ JobOK /\ DOMAIN artifacts = Keys /\ blobs \subseteq blobs'
      /\ UNCHANGED <<pc, key, fetched, imported>>
  BY ImportedRow, ImportFrame DEF PageInv, TypeOK, TablesOK
<1>1. ASSUME NEW k \in Keys, artifacts[k] # NoRecord PROVE artifacts'[k] # NoRecord
  <2>1. CASE artifacts'[k] # artifacts[k]
    <3>1. PICK i \in Archives, c \in Contents :
            artifacts' = [artifacts EXCEPT ![i] = ImportRow(i, c)]
      BY <1>0, <2>1, ImportedRow
    <3>2. artifacts'[k] = ImportRow(i, c)
      BY <1>0, <2>1, <3>1
    <3> QED
      BY <3>2, ArchiveType
  <2> QED
    BY <1>1, <2>1
<1>2. BytesFirst'
  <2>1. ASSUME NEW k \in Keys, artifacts'[k] # NoRecord
        PROVE  <<PoolOf[k], artifacts'[k].sha>> \in blobs'
    <3>1. CASE artifacts'[k] = artifacts[k]
      BY <1>0, <2>1, <3>1 DEF BytesFirst, RecordHasBlob
    <3>2. CASE artifacts'[k] # artifacts[k]
      <4>1. PICK i \in Archives, c \in Contents :
              /\ artifacts' = [artifacts EXCEPT ![i] = ImportRow(i, c)]
              /\ <<PoolOf[i], c>> \in blobs \/ (job = "writing" /\ i = current /\ c = ContentOf[i])
        BY <1>0, <3>2, ImportedRow
      <4>2. k = i /\ artifacts'[k].sha = c
        BY <1>0, <3>2, <4>1, ArchiveType
      <4>3. <<PoolOf[i], c>> \in blobs
        BY <4>1 DEF ImportsInOrder
      <4> QED
        BY <1>0, <4>2, <4>3
    <3> QED
      BY <3>1, <3>2
  <2>2. RecordHasBlob'
    BY <2>1 DEF RecordHasBlob
  <2> QED
    BY <1>0, <2>2 DEF BytesFirst
<1> DEFINE Finished(f, l) == \A i \in f : artifacts'[i] # NoRecord /\ (i \in Imports => i \in l)
<1>r. \A k \in Keys : artifacts[k] # NoRecord => artifacts'[k] # NoRecord
  BY <1>1
<1>3. /\ \A i \in Imports \cap links : artifacts'[i] # NoRecord
      /\ \A t \in Tasks : imported'[t] \subseteq links
      /\ Finished(finished, links)
  <2>1. Imports \subseteq Keys /\ finished \subseteq Keys
    BY <1>0, ArchiveType DEF JobOK, Archives
  <2> QED
    BY <1>0, <1>r, <2>1 DEF ImportsInOrder
<1>4. ASSUME NEW i \in Archives, Skip(i) PROVE ImportsInOrder'
  <2>1. i \in Keys /\ artifacts'[i] # NoRecord
    BY <1>4, <1>r, ArchiveType DEF Skip, Present
  <2>2. job' = "linking" /\ current' = i /\ UNCHANGED <<links, finished>>
    BY <1>4 DEF Skip
  <2> QED
    BY <1>3, <2>1, <2>2 DEF ImportsInOrder
<1>5. ASSUME NEW i \in Archives, SkipConda(i) PROVE ImportsInOrder'
  <2>1. i \in Keys /\ artifacts'[i] # NoRecord /\ i \notin Imports
    BY <1>5, <1>r, ArchiveType DEF SkipConda, Present
  <2>2. /\ job' = "looking" /\ links' = links
        /\ finished' \in {finished, finished \cup {i}}
    BY <1>5 DEF SkipConda, Take, Done
  <2> QED
    BY <1>3, <2>1, <2>2 DEF ImportsInOrder
<1>6. ASSUME NEW i \in Archives, Copy(i) PROVE ImportsInOrder'
  BY <1>3, <1>6 DEF Copy, ImportsInOrder
<1>7. ASSUME WriteRow PROVE ImportsInOrder'
  <2>1. /\ job = "writing" /\ current \in Archives /\ links' = links
        /\ artifacts' = [artifacts EXCEPT ![current] = ImportRow(current, ContentOf[current])]
        /\ \/ job' = "linking" /\ UNCHANGED <<current, finished>>
           \/ /\ job' = "looking" /\ current \notin Imports
              /\ finished' \in {finished, finished \cup {current}}
    BY <1>0, <1>7 DEF WriteRow, JobOK, Done
  <2>2. artifacts'[current] # NoRecord
    BY <1>0, <2>1, ArchiveType
  <2>3. \A i \in finished' : artifacts'[i] # NoRecord /\ (i \in Imports => i \in links')
    <3>1. \A i \in finished' : i \in finished \/ (i = current /\ current \notin Imports)
      BY <2>1
    <3> QED
      BY <1>3, <2>1, <2>2, <3>1
  <2>4. job' # "writing" /\ (job' = "linking" => artifacts'[current'] # NoRecord)
    BY <2>1, <2>2
  <2> QED
    BY <1>3, <2>1, <2>3, <2>4 DEF ImportsInOrder
<1>8. ASSUME RegisterLink PROVE ImportsInOrder'
  <2>1. /\ current \in Imports /\ links' = links \cup {current} /\ job' = "looking"
        /\ finished' \in {finished, finished \cup {current}}
    BY <1>0, <1>8 DEF RegisterLink, JobOK, Done
  <2>2. current \in Keys /\ artifacts[current] # NoRecord
    BY <1>8, <2>1, ArchiveType DEF RegisterLink, Archives, ImportsInOrder
  <2>3. artifacts'[current] # NoRecord
    BY <1>r, <2>2
  <2>4. \A i \in finished' : artifacts'[i] # NoRecord /\ (i \in Imports => i \in links')
    <3>1. \A i \in finished' : i \in finished \/ i = current
      BY <2>1
    <3> QED
      BY <1>3, <2>1, <2>3, <3>1
  <2>5. \A i \in Imports \cap links' : artifacts'[i] # NoRecord
    BY <1>3, <2>1, <2>3
  <2> QED
    BY <1>3, <2>1, <2>4, <2>5 DEF ImportsInOrder
<1>9. ASSUME UNCHANGED <<links, finished>>, job' \in {"off", "looking"} PROVE ImportsInOrder'
  BY <1>3, <1>9 DEF ImportsInOrder
<1> QED
  BY <1>2, <1>4, <1>5, <1>6, <1>7, <1>8, <1>9 DEF Import, ImportStep, Start, Count, Take, Exit, Die

(* And so do the gateway's.                                                 *)
LEMMA PagesWrite ==
  ASSUME "loss" \notin Faults, PageInv, BytesFirst, ImportsInOrder,
         PageNext, UNCHANGED importVars
  PROVE  BytesFirst' /\ ImportsInOrder'
<1>0. TypeOK /\ JobOK /\ [Next]_vars
  BY PageStep DEF PageInv
<1>1. BytesFirst'
  BY <1>0, BytesNext
<1>2. blobs \subseteq blobs' /\ UNCHANGED <<job, current, finished>>
  BY <1>0, SeenGrows DEF importVars
<1>3. \A i \in Archives : artifacts[i] # NoRecord => artifacts'[i] # NoRecord
  BY <1>0, RowStays, ArchiveType
<1>4. /\ links \subseteq links' /\ links' \cap Imports \subseteq links
      /\ \A t \in Tasks : imported'[t] \subseteq links'
  BY LinksGrow
<1>5. Imports \subseteq Archives /\ finished \subseteq Archives
      /\ (job = "linking" => current \in Archives)
  BY <1>0 DEF Archives, JobOK
<1>6. ImportsInOrder'
  BY <1>2, <1>3, <1>4, <1>5 DEF ImportsInOrder
<1> QED
  BY <1>1, <1>6

(* What a request is for: a page, or a file of pip's with a link.           *)
LEMMA AskedKeys ==
  ASSUME TypeOK, PageNext, NEW t \in Tasks
  PROVE  \/ key'[t] \in {key[t], NoKey}
         \/ key'[t] \in Keys /\ IsMetadata(key'[t])
         \/ key'[t] \in links /\ KindOf[key'[t]] = "pypi"
<1>0. DOMAIN key = Tasks
  BY DEF TypeOK, PhasesOK
<1>1. ASSUME NEW s \in Tasks, NEW k \in Keys, NEW m, Request(s, k, m)
      PROVE  key'[t] \in {key[t], k}
  BY <1>0, <1>1, RequestAnswer
<1>2. CASE \E s \in Tasks, k \in Keys : AskForPage(s, k)
  BY <1>1, <1>2 DEF AskForPage
<1>3. CASE \E s \in Tasks, k \in Keys, m \in Methods : AskForFile(s, k, m)
  BY <1>1, <1>3 DEF AskForFile
<1>4. CASE \E s \in Tasks : HandlePage(s)
  BY <1>4, OneTask DEF HandlePage
<1>5. CASE \E s \in Tasks : Serve(s)
  BY <1>5 DEF Serve, ShowImports, ShowError, ShowCached, Render, Keep, Show, vars
<1>6. CASE (\E s \in Tasks : LeavePage(s)) \/ CrashPages
  BY <1>0, <1>6 DEF LeavePage, Leave, CrashPages, Crash
<1>7. CASE \/ \E k \in Keys : Expire(k)
           \/ \E b \in Pools \X Contents : LoseBlob(b)
  BY <1>7 DEF Expire, LoseBlob
<1> QED
  BY <1>2, <1>3, <1>4, <1>5, <1>6, <1>7 DEF PageNext

(* Nobody but the importer writes the rows of import-conda.                 *)
LEMMA CondaRowsNext ==
  ASSUME PageInv, CondaRows, PageNext \/ Import
  PROVE  CondaRows'
<1>0. TypeOK /\ JobOK /\ DOMAIN artifacts = Keys
  BY DEF PageInv, TypeOK, TablesOK
<1>1. CASE PageNext
  <2>1. ASSUME NEW t \in Tasks, key'[t] \in Keys PROVE KindOf[key'[t]] # "conda"
    BY <1>0, <1>1, <2>1, AskedKeys DEF CondaRows, IsMetadata
  <2>2. ASSUME NEW i \in CondaImports PROVE artifacts'[i] = artifacts[i]
    <3>1. i \in Keys /\ KindOf[i] = "conda" /\ ~IsMetadata(i)
      BY ArchiveType DEF Archives, IsMetadata
    <3>2. [Next]_vars
      BY <1>1, PageStep
    <3> QED
      BY <1>0, <2>1, <3>1, <3>2, RowIsAskedFor
  <2> QED
    BY <2>1, <2>2 DEF CondaRows
<1>2. CASE Import
  <2>1. ASSUME NEW i \in CondaImports, artifacts'[i] # artifacts[i]
        PROVE  artifacts'[i].up = UrlsOf[i][1]
    <3>1. PICK j \in Archives, c \in Contents :
            artifacts' = [artifacts EXCEPT ![j] = ImportRow(j, c)]
      BY <1>0, <1>2, <2>1, ImportedRow
    <3>2. i = j /\ artifacts'[i] = ImportRow(j, c)
      BY <1>0, <2>1, <3>1, ArchiveType
    <3> QED
      BY <3>2, ArchiveType
  <2>2. \A i \in CondaImports : artifacts'[i] = artifacts[i] \/ artifacts'[i].up = UrlsOf[i][1]
    BY <2>1
  <2>3. key' = key
    BY <1>2, ImportFrame
  <2> QED
    BY <2>2, <2>3 DEF CondaRows
<1> QED
  BY <1>1, <1>2

(* Who asks for an import finds its row, and with it its bytes.             *)
LEMMA LocalNext ==
  ASSUME PageInv, BytesFirst, ImportsInOrder, ImportsAreLocal, PageNext
  PROVE  ImportsAreLocal'
<1>0. /\ TypeOK /\ DOMAIN key = Tasks /\ DOMAIN pc = Tasks /\ NoKey \notin Imports
      /\ \A k \in Imports : k \in Keys /\ ~IsMetadata(k)
  BY ArchiveType DEF PageInv, TypeOK, PhasesOK, Archives
<1>1. ASSUME NEW t \in Tasks, NEW k \in Keys, AskForPage(t, k) PROVE ImportsAreLocal'
  <2>1. Request(t, k, "GET") /\ IsMetadata(k)
    BY <1>1 DEF AskForPage
  <2>2. /\ key' = [key EXCEPT ![t] = k]
        /\ \A s \in Tasks \ {t} : pc'[s] = pc[s]
    BY <1>0, <2>1, RequestAnswer
  <2> QED
    BY <1>0, <2>1, <2>2 DEF ImportsAreLocal
<1>2. ASSUME NEW t \in Tasks, NEW k \in Keys, NEW m \in Methods, AskForFile(t, k, m)
      PROVE  ImportsAreLocal'
  <2>1. Request(t, k, m) /\ k \in links
    BY <1>2 DEF AskForFile
  <2>2. /\ key' = [key EXCEPT ![t] = k]
        /\ \A s \in Tasks \ {t} : pc'[s] = pc[s]
    BY <1>0, <2>1, RequestAnswer
  <2>3. ASSUME k \in Imports PROVE pc'[t] = "replied"
    <3>1. artifacts[k] # NoRecord
      BY <2>1, <2>3 DEF ImportsInOrder
    <3>2. Servable(k, FilePath(k, artifacts[k]))
      BY <1>0, <2>3, <3>1, RowIsServed DEF BytesFirst, TypeOK
    <3>3. FastHit(t, k, m) \/ ArriveFails(t, k, m)
      BY <2>1, <3>2 DEF Request, ArriveReuse, ArriveOpen, ArriveWait, Arrive
    <3> QED
      BY <1>0, <3>3 DEF FastHit, ArriveFails, Goto
  <2> QED
    BY <1>0, <2>2, <2>3 DEF ImportsAreLocal
<1>3. ASSUME NEW t \in Tasks, HandlePage(t) PROVE ImportsAreLocal'
  <2>1. /\ pc[t] # "replied" /\ key' = key
        /\ \A s \in Tasks \ {t} : pc'[s] = pc[s]
    BY <1>0, <1>3, OneTask DEF HandlePage
  <2> QED
    BY <2>1 DEF ImportsAreLocal
<1>4. ASSUME NEW t \in Tasks, LeavePage(t) PROVE ImportsAreLocal'
  BY <1>0, <1>4 DEF LeavePage, Leave, Goto, ImportsAreLocal
<1>5. CASE CrashPages
  BY <1>0, <1>5 DEF CrashPages, Crash, ImportsAreLocal
<1>6. ASSUME UNCHANGED <<pc, key>> PROVE ImportsAreLocal'
  BY <1>6 DEF ImportsAreLocal
<1>7. ASSUME NEW t \in Tasks, Serve(t) PROVE UNCHANGED <<pc, key>>
  BY <1>7 DEF Serve, ShowImports, ShowError, ShowCached, Render, Keep, Show, vars
<1>8. ASSUME \/ \E k \in Keys : Expire(k)
             \/ \E b \in Pools \X Contents : LoseBlob(b)
      PROVE  UNCHANGED <<pc, key>>
  BY <1>8 DEF Expire, LoseBlob
<1> QED
  BY <1>1, <1>2, <1>3, <1>4, <1>5, <1>6, <1>7, <1>8 DEF PageNext

(* An answer to a page request stays what it was, and a new one is an error *)
(* or a file.                                                               *)
LEMMA SameAnswer ==
  ASSUME Answers, blobs \subseteq blobs', NEW s \in Tasks,
         pc'[s] = pc[s], key'[s] = key[s], reply'[s] = reply[s],
         stage'[s] = stage[s] \/ stage'[s] # "fetching"
  PROVE  stage'[s] = "fetching" /\ pc'[s] = "replied" =>
           reply'[s].status \in Errors \/ IsFile(key[s], reply[s].file)'
BY DEF Answers, IsFile

LEMMA AnswersNext ==
  ASSUME "loss" \notin Faults, PageInv, BytesFirst, Answers, PageNext
  PROVE  Answers'
<1>0. /\ TypeOK /\ DOMAIN pc = Tasks /\ DOMAIN key = Tasks /\ DOMAIN reply = Tasks
      /\ DOMAIN stage = Tasks
  BY DEF PageInv, TypeOK, PhasesOK, ReplyOK, PagesOK
<1>b. blobs \subseteq blobs'
  BY PageStep, SeenGrows
<1> DEFINE New(s) == stage'[s] = "fetching" /\ pc'[s] = "replied" =>
                       reply'[s].status \in Errors \/ IsFile(key[s], reply[s].file)'
<1>1. ASSUME NEW t \in Tasks, NEW k \in Keys, AskForPage(t, k), NEW s \in Tasks PROVE New(s)
  <2>1. Request(t, k, "GET") /\ stage' = [stage EXCEPT ![t] = "fetching"]
    BY <1>1 DEF AskForPage
  <2>2. /\ key' = [key EXCEPT ![t] = k] /\ (pc'[t] = "replied" => Backed(t))
        /\ \A r \in Tasks \ {t} : pc'[r] = pc[r] /\ reply'[r] = reply[r]
    BY <1>0, <2>1, RequestAnswer
  <2>3. CASE s = t
    BY <2>2, <2>3 DEF Backed
  <2>4. CASE s # t
    <3>1. pc'[s] = pc[s] /\ key'[s] = key[s] /\ reply'[s] = reply[s] /\ stage'[s] = stage[s]
      BY <1>0, <2>1, <2>2, <2>4
    <3> QED
      BY <1>b, <3>1, SameAnswer
  <2> QED
    BY <2>3, <2>4
<1>2. ASSUME NEW t \in Tasks, NEW k \in Keys, NEW m \in Methods, AskForFile(t, k, m),
             NEW s \in Tasks
      PROVE  New(s)
  <2>1. Request(t, k, m) /\ stage' = stage
    BY <1>2 DEF AskForFile, pageVars
  <2>2. /\ pc[t] = "idle" /\ key' = [key EXCEPT ![t] = k]
        /\ \A r \in Tasks \ {t} : pc'[r] = pc[r] /\ reply'[r] = reply[r]
    BY <1>0, <2>1, RequestAnswer
  <2>3. stage[t] = "none"
    BY <2>2 DEF PageInv, PageTasks, AtPage
  <2>4. CASE s # t
    <3>1. pc'[s] = pc[s] /\ key'[s] = key[s] /\ reply'[s] = reply[s] /\ stage'[s] = stage[s]
      BY <1>0, <2>1, <2>2, <2>4
    <3> QED
      BY <1>b, <3>1, SameAnswer
  <2> QED
    BY <2>1, <2>3, <2>4
<1>3. ASSUME NEW t \in Tasks, HandlePage(t), NEW s \in Tasks PROVE New(s)
  <2>1. Handle(t) /\ stage' = stage
    BY <1>3 DEF HandlePage
  <2>2. /\ key' = key
        /\ \A r \in Tasks \ {t} : pc'[r] = pc[r] /\ reply'[r] = reply[r]
    BY <1>0, <2>1, OneTask
  <2>3. ASSUME stage[t] = "fetching", pc'[t] = "replied" PROVE Backed(t)
    <3>1. AtPage(t) /\ pc[t] # "replied" /\ Buffered(t)
      BY <1>0, <2>1, <2>3, OneTask DEF PageInv, PageTasks, AtPage, Buffered, Streams
    <3>2. pc[t] \notin {"ready", "streaming", "closing"}
      BY <3>1 DEF AtPage
    <3> QED
      BY <1>0, <2>1, <2>3, <3>1, <3>2, HandleAnswer
  <2>4. CASE s # t
    <3>1. pc'[s] = pc[s] /\ key'[s] = key[s] /\ reply'[s] = reply[s] /\ stage'[s] = stage[s]
      BY <2>1, <2>2, <2>4
    <3> QED
      BY <1>b, <3>1, SameAnswer
  <2>5. CASE s = t
    BY <2>1, <2>3, <2>5 DEF Backed
  <2> QED
    BY <2>4, <2>5
<1>4. ASSUME NEW t \in Tasks, Serve(t) \/ LeavePage(t), NEW s \in Tasks PROVE New(s)
  <2>1. /\ stage'[t] # "fetching"
        /\ \A r \in Tasks \ {t} : /\ pc'[r] = pc[r] /\ key'[r] = key[r]
                                  /\ reply'[r] = reply[r] /\ stage'[r] = stage[r]
    BY <1>0, <1>4 DEF Serve, ShowImports, ShowError, ShowCached, Render, Keep, Show, vars,
                      LeavePage, Leave, Goto
  <2>2. CASE s # t
    BY <1>b, <2>1, <2>2, SameAnswer
  <2> QED
    BY <2>1, <2>2
<1>5. ASSUME NEW s \in Tasks, CrashPages PROVE New(s)
  BY <1>5 DEF CrashPages
<1>6. ASSUME NEW s \in Tasks,
             \/ \E k \in Keys : Expire(k) /\ UNCHANGED pageVars
             \/ \E b \in Pools \X Contents : LoseBlob(b) /\ UNCHANGED pageVars
      PROVE  New(s)
  <2>1. UNCHANGED <<pc, key, reply, stage>>
    BY <1>6 DEF Expire, LoseBlob, pageVars
  <2> QED
    BY <1>b, <2>1, SameAnswer
<1>7. ASSUME NEW s \in Tasks PROVE New(s)
  <2> HIDE DEF New
  <2> QED
    BY <1>1, <1>2, <1>3, <1>4, <1>5, <1>6 DEF PageNext
<1> QED
  BY <1>7 DEF Answers

(* Of the ways to end a page request, only those leave the imports out that *)
(* have none, or whose request broke.                                       *)
LEMMA ServeShows ==
  ASSUME PageInv, Answers, NEW t \in Tasks, OnPage(t), Serve(t)
  PROVE  OnPage(t)'
<1>0. /\ TypeOK /\ PagesOK /\ PageTasks /\ DOMAIN page = Tasks /\ DOMAIN stage = Tasks
      /\ imported[t] \subseteq Files
      /\ \A f \in SUBSET Files : f # NoPage
  BY DEF PageInv, PagesOK, NoPage
<1>1. UNCHANGED <<imported, reply>>
  BY DEF Serve, ShowImports, ShowError, ShowCached, Render, Keep, Show, vars
<1>2. CASE ShowImports(t)
  BY <1>0, <1>1, <1>2 DEF ShowImports, Show, OnPage
<1>3. CASE ShowError(t)
  <2>1. /\ Fetched(t) /\ ~Readable(t) /\ stage'[t] = "shown"
        /\ reply[t].status \in {"NotFound", "Unavailable"} => imported[t] = {}
    BY <1>0, <1>3 DEF ShowError, Show
  <2>2. ~IsFile(key[t], reply[t].file)
    BY <1>0, <2>1 DEF Readable, IsFile, TypeOK, TablesOK
  <2>3. reply[t].status \in Errors
    BY <2>1, <2>2 DEF Answers, Fetched
  <2> QED
    BY <1>1, <2>1, <2>3 DEF Errors, OnPage
<1>4. CASE ShowCached(t)
  BY <1>0, <1>1, <1>4 DEF ShowCached, Cached, Show, OnPage
<1>5. CASE Render(t)
  <2>1. Fetched(t) /\ Readable(t) /\ page'[t] = Links(t) /\ stage'[t] = "rendered"
    BY <1>0, <1>5 DEF Render
  <2>2. Links(t) \subseteq Files /\ imported[t] \subseteq Links(t)
    BY <1>0, <2>1, LinksType
  <2> QED
    BY <1>0, <1>1, <2>1, <2>2 DEF OnPage
<1>6. CASE Keep(t)
  <2>1. stage[t] = "rendered" /\ page'[t] = page[t] /\ stage'[t] = "shown"
    BY <1>0, <1>6 DEF Keep, Show
  <2> QED
    BY <1>1, <2>1 DEF OnPage
<1> QED
  BY <1>2, <1>3, <1>4, <1>5, <1>6 DEF Serve

LEMMA ShownNext ==
  ASSUME PageInv, ImportsOnPage, PageNext, NEW s \in Tasks
  PROVE  OnPage(s)'
<1>0. /\ TypeOK /\ DOMAIN imported = Tasks /\ DOMAIN page = Tasks /\ DOMAIN stage = Tasks
      /\ DOMAIN reply = Tasks /\ OnPage(s)
  BY DEF PageInv, TypeOK, ReplyOK, PagesOK, ImportsOnPage
<1>1. ASSUME UNCHANGED <<imported[s], page[s], stage[s], reply[s]>> PROVE OnPage(s)'
  BY <1>0, <1>1 DEF OnPage
<1>2. ASSUME stage'[s] \in {"none", "fetching"} PROVE OnPage(s)'
  BY <1>2 DEF OnPage
<1>3. ASSUME NEW t \in Tasks, NEW k \in Keys, AskForPage(t, k)
      PROVE  \/ UNCHANGED <<imported[s], page[s], stage[s], reply[s]>>
             \/ stage'[s] \in {"none", "fetching"}
  <2>1. /\ Request(t, k, "GET") /\ stage' = [stage EXCEPT ![t] = "fetching"] /\ page' = page
        /\ \E i \in ImportedLinks : imported' = [imported EXCEPT ![t] = i]
    BY <1>3 DEF AskForPage
  <2>2. \A r \in Tasks \ {t} : reply'[r] = reply[r]
    BY <1>0, <2>1, RequestAnswer
  <2> QED
    BY <1>0, <2>1, <2>2
<1>4. ASSUME NEW t \in Tasks, NEW k \in Keys, NEW m \in Methods, AskForFile(t, k, m)
      PROVE  \/ UNCHANGED <<imported[s], page[s], stage[s], reply[s]>>
             \/ stage'[s] \in {"none", "fetching"}
  <2>1. Request(t, k, m) /\ UNCHANGED <<stage, page, imported>>
    BY <1>4 DEF AskForFile, pageVars
  <2>2. pc[t] = "idle" /\ \A r \in Tasks \ {t} : reply'[r] = reply[r]
    BY <1>0, <2>1, RequestAnswer
  <2>3. stage[t] = "none"
    BY <2>2 DEF PageInv, PageTasks, AtPage
  <2> QED
    BY <2>1, <2>2, <2>3
<1>5. ASSUME NEW t \in Tasks, HandlePage(t)
      PROVE  \/ UNCHANGED <<imported[s], page[s], stage[s], reply[s]>>
             \/ stage'[s] \in {"none", "fetching"}
  <2>1. Handle(t) /\ UNCHANGED <<stage, page, imported>>
    BY <1>5 DEF HandlePage
  <2>2. pc[t] # "replied" /\ \A r \in Tasks \ {t} : reply'[r] = reply[r]
    BY <1>0, <2>1, OneTask
  <2>3. stage[t] \in {"none", "fetching"}
    BY <2>2 DEF PageInv, PageTasks, AtPage
  <2> QED
    BY <2>1, <2>2, <2>3
<1>6. ASSUME NEW t \in Tasks, Serve(t) PROVE OnPage(s)'
  <2>1. CASE s = t
    BY <1>0, <1>6, <2>1, ServeShows DEF ImportsOnPage
  <2>2. CASE s # t
    <3>1. UNCHANGED <<imported[s], page[s], stage[s], reply[s]>>
      BY <1>0, <1>6, <2>2 DEF Serve, ShowImports, ShowError, ShowCached, Render, Keep, Show, vars
    <3> QED
      BY <1>1, <3>1
  <2> QED
    BY <2>1, <2>2
<1>7. ASSUME NEW t \in Tasks, LeavePage(t)
      PROVE  \/ UNCHANGED <<imported[s], page[s], stage[s], reply[s]>>
             \/ stage'[s] \in {"none", "fetching"}
  BY <1>0, <1>7 DEF LeavePage, Leave
<1>8. ASSUME CrashPages PROVE stage'[s] \in {"none", "fetching"}
  BY <1>8 DEF CrashPages
<1>9. ASSUME \/ \E k \in Keys : Expire(k) /\ UNCHANGED pageVars
             \/ \E b \in Pools \X Contents : LoseBlob(b) /\ UNCHANGED pageVars
      PROVE  UNCHANGED <<imported[s], page[s], stage[s], reply[s]>>
  BY <1>9 DEF Expire, LoseBlob, pageVars
<1> QED
  BY <1>1, <1>2, <1>3, <1>4, <1>5, <1>6, <1>7, <1>8, <1>9 DEF PageNext

LEMMA ImportInvInit == ImportInit => ImportInv
<1> SUFFICES ASSUME ImportInit PROVE ImportInv
  OBVIOUS
<1>1. PageInv
  BY PageInvInit
<1>2. BytesFirst
  BY DEF ImportInit, PageInit, Init, BytesFirst, RecordHasBlob
<1>3. ImportsInOrder
  BY DEF ImportInit, PageInit, ImportsInOrder
<1>4. CondaRows /\ ImportsAreLocal
  <2>1. /\ key = [t \in Tasks |-> NoKey] /\ artifacts = [k \in Keys |-> NoRecord]
        /\ Imports \subseteq Keys /\ CondaImports \subseteq Keys
    BY ArchiveType DEF ImportInit, PageInit, Init, Archives
  <2> QED
    BY <2>1 DEF CondaRows, ImportsAreLocal
<1>5. ImportsOnPage
  BY DEF ImportInit, PageInit, ImportsOnPage, Answers, OnPage
<1> QED
  BY <1>1, <1>2, <1>3, <1>4, <1>5 DEF ImportInv

LEMMA ImportInvNext ==
  ASSUME "loss" \notin Faults
  PROVE  ImportInv /\ [ImportNext]_everything => ImportInv'
<1> SUFFICES ASSUME ImportInv, [ImportNext]_everything PROVE ImportInv'
  OBVIOUS
<1>0. /\ PageInv /\ BytesFirst /\ ImportsInOrder /\ CondaRows /\ ImportsAreLocal
      /\ ImportsOnPage /\ Answers
  BY DEF ImportInv, ImportsOnPage
<1>1. PageInv'
  BY <1>0, PageInvNext
<1>2. ASSUME PageNext, UNCHANGED importVars PROVE ImportInv'
  <2>1. BytesFirst' /\ ImportsInOrder'
    BY <1>0, <1>2, PagesWrite
  <2>2. CondaRows'
    BY <1>0, <1>2, CondaRowsNext
  <2>3. ImportsAreLocal'
    BY <1>0, <1>2, LocalNext
  <2>4. Answers'
    BY <1>0, <1>2, AnswersNext
  <2>5. \A s \in Tasks : OnPage(s)'
    BY <1>0, <1>2, ShownNext
  <2> QED
    BY <1>1, <2>1, <2>2, <2>3, <2>4, <2>5 DEF ImportInv, ImportsOnPage
<1>3. ASSUME Import PROVE ImportInv'
  <2>1. /\ UNCHANGED <<pc, key, reply, imported, stage, page>> /\ blobs \subseteq blobs'
    BY <1>0, <1>3, ImportFrame, ImportedRow DEF PageInv
  <2>2. BytesFirst' /\ ImportsInOrder'
    BY <1>0, <1>3, ImportWrites
  <2>3. CondaRows'
    BY <1>0, <1>3, CondaRowsNext
  <2>4. ImportsAreLocal'
    BY <1>0, <2>1 DEF ImportsAreLocal
  <2>5. ImportsOnPage'
    BY <1>0, <2>1 DEF ImportsOnPage, Answers, OnPage, IsFile
  <2> QED
    BY <1>1, <2>2, <2>3, <2>4, <2>5 DEF ImportInv
<1>4. ASSUME UNCHANGED everything PROVE ImportInv'
  <2>1. UNCHANGED vars /\ UNCHANGED pageVars /\ UNCHANGED importVars
    BY <1>4 DEF everything, allVars
  <2>2. BytesFirst' /\ CondaRows' /\ ImportsAreLocal'
    BY <1>0, <2>1 DEF vars, BytesFirst, RecordHasBlob, CondaRows, ImportsAreLocal
  <2>3. ImportsInOrder'
    BY <1>0, <2>1 DEF vars, pageVars, importVars, ImportsInOrder
  <2>4. ImportsOnPage'
    BY <1>0, <2>1 DEF vars, pageVars, ImportsOnPage, Answers, OnPage, IsFile
  <2> QED
    BY <1>1, <2>2, <2>3, <2>4 DEF ImportInv
<1> QED
  BY <1>2, <1>3, <1>4 DEF ImportNext

(* What was in the table of imports when a page was asked for is on the     *)
(* page, whatever the upstreams answer and whatever the cache of pages      *)
(* holds; only a request that broke, which shows no page, is exempt.        *)
THEOREM ImportsReachPages ==
  ASSUME "loss" \notin Faults
  PROVE  ImportSpec => []ImportsAreShown
<1>1. ImportInv => ImportsAreShown
  BY DEF ImportInv, ImportsOnPage, OnPage, ImportsAreShown
<1>2. ImportInv /\ [ImportNext]_everything => ImportInv'
  BY ImportInvNext
<1> QED
  BY <1>1, <1>2, ImportInvInit, PTL DEF ImportSpec

(* Whoever asks for an imported file is answered from disk at once, at any  *)
(* point of a run of the importer and after any end of one: row and bytes   *)
(* are there before the link by which the file is asked for.                *)
THEOREM ImportsStayLocal ==
  ASSUME "loss" \notin Faults
  PROVE  ImportSpec => []ImportsAreLocal
<1>1. ImportInv => ImportsAreLocal
  BY DEF ImportInv
<1>2. ImportInv /\ [ImportNext]_everything => ImportInv'
  BY ImportInvNext
<1> QED
  BY <1>1, <1>2, ImportInvInit, PTL DEF ImportSpec

(* An archive the importer has once got through stays served: pip's under   *)
(* its link, Conda's for the URL it was downloaded from.                    *)
THEOREM FinishedStaysServed ==
  ASSUME "loss" \notin Faults
  PROVE  ImportSpec => []FinishedIsServed
<1>1. ASSUME ImportInv, NEW i \in finished
      PROVE  /\ Servable(i, FilePath(i, artifacts[i]))
             /\ IF i \in Imports THEN i \in links ELSE FindByUpstreamUrl(i, UrlsOf[i][1]) # {}
  <2>1. /\ TypeOK /\ RecordHasBlob /\ i \in Archives /\ artifacts[i] # NoRecord
        /\ i \in Imports => i \in links
    BY <1>1 DEF ImportInv, PageInv, JobOK, BytesFirst, ImportsInOrder
  <2>2. i \in Keys /\ ~IsMetadata(i)
    BY <2>1, ArchiveType
  <2>3. Servable(i, FilePath(i, artifacts[i]))
    BY <2>1, <2>2, RowIsServed DEF TypeOK
  <2>4. ASSUME i \notin Imports PROVE artifacts[i] \in FindByUpstreamUrl(i, UrlsOf[i][1])
    <3>1. artifacts[i].up = UrlsOf[i][1]
      BY <1>1, <2>1, <2>4 DEF ImportInv, CondaRows, Archives
    <3> QED
      BY <2>1, <2>2, <3>1 DEF FindByUpstreamUrl
  <2> QED
    BY <2>1, <2>3, <2>4
<1>2. ImportInv => FinishedIsServed
  BY <1>1 DEF FinishedIsServed
<1>3. ImportInv /\ [ImportNext]_everything => ImportInv'
  BY ImportInvNext
<1> QED
  BY <1>2, <1>3, ImportInvInit, PTL DEF ImportSpec

(* An importer next to the gateway, which knows nothing of its locks, is no *)
(* reason for a row without bytes: it too publishes before it writes.       *)
THEOREM ImportedRowsHaveBlobs ==
  ASSUME "loss" \notin Faults
  PROVE  ImportSpec => []RecordHasBlob
<1>1. ImportInv => RecordHasBlob
  BY DEF ImportInv, BytesFirst
<1>2. ImportInv /\ [ImportNext]_everything => ImportInv'
  BY ImportInvNext
<1> QED
  BY <1>1, <1>2, ImportInvInit, PTL DEF ImportSpec

(* Nor for two downloads of one key at a time, with any faults: what pages  *)
(* and importer add goes through the same locks, or does not touch them.    *)
THEOREM OneFlightWithImporter == ImportSpec => []SingleFlight
<1>1. ImportInit => LockOwned
  BY DEF ImportInit, PageInit, Init, LockOwned, Holding
<1>2. PageInv /\ LockOwned /\ [ImportNext]_everything => LockOwned'
  <2> SUFFICES ASSUME PageInv, LockOwned, [ImportNext]_everything PROVE LockOwned'
    OBVIOUS
  <2>1. CASE PageNext \/ UNCHANGED everything
    <3>1. [Next]_vars
      BY <2>1, PageStep DEF everything, allVars
    <3> QED
      BY <3>1, LockNext DEF PageInv
  <2>2. CASE Import
    BY <2>2, ImportFrame DEF LockOwned
  <2> QED
    BY <2>1, <2>2 DEF ImportNext
<1>3. LockOwned => SingleFlight
  BY DEF LockOwned, SingleFlight
<1> QED
  BY <1>1, <1>2, <1>3, PageInvInit, PageInvNext, PTL DEF ImportSpec
=============================================================================

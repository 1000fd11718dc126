----------------------------- MODULE ImporterMC -----------------------------
(* A project page behind a redirect, which lists nothing, or a wheel and a  *)
(* file with the name of an imported one; that import; and an imported      *)
(* Conda archive that once came from a channel.                             *)
EXTENDS Importer, TLC

CONSTANTS simple, wheel, twin, import, conda, c1, c2, u1, cdn, channel, file1, file2

TheKeys == {simple, import, conda}
TheUrls == {u1, cdn, channel, file1, file2}
TheKind == simple :> "index" @@ import :> "pypi" @@ conda :> "conda"
ThePool == simple :> "pip" @@ import :> "pip" @@ conda :> "conda"
TheUrlsOf == simple :> <<u1>> @@ import :> <<file1>> @@ conda :> <<channel>>
TheFinals == [u \in TheUrls |-> {IF u = u1 THEN cdn ELSE u}]
TheLinks == [p \in Contents \X TheUrls |-> IF p[1] = c1 THEN {wheel, twin} ELSE {}]
TheNames == wheel :> wheel @@ twin :> import @@ import :> import
TheContent == import :> c1 @@ conda :> c2
TheFile == import :> file1 @@ conda :> file2

Interchangeable == Permutations(Tasks)

(* What no guard and no property reads is left out of the states compared:  *)
(* the history `seen`, the answer behind a page that is out, and by which   *)
(* way a file was found.  No commit fails here, so no page is Broken.        *)
Answered == [t \in Tasks |->
  IF stage[t] = "shown" THEN NoReply
  ELSE IF reply[t].file # Missing THEN [reply[t] EXCEPT !.status = "HIT"] ELSE reply[t]]

Essentials ==
  <<artifacts, blobs, published, lock, waiters, pc, key, method, target, url,
    notFound, fetched, Answered, links, imported, stage, page, rendered, importVars,
    [t \in Tasks |-> stage[t] # "shown" /\ final[t] # NoUrl]>>
=============================================================================

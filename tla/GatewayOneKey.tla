--------------------------- MODULE GatewayOneKey ---------------------------
(* One key asked for at one URL, which redirects or does not.               *)
EXTENDS Gateway, TLC

CONSTANTS theKey, kind, redirects, u1, u2

TheKeys == {theKey}
TheUrls == {u1, u2}
TheKind == theKey :> kind
ThePool == theKey :> "conda"
TheUrlsOf == theKey :> <<u1>>
TheFinals == u1 :> {IF redirects THEN u2 ELSE u1} @@ u2 :> {u2}

Interchangeable == Permutations(Tasks) \cup Permutations(Contents)
=============================================================================

--------------------------- MODULE GatewayRoutes ---------------------------
(* Two conda routes to one archive: source "main" has it at u1, which may   *)
(* redirect to u2, and falls back to u2; source "legacy" only knows u2.     *)
EXTENDS Gateway, TLC

CONSTANTS main, legacy, u1, u2

TheKeys == {main, legacy}
TheUrls == {u1, u2}
TheKind == main :> "conda" @@ legacy :> "conda"
ThePool == main :> "conda" @@ legacy :> "conda"
TheUrlsOf == main :> <<u1, u2>> @@ legacy :> <<u2>>
TheFinals == u1 :> {u1, u2} @@ u2 :> {u2}

Interchangeable == Permutations(Tasks) \cup Permutations(Contents)
=============================================================================

--------------------------- MODULE GatewayIndexes ---------------------------
(* Two index documents: "page", which expires, is sometimes redirected to a *)
(* CDN and sometimes not; "now" has a TTL of zero.                          *)
EXTENDS Gateway, TLC

CONSTANTS page, now, u1, u2, cdn

TheKeys == {page, now}
TheUrls == {u1, u2, cdn}
TheKind == page :> "index" @@ now :> "index"
ThePool == page :> "conda" @@ now :> "conda"
TheUrlsOf == page :> <<u1>> @@ now :> <<u2>>
TheFinals == u1 :> {u1, cdn} @@ u2 :> {u2} @@ cdn :> {cdn}

Interchangeable == Permutations(Tasks) \cup Permutations(Contents)
=============================================================================

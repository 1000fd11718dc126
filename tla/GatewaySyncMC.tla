--------------------------- MODULE GatewaySyncMC ---------------------------
(* An archive of a conda channel at u1, of which clients hold different     *)
(* bytes; a pip source distribution at s1; and an imported pip archive      *)
(* clients offer with origin s1: the same file, or a wheel built from it;   *)
(* and another import, downloaded from w1.                                  *)
EXTENDS GatewayUsage, TLC

CONSTANTS conda, sdist, imported, other, c1, c2, u1, s1, w1

TheKind == [k \in Keys |-> IF k = conda THEN "conda" ELSE "pypi"]
ThePool == [k \in Keys |-> IF k = conda THEN "conda" ELSE "pip"]
TheUrls == [k \in Keys |-> IF k = conda THEN <<u1>> ELSE IF k = other THEN <<w1>> ELSE <<s1>>]
TheFinals == [u \in Urls |-> {u}]

Interchangeable == Permutations(Tasks)

Offer(k, c, up, final, built) ==
  [key |-> k, sha |-> c, up |-> up, final |-> final, built |-> built]

Conda == {Offer(conda, c1, NoUrl, u1, FALSE), Offer(conda, c2, u1, u1, FALSE)}
Downloaded == {Offer(imported, c2, s1, s1, FALSE), Offer(other, c1, w1, w1, FALSE)}
Honest == {Offer(conda, c2, NoUrl, u1, FALSE)} \cup Downloaded
Built == {Offer(imported, c2, s1, s1, TRUE)}
=============================================================================

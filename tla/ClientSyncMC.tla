---------------------------- MODULE ClientSyncMC ----------------------------
(* Two shells on one user's caches, one of which has no conda: wheels "w1"  *)
(* and "w2" of one source distribution, or of two, of which "w2" may come   *)
(* late; "h", a body in pip's HTTP cache; and a conda package "p".          *)
EXTENDS ClientSync

CONSTANT SameSdist   \* both wheels were built from one source distribution

Mine == [s \in Scripts |-> IF s = "s1" THEN Archives ELSE Archives \ {"p"}]
Kinds == [a \in Archives |-> IF a \in {"w1", "w2", "h"} THEN "pip" ELSE "conda"]
Itself == [a \in Archives |-> a]
FromUrl == [a \in Archives |-> IF SameSdist /\ a = "w2" THEN "w1" ELSE a]
=============================================================================

--------------------------- MODULE ClientUpdateMC ---------------------------
(* Two or three deployments of different payloads, or one that is rolled    *)
(* back.                                                                    *)
EXTENDS CondaStaging

CONSTANTS v1, v2, v3

Forward == <<v1, v2, v3>>
Rollback == <<v1, v2, v1>>
=============================================================================

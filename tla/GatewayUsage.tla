---------------------------- MODULE GatewayUsage ----------------------------
(***************************************************************************)
(* Download statistics: main.py counts a transfer in client_usage_daily    *)
(* as a hit or as a miss.  Only the misses are kept, summed over clients   *)
(* and days; the dashboard takes what is not one for upstream traffic      *)
(* saved.  Archives that clients offer are cached without being downloaded *)
(* and count as neither.                                                   *)
(***************************************************************************)
EXTENDS GatewaySync

CONSTANT MaxMisses   \* the counters stop here

ASSUME UsageConstants == MaxMisses \in Nat \ {0}

VARIABLE misses      \* key -> cache_misses of client_usage_daily

usageVars == <<vars, misses>>

UsageInit == Init /\ misses = [k \in Keys |-> 0]

CountsMissAtStart(t) == pc[t] = "ready" /\ pc'[t] = "streaming"  \* mutant

(* tracked_body calls record_download when the body ran to its end, after   *)
(* the generator has published, registered and released.  A finished file   *)
(* is counted as a hit, an index is not counted.                            *)
CountsMiss(t) ==
  pc[t] = "closing" /\ pc'[t] = "replied" /\ reply[t].status = "MISS"

CountMisses ==
  misses' = [k \in Keys |->
    IF misses[k] < MaxMisses /\ \E t \in Tasks : key[t] = k /\ CountsMiss(t)
    THEN misses[k] + 1 ELSE misses[k]]

UsageNext ==
  \/ Next /\ Linked /\ CountMisses
  \/ Sync /\ UNCHANGED misses

UsageSpec == UsageInit /\ [][UsageNext]_usageVars

(* "A first MISS still reaches the client": the statistics know at most one *)
(* miss of an archive, however many clients asked at once, gave up, offered *)
(* it themselves, or were cut off by a crash; and an archive with a miss is *)
(* in the cache, so that every later transfer is rightly called saved.      *)
MissesAreFills ==
  \A k \in Keys :
    misses[k] > 0 => misses[k] = 1 /\ ~IsMetadata(k) /\ artifacts[k] # NoRecord
=============================================================================

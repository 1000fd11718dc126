---------------------------- MODULE ArchiveCache ----------------------------
(***************************************************************************)
(* What the cache of package archives promises, without locks, files,      *)
(* upstreams or tables: a shelf place is filled once, and from then on     *)
(* whoever is handed the archive is handed those bytes, also after a       *)
(* restart.  While it is empty, bytes may pass through that are not kept.  *)
(***************************************************************************)
CONSTANTS Keys, Contents, Tasks, Nothing

VARIABLES
  shelf,   \* key -> the bytes cached for it, or Nothing
  given    \* task -> <<key, bytes>> it was handed from the cache, or Nothing

Init ==
  /\ shelf = [k \in Keys |-> Nothing]
  /\ given = [t \in Tasks |-> Nothing]

Place(k, c) == shelf[k] = Nothing /\ shelf' = [shelf EXCEPT ![k] = c]

(* A download nobody else waited for, or one that goes with an answer.      *)
Fill(k, c) == Place(k, c) /\ UNCHANGED given

HandOut(t, k) ==
  /\ given[t] = Nothing
  /\ shelf'[k] # Nothing
  /\ given' = [given EXCEPT ![t] = <<k, shelf'[k]>>]

Serve(t, k) == UNCHANGED shelf /\ HandOut(t, k)

FillAndServe(t, k, c) == Place(k, c) /\ HandOut(t, k)

PassOn(t, k, c) ==
  /\ shelf[k] = Nothing /\ UNCHANGED shelf
  /\ given[t] = Nothing
  /\ given' = [given EXCEPT ![t] = <<k, c>>]

Done(t) == given' = [given EXCEPT ![t] = Nothing] /\ UNCHANGED shelf

Restart == given' = [t \in Tasks |-> Nothing] /\ UNCHANGED shelf

Next ==
  \/ \E k \in Keys, c \in Contents :
       \/ Fill(k, c)
       \/ \E t \in Tasks : FillAndServe(t, k, c) \/ PassOn(t, k, c)
  \/ \E t \in Tasks : Done(t) \/ \E k \in Keys : Serve(t, k)
  \/ Restart

Spec == Init /\ [][Next]_<<shelf, given>>
=============================================================================

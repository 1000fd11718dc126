------------------------ MODULE StaticDeliveryProofs ------------------------
(***************************************************************************)
(* What StaticDelivery promises holds for blobs, Range numbers and block   *)
(* sizes of any magnitude.                                                 *)
(***************************************************************************)
EXTENDS StaticDelivery, TLAPS

(* The invariant behind both properties: what has been promised is what was *)
(* wanted and lies inside the blob, and what has been written plus what     *)
(* remains is the promise.                                                  *)
Booked ==
  /\ phase = "refused" => Wanted = {}
  /\ Started => start .. end = Wanted /\ start <= end + 1 /\ end <= size - 1
  /\ phase \in {"body", "cut"} => offset + remaining = end + 1 /\ start <= offset
  /\ phase = "served" /\ method = "GET" => offset = end + 1

DInv == TypeOK /\ Booked

(* What the 416 test lets through is exactly what the header names.         *)
LEMMA SatisfiableIsWanted ==
  ASSUME size \in Nat, left \in Nat \cup {Absent}, right \in Nat \cup {Absent},
         ranged, Satisfiable
  PROVE  /\ RangeStart \in Nat /\ LastByte \in Nat
         /\ RangeStart <= LastByte /\ LastByte <= size - 1
         /\ RangeStart .. LastByte = Wanted
<1>1. RangeStart \in Nat /\ LastByte \in Nat /\ RangeStart <= LastByte /\ LastByte <= size - 1
  BY DEF Satisfiable, RangeStart, RangeEnd, LastByte, Smaller, Larger, Absent
<1>2. ASSUME NEW p \in 0 .. size - 1
      PROVE  p \in RangeStart .. LastByte <=>
               IF left # Absent THEN p >= left /\ (right # Absent => p <= right)
               ELSE right # Absent /\ p >= size - right
  BY DEF Satisfiable, RangeStart, RangeEnd, LastByte, Smaller, Larger, Absent
<1>3. RangeStart .. LastByte \subseteq 0 .. size - 1
  BY <1>1
<1>4. QED
  BY <1>1, <1>2, <1>3 DEF Wanted

(* What it turns away names no byte.                                        *)
LEMMA UnsatisfiableIsEmpty ==
  ASSUME size \in Nat, left \in Nat \cup {Absent}, right \in Nat \cup {Absent},
         ranged, ~Satisfiable
  PROVE  Wanted = {}
  BY DEF Wanted, Satisfiable, RangeStart, RangeEnd, Larger, Absent

LEMMA BookedInit == Init => DInv
  BY DeliveryConstants DEF Init, DInv, TypeOK, Booked, Started

LEMMA BookedNext == DInv /\ [Next]_vars => DInv'
<1> SUFFICES ASSUME DInv, [Next]_vars PROVE DInv'
  OBVIOUS
<1> USE DEF DInv
<1>0. /\ size \in Nat /\ left \in Nat \cup {Absent} /\ right \in Nat \cup {Absent}
      /\ Block \in Nat \ {0}
  BY DeliveryConstants DEF TypeOK
<1>1. CASE Refuse
  <2>1. Wanted = {} /\ Wanted' = Wanted
    BY <1>0, <1>1, UnsatisfiableIsEmpty DEF Refuse, request, Wanted
  <2>2. QED
    BY <1>1, <2>1 DEF Refuse, request, TypeOK, Booked, Started
<1>2. CASE Whole
  <2>1. Wanted' = start' .. end'
    BY <1>0, <1>2 DEF Whole, Promise, request, Wanted
  <2>2. QED
    BY <1>0, <1>2, <2>1 DEF Whole, Promise, request, TypeOK, Booked, Started
<1>3. CASE Partial
  <2>1. /\ start' \in Nat /\ end' \in Nat /\ start' <= end' /\ end' <= size - 1
        /\ start' .. end' = Wanted /\ Wanted' = Wanted
    BY <1>0, <1>3, SatisfiableIsWanted DEF Partial, Promise, request, Wanted
  <2>2. QED
    BY <1>0, <1>3, <2>1 DEF Partial, Promise, request, TypeOK, Booked, Started
<1>4. CASE EndOfHeaders
  <2>1. Wanted' = Wanted
    BY <1>4 DEF EndOfHeaders, request, Wanted
  <2>2. QED
    BY <1>0, <1>4, <2>1 DEF EndOfHeaders, request, TypeOK, Booked, Started
<1>5. CASE WriteBlock
  <2>1. Wanted' = Wanted
    BY <1>5 DEF WriteBlock, request, Wanted
  <2>2. BlockLength \in Nat /\ BlockLength <= remaining
    BY <1>0, <1>5 DEF WriteBlock, BlockLength, Smaller, TypeOK, Booked, Started
  <2>3. QED
    BY <1>0, <1>5, <2>1, <2>2 DEF WriteBlock, request, TypeOK, Booked, Started
<1>6. CASE Flush
  <2>1. Wanted' = Wanted
    BY <1>6 DEF Flush, request, Wanted
  <2>2. remaining = 0
    BY <1>0, <1>6 DEF Flush, BlockLength, Smaller, TypeOK, Booked, Started
  <2>3. QED
    BY <1>0, <1>6, <2>1, <2>2 DEF Flush, request, TypeOK, Booked, Started
<1>7. CASE Cut
  <2>1. Wanted' = Wanted
    BY <1>7 DEF Cut, request, Wanted
  <2>2. QED
    BY <1>7, <2>1 DEF Cut, request, TypeOK, Booked, Started
<1>8. CASE UNCHANGED vars
  BY <1>8 DEF vars, TypeOK, Booked, Started, Wanted
<1>9. QED
  BY <1>1, <1>2, <1>3, <1>4, <1>5, <1>6, <1>7, <1>8 DEF Next

(* Offsets, promises and what remains of them stay natural numbers: the     *)
(* write loop never counts below zero or past the end.                      *)
THEOREM DeliveryTypeCorrect == Spec => []TypeOK
<1>1. DInv => TypeOK
  BY DEF DInv
<1>2. QED
  BY <1>1, BookedInit, BookedNext, PTL DEF Spec

(* A Range request is refused exactly when it names no byte of the blob,    *)
(* and is otherwise promised exactly the bytes it names, for blobs and      *)
(* numbers of any size.                                                     *)
THEOREM RangesAreHonoured == Spec => []RangeIsWanted
<1>1. DInv => RangeIsWanted
  BY DEF DInv, Booked, RangeIsWanted
<1>2. QED
  BY <1>1, BookedInit, BookedNext, PTL DEF Spec

(* The write loop sends exactly what the headers promised, whatever the     *)
(* block size, and never more of it when the client hangs up.               *)
THEOREM BodiesAreComplete == Spec => []BodyIsPromised
<1>1. DInv => BodyIsPromised
  BY DEF DInv, Booked, BodyIsPromised
<1>2. QED
  BY <1>1, BookedInit, BookedNext, PTL DEF Spec
=============================================================================

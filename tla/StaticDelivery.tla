--------------------------- MODULE StaticDelivery ---------------------------
(***************************************************************************)
(* The static delivery process (app/static_server.py).  Requests run in    *)
(* threads that share nothing but the read-only blob directory, so one     *)
(* request is the whole story.  A byte of the blob is its position; a body *)
(* is the interval of positions written so far.                            *)
(***************************************************************************)
EXTENDS Integers

CONSTANTS
  Sizes,     \* possible blob sizes
  Numbers,   \* numbers a Range header may hold
  Block      \* _COPY_BLOCK_SIZE

ASSUME DeliveryConstants == Sizes \subseteq Nat /\ Numbers \subseteq Nat /\ Block \in Nat \ {0}

Absent == -1   \* an empty group of the Range regular expression; a header
               \* it does not match is answered 416, and so is one of which
               \* both groups are empty: here they are one case

VARIABLES
  phase,           \* "asked", "refused", "headers", "body", "served" or "cut"
  size,            \* blob.stat().st_size
  method,
  ranged, left, right,   \* whether there is a Range header, and its groups
  start, end,      \* first and last position promised in the headers
  offset,          \* where the stream reads next
  remaining

vars == <<phase, size, method, ranged, left, right, start, end, offset, remaining>>
request == <<size, method, ranged, left, right>>

Init ==
  /\ phase = "asked"
  /\ size \in Sizes
  /\ method \in {"GET", "HEAD"}
  /\ ranged \in BOOLEAN
  /\ left \in Numbers \cup {Absent} /\ right \in Numbers \cup {Absent}
  /\ start = 0 /\ end = 0 /\ offset = 0 /\ remaining = 0

Smaller(a, b) == IF a <= b THEN a ELSE b

Larger(a, b) == IF a >= b THEN a ELSE b

RangeStartNegative ==  \* mutant: no max()
  IF left # Absent THEN left ELSE size - right

(* Where `start` and `end` stand after the header has been parsed, and the  *)
(* 416 test on them.                                                        *)
RangeStart == IF left # Absent THEN left ELSE Larger(size - right, 0)

RangeEnd == IF left # Absent /\ right # Absent THEN right ELSE size - 1

Satisfiable ==
  /\ left # Absent \/ right # Absent
  /\ RangeStart <= RangeEnd
  /\ RangeStart < size

RangeEndUnclamped == RangeEnd  \* mutant: `end` is not cut to the blob

LastByte == Smaller(RangeEnd, size - 1)

Refuse ==
  /\ phase = "asked"
  /\ ranged /\ ~Satisfiable
  /\ phase' = "refused"
  /\ UNCHANGED <<request, start, end, offset, remaining>>

Promise(first, last) ==
  /\ phase = "asked"
  /\ phase' = "headers"
  /\ start' = first
  /\ end' = last
  /\ UNCHANGED <<request, offset, remaining>>

Whole == ~ranged /\ Promise(0, size - 1)

Partial == ranged /\ Satisfiable /\ Promise(RangeStart, LastByte)

EndOfHeaders ==
  /\ phase = "headers"
  /\ phase' = IF method = "HEAD" THEN "served" ELSE "body"
  /\ offset' = start
  /\ remaining' = end - start + 1
  /\ UNCHANGED <<request, start, end>>

BlockOverrun == Smaller(Block, size - offset)  \* mutant: reads whole blocks

(* What stream.read(min(_COPY_BLOCK_SIZE, remaining)) returns.              *)
BlockLength == Smaller(Smaller(Block, remaining), size - offset)

WriteBlock ==
  /\ phase = "body" /\ remaining # 0 /\ BlockLength # 0
  /\ offset' = offset + BlockLength
  /\ remaining' = remaining - BlockLength
  /\ UNCHANGED <<phase, request, start, end>>

(* The loop ends: nothing remains, or read() found the end of the file.     *)
Flush ==
  /\ phase = "body" /\ (remaining = 0 \/ BlockLength = 0)
  /\ phase' = "served"
  /\ UNCHANGED <<request, start, end, offset, remaining>>

(* The client is gone; write raises and the thread ends.                    *)
Cut ==
  /\ phase = "body"
  /\ phase' = "cut"
  /\ UNCHANGED <<request, start, end, offset, remaining>>

Next == Refuse \/ Whole \/ Partial \/ EndOfHeaders \/ WriteBlock \/ Flush \/ Cut

Spec == Init /\ [][Next]_vars

-----------------------------------------------------------------------------
(* What the header asks for, as RFC 9110 puts it: the positions from left   *)
(* to right, from left on, or the last `right` ones, as far as they exist.  *)
Wanted ==
  IF ~ranged THEN 0 .. size - 1
  ELSE {p \in 0 .. size - 1 :
         IF left # Absent THEN p >= left /\ (right # Absent => p <= right)
         ELSE right # Absent /\ p >= size - right}

Started == phase \in {"headers", "body", "served", "cut"}

TypeOK ==
  /\ phase \in {"asked", "refused", "headers", "body", "served", "cut"}
  /\ size \in Sizes
  /\ method \in {"GET", "HEAD"}
  /\ ranged \in BOOLEAN
  /\ left \in Numbers \cup {Absent} /\ right \in Numbers \cup {Absent}
  /\ start \in Nat /\ end \in Int /\ offset \in Nat /\ remaining \in Nat

(* 416 is for headers that name no byte of the blob, and only for those; in *)
(* every other case Content-Range and Content-Length say what was asked.    *)
RangeIsWanted ==
  /\ phase = "refused" => Wanted = {}
  /\ Started => start .. end = Wanted

(* The body is never longer than promised, and unless the client hangs up   *)
(* it is the promised interval to the last byte, in blocks of any size.     *)
BodyIsPromised ==
  /\ phase \in {"body", "cut"} => offset + remaining = end + 1 /\ start <= offset
  /\ phase = "served" /\ method = "GET" => offset = end + 1
=============================================================================

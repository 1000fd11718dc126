------------------------ MODULE StoreConnectionProofs ------------------------
(***************************************************************************)
(* Proofs about StoreConnection, for any calls, rows and crashes.          *)
(***************************************************************************)
EXTENDS StoreConnection, TLAPS

AtWork == {"executing", "beginning", "writing", "checking", "committing"}

(* What a call has written so far is either committed or in the open        *)
(* transaction of its connection, which only exists while it is open.  An   *)
(* import that fails closes its connection; no other import is at work.     *)
Untouched == \A c \in Calls : pc[c] \in {"new", "asking"} => todo[c] = RowsOf[c]

WrittenOut == \A c \in Calls : pc[c] \in {"checking", "committing"} => todo[c] = {}

NothingDropped ==
  \A c \in Calls : pc[c] \in AtWork =>
    RowsOf[c] \ todo[c] \subseteq committed \cup pending[ConnOf(c)]

ClosedIsEmpty == \A k \in Connections : ~open[k] => pending[k] = {}

OneImport == \A c, d \in Imports : Active(c) /\ Active(d) => c = d

IInv ==
  /\ TypeOK /\ AckedIsCommitted
  /\ Untouched /\ WrittenOut /\ NothingDropped /\ ClosedIsEmpty /\ OneImport

-----------------------------------------------------------------------------
LEMMA InitIInv == Init => IInv
<1> SUFFICES ASSUME Init PROVE IInv
  OBVIOUS
<1>1. TypeOK
  BY CallsAreApart DEF Init, TypeOK, Phases, Connections
<1>2. AckedIsCommitted /\ Untouched /\ WrittenOut /\ NothingDropped
  BY DEF Init, AckedIsCommitted, Untouched, WrittenOut, NothingDropped, AtWork
<1>3. ClosedIsEmpty /\ OneImport
  BY DEF Init, ClosedIsEmpty, OneImport, Active, Calls
<1> QED
  BY <1>1, <1>2, <1>3 DEF IInv

LEMMA ConnType == ASSUME NEW c \in Calls PROVE ConnOf(c) \in Connections
  BY DEF ConnOf, Connections

(* The steps of a thread that neither write nor end a transaction.          *)
LEMMA QuietSteps ==
  ASSUME IInv, NEW c \in Calls, Start(c) \/ Enter(c) \/ Execute(c) \/ Check(c)
  PROVE  IInv'
<1> USE DEF IInv
<1>1. TypeOK'
  BY DEF TypeOK, Start, Enter, Execute, Check, Return, Unlocked, Goto, Phases
<1>2. Untouched' /\ WrittenOut' /\ NothingDropped'
  BY DEF TypeOK, Start, Enter, Execute, Check, Return, Goto, Untouched, WrittenOut,
         NothingDropped, AtWork
<1>3. ClosedIsEmpty'
  BY DEF Start, Enter, Execute, Check, ClosedIsEmpty
<1>4. AckedIsCommitted'
  BY ConnType DEF TypeOK, Start, Enter, Execute, Check, Return, Goto, AckedIsCommitted,
         WrittenOut, NothingDropped, AtWork, ClosedIsEmpty
<1>5. OneImport'
  <2>1. CASE Start(c)
    BY <2>1 DEF TypeOK, Start, Goto, ThreadIsFree, OneImport, Active, Calls
  <2>2. CASE Enter(c) \/ Execute(c) \/ Check(c)
    BY <2>2 DEF TypeOK, Enter, Execute, Check, Return, Goto, OneImport, Active, Calls
  <2> QED
    BY <2>1, <2>2
<1> QED
  BY <1>1, <1>2, <1>3, <1>4, <1>5

(* An error drops rows of the importer only, where the failed call is alone *)
(* at work.                                                                 *)
LEMMA Errors ==
  ASSUME IInv, NEW c \in Calls, Active(c), Raise(c), UNCHANGED <<todo, committed>>
  PROVE  IInv'
<1> USE DEF IInv
<1>1. TypeOK'
  BY DEF TypeOK, Raise, LockAfterError, Unlocked, Goto, Phases, Connections
<1>2. Untouched' /\ WrittenOut' /\ AckedIsCommitted'
  BY DEF TypeOK, Raise, Goto, Untouched, WrittenOut, AckedIsCommitted
<1>3. NothingDropped'
  <2> SUFFICES ASSUME NEW d \in Calls, pc'[d] \in AtWork
               PROVE  RowsOf[d] \ todo'[d] \subseteq committed' \cup pending'[ConnOf(d)]
    BY DEF NothingDropped
  <2>1. d # c /\ pc[d] \in AtWork
    BY DEF Raise, Goto, TypeOK, AtWork
  <2>2. pending'[ConnOf(d)] = pending[ConnOf(d)]
    BY <2>1 DEF Raise, TypeOK, ConnOf, Connections, OneImport, Active, AtWork
  <2> QED
    BY <2>1, <2>2 DEF NothingDropped
<1>4. ClosedIsEmpty'
  BY DEF TypeOK, Raise, ClosedIsEmpty, Connections
<1>5. OneImport'
  BY DEF TypeOK, Raise, Goto, OneImport, Active, Calls
<1> QED
  BY <1>1, <1>2, <1>3, <1>4, <1>5

LEMMA Beginnings ==
  ASSUME IInv, NEW c \in Calls, Begin(c)
  PROVE  IInv'
<1>1. CASE open[ConnOf(c)]
  BY <1>1, Errors DEF Begin, Active
<1>2. CASE ~open[ConnOf(c)]
  <2> USE DEF IInv
  <2>0. /\ pc[c] = "beginning" /\ pc' = [pc EXCEPT ![c] = "writing"]
        /\ open' = [open EXCEPT ![ConnOf(c)] = TRUE]
        /\ UNCHANGED <<lock, pending, pinned, todo, committed>>
    BY <1>2 DEF Begin, Goto
  <2>1. TypeOK'
    BY <2>0, ConnType DEF TypeOK, Phases
  <2>2. Untouched' /\ WrittenOut' /\ AckedIsCommitted' /\ NothingDropped'
    BY <2>0 DEF TypeOK, Untouched, WrittenOut, AckedIsCommitted, NothingDropped, AtWork
  <2>3. ClosedIsEmpty'
    BY <2>0, ConnType DEF TypeOK, ClosedIsEmpty
  <2>4. OneImport'
    BY <2>0 DEF TypeOK, OneImport, Active, Calls
  <2> QED
    BY <2>1, <2>2, <2>3, <2>4
<1> QED
  BY <1>1, <1>2

LEMMA Writes ==
  ASSUME IInv, NEW c \in Calls, NEW r \in Rows, WriteRow(c, r)
  PROVE  IInv'
<1> USE DEF IInv
<1> DEFINE k == ConnOf(c)
<1>0. /\ pc[c] = "writing" /\ r \in todo[c] /\ k \in Connections
      /\ todo' = [todo EXCEPT ![c] = @ \ {r}]
      /\ UNCHANGED <<lock, open>>
  BY ConnType DEF WriteRow
<1>1. \/ /\ open[k]
         /\ pending' = [pending EXCEPT ![k] = @ \cup {r}]
         /\ committed' = committed
      \/ /\ ~open[k]
         /\ committed' = committed \cup {r}
         /\ pending' = pending
  BY DEF WriteRow
<1>2. \/ todo[c] = {r} /\ pc' = [pc EXCEPT ![c] = "checking"]
      \/ todo[c] # {r} /\ \E p \in {"writing", "executing"} : pc' = [pc EXCEPT ![c] = p]
  BY DEF WriteRow, Goto
<1>3. TypeOK'
  <2>1. pinned' \in {"nothing", "current", "old"}
    BY DEF WriteRow, TypeOK, PinnedAfterCommit
  <2>2. pc' \in [Calls -> Phases]
    BY <1>2 DEF TypeOK, Phases
  <2> QED
    BY <1>0, <1>1, <2>1, <2>2 DEF TypeOK
<1>4. Untouched' /\ WrittenOut'
  BY <1>0, <1>2 DEF TypeOK, Untouched, WrittenOut
<1>5. committed \subseteq committed' /\ \A j \in Connections : pending[j] \subseteq pending'[j]
  BY <1>0, <1>1 DEF TypeOK
<1>6. AckedIsCommitted'
  BY <1>2, <1>5 DEF TypeOK, AckedIsCommitted
<1>7. NothingDropped'
  <2> SUFFICES ASSUME NEW d \in Calls, pc'[d] \in AtWork
               PROVE  RowsOf[d] \ todo'[d] \subseteq committed' \cup pending'[ConnOf(d)]
    BY DEF NothingDropped
  <2>1. CASE d # c
    BY <2>1, <1>0, <1>2, <1>5, ConnType DEF NothingDropped, TypeOK
  <2>2. CASE d = c
    <3>1. RowsOf[c] \ todo[c] \subseteq committed \cup pending[k]
      BY <1>0 DEF NothingDropped, AtWork
    <3>2. r \in committed' \cup pending'[k]
      BY <1>0, <1>1 DEF TypeOK
    <3> QED
      BY <2>2, <1>0, <1>5, <3>1, <3>2 DEF TypeOK
  <2> QED
    BY <2>1, <2>2
<1>8. ClosedIsEmpty'
  BY <1>0, <1>1 DEF TypeOK, ClosedIsEmpty
<1>9. OneImport'
  BY <1>0, <1>2 DEF TypeOK, OneImport, Active, Calls
<1> QED
  BY <1>3, <1>4, <1>6, <1>7, <1>8, <1>9

(* A commit moves what all calls of the connection have pending.            *)
LEMMA Commits ==
  ASSUME IInv, NEW c \in Calls, Commit(c)
  PROVE  IInv'
<1>1. CASE ~open[ConnOf(c)]
  BY <1>1, Errors DEF Commit, Active
<1>2. CASE open[ConnOf(c)]
  <2> USE DEF IInv
  <2> DEFINE k == ConnOf(c)
  <2>0. /\ pc[c] = "committing" /\ pc' = [pc EXCEPT ![c] = "returned"]
        /\ committed' = committed \cup pending[k]
        /\ open' = [open EXCEPT ![k] = FALSE]
        /\ pending' = [pending EXCEPT ![k] = {}]
        /\ lock' = Unlocked(c) /\ todo' = todo /\ k \in Connections
    BY <1>2, ConnType DEF Commit, Return, Goto
  <2>1. TypeOK'
    <3>1. pinned' \in {"nothing", "current", "old"}
      BY <1>2 DEF Commit, TypeOK, PinnedAfterCommit
    <3> QED
      BY <2>0, <3>1 DEF TypeOK, Phases, Unlocked
  <2>2. Untouched' /\ WrittenOut'
    BY <2>0 DEF TypeOK, Untouched, WrittenOut
  <2>3. RowsOf[c] \subseteq committed'
    BY <2>0 DEF NothingDropped, WrittenOut, AtWork
  <2>4. AckedIsCommitted'
    BY <2>0, <2>3 DEF TypeOK, AckedIsCommitted
  <2>5. \A j \in Connections : committed \cup pending[j] \subseteq committed' \cup pending'[j]
    BY <2>0 DEF TypeOK
  <2>6. NothingDropped'
    BY <2>0, <2>5, ConnType DEF TypeOK, NothingDropped, AtWork
  <2>7. ClosedIsEmpty'
    BY <2>0 DEF TypeOK, ClosedIsEmpty
  <2>8. OneImport'
    BY <2>0 DEF TypeOK, OneImport, Active, Calls
  <2> QED
    BY <2>1, <2>2, <2>4, <2>6, <2>7, <2>8
<1> QED
  BY <1>1, <1>2

LEMMA Crashes == ASSUME IInv, Crash PROVE IInv'
<1> USE DEF IInv
<1>1. TypeOK'
  BY DEF TypeOK, Crash, Phases, Connections
<1>2. Untouched' /\ WrittenOut' /\ AckedIsCommitted'
  BY DEF TypeOK, Crash, Untouched, WrittenOut, AckedIsCommitted, Active
<1>3. NothingDropped'
  <2> SUFFICES ASSUME NEW d \in Calls, pc'[d] \in AtWork
               PROVE  RowsOf[d] \ todo'[d] \subseteq committed' \cup pending'[ConnOf(d)]
    BY DEF NothingDropped
  <2>1. d \in Imports /\ pc[d] \in AtWork
    BY DEF Crash, Active, AtWork
  <2>2. pending'[ConnOf(d)] = pending[ConnOf(d)] /\ UNCHANGED <<todo, committed>>
    BY <2>1 DEF Crash, TypeOK, ConnOf, Connections
  <2> QED
    BY <2>1, <2>2 DEF NothingDropped
<1>4. ClosedIsEmpty'
  BY DEF TypeOK, Crash, ClosedIsEmpty, Connections
<1>5. OneImport'
  BY DEF Crash, OneImport, Active, Calls
<1> QED
  BY <1>1, <1>2, <1>3, <1>4, <1>5

LEMMA NextIInv == IInv /\ [Next]_vars => IInv'
<1> SUFFICES ASSUME IInv, [Next]_vars PROVE IInv'
  OBVIOUS
<1>1. ASSUME NEW c \in Calls, Start(c) \/ Work(c) PROVE IInv'
  <2>1. CASE WriteFails(c)
    BY <2>1, Errors DEF WriteFails, Active
  <2> QED
    BY <1>1, <2>1, QuietSteps, Beginnings, Writes, Commits DEF Work
<1>2. CASE Select
  BY <1>2 DEF Select, IInv, TypeOK, AckedIsCommitted, Untouched, WrittenOut, NothingDropped,
     ClosedIsEmpty, OneImport, Active
<1>3. CASE UNCHANGED vars
  BY <1>3 DEF vars, IInv, TypeOK, AckedIsCommitted, Untouched, WrittenOut, NothingDropped,
     ClosedIsEmpty, OneImport, Active
<1> QED
  BY <1>1, <1>2, <1>3, Crashes DEF Next

LEMMA Inductive == Spec => []IInv
<1> QED
  BY InitIInv, NextIInv, PTL DEF Spec

(* Every variable of the shared connection stays in its set.                *)
THEOREM TypeCorrect == Spec => []TypeOK
<1>1. IInv => TypeOK
  BY DEF IInv
<1> QED
  BY <1>1, Inductive, PTL

(* Whatever other threads and processes do, and whoever fails or crashes: a *)
(* method of CacheStore that returned has its rows in the database.         *)
THEOREM ReturnedMeansCommitted == Spec => []AckedIsCommitted
<1>1. IInv => AckedIsCommitted
  BY DEF IInv
<1> QED
  BY <1>1, Inductive, PTL
=============================================================================

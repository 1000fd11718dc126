--------------------------- MODULE StoreConnection ---------------------------
(***************************************************************************)
(* How app/store.py uses SQLite.  The gateway has one connection, which    *)
(* its event loop and the threads that render PyPI pages share; the        *)
(* importer is a process with a connection of its own.  A call is one run  *)
(* of a method that writes: execute or executemany, then commit.           *)
(*                                                                         *)
(* Python's sqlite3 opens a transaction by itself: execute looks whether   *)
(* one is open and steps BEGIN if not, commit looks again and steps COMMIT *)
(* if so, and other threads run between the look and the step.  No code    *)
(* rolls back, so a call that raises leaves what it opened.  The database  *)
(* is in WAL mode: one connection writes at a time, a SELECT inside an     *)
(* open transaction pins what it saw, and a pinned connection cannot write *)
(* once another one has committed.                                         *)
(***************************************************************************)
EXTENDS FiniteSets

CONSTANTS
  OnLoop,   \* calls of the event loop: touch, upsert, record_attempt, ...
  Renders,  \* register_pypi_links, each in a worker thread
  Imports,  \* calls of the importer
  Rows,
  RowsOf,   \* call -> the rows it writes
  Faults,   \* subset of {"crash"}
  NoCall

Calls == OnLoop \cup Renders \cup Imports

ASSUME CallsAreApart ==
  /\ Renders \cap OnLoop = {} /\ Imports \cap (OnLoop \cup Renders) = {}
  /\ NoCall \notin Calls
  /\ RowsOf \in [Calls -> SUBSET Rows]
  /\ \A c \in Calls : RowsOf[c] # {}

Connections == {"gateway", "importer"}

ConnOf(c) == IF c \in Imports THEN "importer" ELSE "gateway"

VARIABLES
  pc,
  todo,       \* call -> rows it has still to write
  lock,       \* PypiGateway._link_registration_lock
  open,       \* connection -> a transaction is open (not in autocommit mode)
  pending,    \* connection -> rows written and not committed
  pinned,     \* what an open transaction of the gateway has read
  committed   \* rows every connection sees

vars == <<pc, todo, lock, open, pending, pinned, committed>>

Init ==
  /\ pc = [c \in Calls |-> "new"]
  /\ todo = RowsOf
  /\ lock = NoCall
  /\ open = [k \in Connections |-> FALSE]
  /\ pending = [k \in Connections |-> {}]
  /\ pinned = "nothing"
  /\ committed = {}

Active(c) == pc[c] \in {"asking", "executing", "beginning", "writing", "checking", "committing"}

Goto(c, phase) == pc' = [pc EXCEPT ![c] = phase]

-----------------------------------------------------------------------------
(* One thread runs the event loop and one process imports; both finish a    *)
(* call before the next.                                                    *)
ThreadIsFree(c) ==
  \A group \in {OnLoop, Imports} : c \in group => \A d \in group : ~Active(d)

Start(c) ==
  /\ pc[c] = "new"
  /\ ThreadIsFree(c)
  /\ Goto(c, "asking")
  /\ UNCHANGED <<todo, lock, open, pending, pinned, committed>>

EnterAlways(c) ==  \* mutant: every call takes the renderers' lock
  /\ pc[c] = "asking" /\ lock = NoCall
  /\ lock' = c
  /\ Goto(c, "executing")
  /\ UNCHANGED <<todo, open, pending, pinned, committed>>

(* Only renderers exclude each other.                                       *)
Enter(c) ==
  /\ pc[c] = "asking"
  /\ c \in Renders => lock = NoCall
  /\ lock' = IF c \in Renders THEN c ELSE lock
  /\ Goto(c, "executing")
  /\ UNCHANGED <<todo, open, pending, pinned, committed>>

Unlocked(c) == IF lock = c THEN NoCall ELSE lock

KeepsLock(c) == lock  \* mutant: the lock is released on success only

LockAfterError(c) == Unlocked(c)

RaiseRollsBack(c) ==  \* mutant: `with connection`, which rolls back
  /\ Goto(c, "raised")
  /\ lock' = LockAfterError(c)
  /\ open' = [open EXCEPT ![ConnOf(c)] = FALSE]
  /\ pending' = [pending EXCEPT ![ConnOf(c)] = {}]
  /\ pinned' = IF c \in Imports THEN pinned ELSE "nothing"

(* The exception goes up to the request, which fails; the gateway's         *)
(* transaction stays as it is.  It ends the importer, whose connection is   *)
(* closed.                                                                  *)
Raise(c) ==
  /\ Goto(c, "raised")
  /\ lock' = LockAfterError(c)
  /\ open' = IF c \in Imports THEN [open EXCEPT !["importer"] = FALSE] ELSE open
  /\ pending' = IF c \in Imports THEN [pending EXCEPT !["importer"] = {}] ELSE pending
  /\ UNCHANGED pinned

Return(c) ==
  /\ Goto(c, "returned")
  /\ lock' = Unlocked(c)

-----------------------------------------------------------------------------
(* execute and executemany *)

(* "Is a transaction open?"                                                 *)
Execute(c) ==
  /\ pc[c] = "executing"
  /\ Goto(c, IF open[ConnOf(c)] THEN "writing" ELSE "beginning")
  /\ UNCHANGED <<todo, lock, open, pending, pinned, committed>>

(* BEGIN, which another thread's BEGIN may have forestalled: "cannot start  *)
(* a transaction within a transaction".                                     *)
Begin(c) ==
  /\ pc[c] = "beginning"
  /\ \/ /\ open[ConnOf(c)]
        /\ Raise(c)
     \/ /\ ~open[ConnOf(c)]
        /\ open' = [open EXCEPT ![ConnOf(c)] = TRUE]
        /\ Goto(c, "writing")
        /\ UNCHANGED <<lock, pending, pinned>>
  /\ UNCHANGED <<todo, committed>>

SomebodyElseWrites(c) == \E k \in Connections \ {ConnOf(c)} : pending[k] # {}

Outdated(c) == c \notin Imports /\ pinned = "old"

(* What another connection's commit does to a transaction that has read.    *)
PinnedAfterCommit(c) ==
  IF c \in Imports /\ pinned = "current" THEN "old" ELSE pinned

(* One row.  If another thread's commit has ended the transaction in the    *)
(* meantime, the row commits by itself.  A method of several statements     *)
(* looks for a transaction before each of them, executemany only once.      *)
WriteRow(c, r) ==
  /\ pc[c] = "writing" /\ r \in todo[c]
  /\ ~SomebodyElseWrites(c) /\ ~Outdated(c)
  /\ todo' = [todo EXCEPT ![c] = @ \ {r}]
  /\ IF open[ConnOf(c)]
     THEN /\ pending' = [pending EXCEPT ![ConnOf(c)] = @ \cup {r}]
          /\ pinned' = IF c \in Imports THEN pinned ELSE "current"
          /\ UNCHANGED committed
     ELSE /\ committed' = committed \cup {r}
          /\ pinned' = PinnedAfterCommit(c)
          /\ UNCHANGED pending
  /\ Goto(c, IF todo[c] = {r} THEN "checking"
             ELSE IF c \in Renders THEN "writing" ELSE "executing")
  /\ UNCHANGED <<lock, open>>

(* "database is locked", when busy_timeout has run out (five seconds) or,   *)
(* for a transaction that has read an older state, at once.                 *)
WriteFails(c) ==
  /\ pc[c] = "writing"
  /\ SomebodyElseWrites(c) \/ Outdated(c)
  /\ Raise(c)
  /\ UNCHANGED <<todo, committed>>

-----------------------------------------------------------------------------
(* commit *)

(* "Is a transaction open?" - nothing to do if not.                         *)
Check(c) ==
  /\ pc[c] = "checking"
  /\ \/ /\ open[ConnOf(c)]
        /\ Goto(c, "committing")
        /\ UNCHANGED lock
     \/ /\ ~open[ConnOf(c)]
        /\ Return(c)
  /\ UNCHANGED <<todo, open, pending, pinned, committed>>

(* COMMIT commits what all threads of the connection have written, or finds *)
(* that another thread has done so: "cannot commit - no transaction is      *)
(* active".                                                                 *)
Commit(c) ==
  /\ pc[c] = "committing"
  /\ \/ /\ open[ConnOf(c)]
        /\ committed' = committed \cup pending[ConnOf(c)]
        /\ open' = [open EXCEPT ![ConnOf(c)] = FALSE]
        /\ pending' = [pending EXCEPT ![ConnOf(c)] = {}]
        /\ pinned' = IF c \in Imports THEN PinnedAfterCommit(c) ELSE "nothing"
        /\ Return(c)
     \/ /\ ~open[ConnOf(c)]
        /\ Raise(c)
        /\ UNCHANGED committed
  /\ UNCHANGED todo

-----------------------------------------------------------------------------
(* A request of the event loop looks something up.                          *)
Select ==
  /\ \A c \in OnLoop : ~Active(c)
  /\ pinned' = IF open["gateway"] /\ pinned = "nothing" THEN "current" ELSE pinned
  /\ UNCHANGED <<pc, todo, lock, open, pending, committed>>

(* The gateway is killed; SQLite rolls back when the file is opened again.  *)
Crash ==
  /\ "crash" \in Faults
  /\ \E c \in OnLoop \cup Renders : Active(c)
  /\ pc' = [c \in Calls |-> IF c \notin Imports /\ Active(c) THEN "raised" ELSE pc[c]]
  /\ lock' = NoCall
  /\ open' = [open EXCEPT !["gateway"] = FALSE]
  /\ pending' = [pending EXCEPT !["gateway"] = {}]
  /\ pinned' = "nothing"
  /\ UNCHANGED <<todo, committed>>

Work(c) ==
  \/ Enter(c) \/ Execute(c) \/ Begin(c) \/ Check(c) \/ Commit(c)
  \/ WriteFails(c)
  \/ \E r \in Rows : WriteRow(c, r)

Next == (\E c \in Calls : Start(c) \/ Work(c)) \/ Select \/ Crash

Spec == Init /\ [][Next]_vars

(* Threads and processes are scheduled, and a wait for another writer ends  *)
(* after five seconds at the latest.                                        *)
LiveSpec == Spec /\ \A c \in Calls : WF_vars(Work(c))
-----------------------------------------------------------------------------
(* Properties *)

Phases == {"new", "asking", "executing", "beginning", "writing", "checking",
           "committing", "returned", "raised"}

(* Every variable stays in its set.                                         *)
TypeOK ==
  /\ pc \in [Calls -> Phases]
  /\ todo \in [Calls -> SUBSET Rows]
  /\ lock \in Renders \cup {NoCall}
  /\ open \in [Connections -> BOOLEAN]
  /\ pending \in [Connections -> SUBSET Rows]
  /\ pinned \in {"nothing", "current", "old"}
  /\ committed \subseteq Rows

(* What a call that returned has written is in the database for good: no    *)
(* thread's error and no crash takes another thread's rows back.            *)
AckedIsCommitted ==
  \A c \in Calls : pc[c] = "returned" => RowsOf[c] \subseteq committed

(* Whoever began a call comes to its end, by a return or an error.          *)
EveryCallEnds ==
  \A c \in Calls : pc[c] = "asking" ~> pc[c] \in {"returned", "raised"}

(* "Register a complete PEP 503 page in one SQLite transaction."            *)
WholePages ==
  \A c \in Renders : RowsOf[c] \cap committed \in {{}, RowsOf[c]}

(* A call fails only while something else uses the database: no error       *)
(* leaves the gateway unable to write.                                      *)
LoneCallSucceeds ==
  [][\A c \in OnLoop : pc[c] = "writing" /\ pc'[c] = "raised" =>
       \E d \in Calls \ {c} : Active(d)]_vars
=============================================================================

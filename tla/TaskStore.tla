----------------------------- MODULE TaskStore -----------------------------
(***************************************************************************)
(* The persistent task store: one row per task and an append-only event    *)
(* tape per task (server/tasks/store.py, store_sqlite.py and               *)
(* store_postgres.py).  Every operation of the store is one transaction    *)
(* (one SQL statement, BEGIN IMMEDIATE in SQLite, an advisory lock in      *)
(* Postgres), so every operation is one step here.                         *)
(*                                                                         *)
(* The module has the store's state and one operator per store call.  It   *)
(* has no Next of its own: TaskManager decides who calls what and when.    *)
(*                                                                         *)
(* Abstractions.  Timestamps, the op name, the params digest and the JSON  *)
(* payloads are left out.  An event's seq is its position on the tape: the *)
(* store assigns max(seq) + 1 under the write lock.  A `final' event is    *)
(* represented by the status it carries.                                   *)
(***************************************************************************)
EXTENDS Naturals, Sequences

CONSTANT Task               \* task ids (uuid4 strings)

VARIABLES
    status,                 \* status[t]: the row's status column
    tape                    \* tape[t]: the task_events rows of t, by seq

storeVars == <<status, tape>>

Terminal == {"succeeded", "failed", "cancelled"}
Live     == {"pending", "running"}
Status   == {"absent"} \cup Live \cup Terminal

(* `log' and `partial' events behave as `progress' ones.                   *)
Event == {"task_started", "progress"} \cup Terminal
IsFinal(e) == e \in Terminal

(* The calls a coroutine hands to a worker thread.                         *)
Create    == [op |-> "create", arg |-> "pending"]
Update(s) == [op |-> "update", arg |-> s]
Emit(e)   == [op |-> "append", arg |-> e]
Get       == [op |-> "get",    arg |-> "absent"]

Call == {Create, Get} \cup {Update(s) : s \in Live \cup Terminal}
                     \cup {Emit(e) : e \in Event}

StoreInit ==
    /\ status = [t \in Task |-> "absent"]
    /\ tape   = [t \in Task |-> << >>]

(* TaskStore.create: INSERT of a fresh PENDING row.                        *)
CreateRow(t) ==
    /\ status' = [status EXCEPT ![t] = "pending"]
    /\ UNCHANGED tape

(* Fault: an UPDATE without the terminal guard.                            *)
UpdateStatusUnguarded(t, s) ==
    /\ status' = [status EXCEPT ![t] = s]
    /\ UNCHANGED tape

(* TaskStore.update_status: UPDATE ... WHERE status NOT IN (terminal), so a*)
(* terminal row is immutable and a late write is a silent no-op.           *)
UpdateStatus(t, s) ==
    /\ status' = [status EXCEPT ![t] = IF @ \in Live THEN s ELSE @]
    /\ UNCHANGED tape

(* Fault: an INSERT that does not look at the row's status first.          *)
AppendEventUnguarded(t, e) ==
    /\ tape' = [tape EXCEPT ![t] = Append(@, e)]
    /\ UNCHANGED status

(* TaskStore.append_event: a non-final event that arrives once the row is  *)
(* terminal is dropped, everything else goes to the end of the tape.       *)
AppendEvent(t, e) ==
    /\ tape' = IF status[t] \in Terminal /\ ~IsFinal(e)
                 THEN tape
                 ELSE [tape EXCEPT ![t] = Append(@, e)]
    /\ UNCHANGED status

(* Fault: PENDING rows are not counted as unfinished.                      *)
ListOnlyRunning == {t \in Task : status[t] = "running"}

(* TaskStore.list_running: the rows the next boot finds unfinished.        *)
ListRunning == {t \in Task : status[t] \in Live}

(* What the worker thread does to the database when it runs call c for t.  *)
Execute(t, c) ==
    \/ c.op = "create" /\ CreateRow(t)
    \/ c.op = "update" /\ UpdateStatus(t, c.arg)
    \/ c.op = "append" /\ AppendEvent(t, c.arg)
    \/ c.op = "get"    /\ UNCHANGED storeVars

StoreTypeOK ==
    /\ status \in [Task -> Status]
    /\ tape \in [Task -> Seq(Event)]
=============================================================================

--------------------------- MODULE TaskLifecycle ---------------------------
(***************************************************************************)
(* The contract of a task: what a reader of the task store may count on,   *)
(* whoever writes to it (the TaskStore protocol of server/tasks/store.py   *)
(* and the event schema of server/tasks/events.py).  A row moves from      *)
(* PENDING to RUNNING to one terminal status and stays there; its tape     *)
(* begins with task_started, records progress while the row is RUNNING,    *)
(* and gets at most one final, after the row is terminal.                  *)
(*                                                                         *)
(* Three things a reader may NOT count on, because the code does not       *)
(* provide them: a final (a crash or a cancel between the row's update and *)
(* the append loses it), a task_started (so is it), and that the final     *)
(* agrees with a row that SUCCEEDED (when appending the `succeeded' final  *)
(* raises, a `failed' one follows).                                        *)
(*                                                                         *)
(* This is an abstract specification: nothing here is shared with the      *)
(* model of the store, so that a fault in the store is a fault against it. *)
(***************************************************************************)
EXTENDS Naturals, Sequences

CONSTANT Task

VARIABLES status, tape

Live     == {"pending", "running"}
Terminal == {"succeeded", "failed", "cancelled"}
Progress == {"task_started", "progress"}

(* A final is represented by the status it carries.                        *)
HasFinal(t) == \E i \in 1..Len(tape[t]) : tape[t][i] \in Terminal

Init ==
    /\ status = [t \in Task |-> "absent"]
    /\ tape   = [t \in Task |-> << >>]

Accept(t) ==
    /\ status[t] = "absent"
    /\ status' = [status EXCEPT ![t] = "pending"]
    /\ UNCHANGED tape

Start(t) ==
    /\ status[t] = "pending"
    /\ status' = [status EXCEPT ![t] = "running"]
    /\ UNCHANGED tape

(* A restart or a cancel may settle a row that never ran.                  *)
Settle(t, s) ==
    /\ status[t] \in Live
    /\ status' = [status EXCEPT ![t] = s]
    /\ UNCHANGED tape

Record(t, e) ==
    /\ status[t] = "running"
    /\ (e = "task_started") <=> (tape[t] = << >>)
    /\ tape' = [tape EXCEPT ![t] = Append(@, e)]
    /\ UNCHANGED status

Conclude(t, e) ==
    /\ status[t] \in Terminal
    /\ ~HasFinal(t)
    /\ e = status[t] \/ (e = "failed" /\ status[t] = "succeeded")
    /\ tape' = [tape EXCEPT ![t] = Append(@, e)]
    /\ UNCHANGED status

Next ==
    \E t \in Task :
        \/ Accept(t)
        \/ Start(t)
        \/ \E s \in Terminal : Settle(t, s)
        \/ \E e \in Progress : Record(t, e)
        \/ \E e \in Terminal : Conclude(t, e)

Spec == Init /\ [][Next]_<<status, tape>>

(* The tape of t is task_started, then progress, then a final; each part   *)
(* may be missing, but there is no progress without task_started.          *)
Shape(t) ==
    \A i \in 1..Len(tape[t]) :
        /\ tape[t][i] \in Terminal => i = Len(tape[t])
        /\ tape[t][i] = "task_started" => i = 1
        /\ tape[t][i] = "progress" => tape[t][1] = "task_started"
=============================================================================

---------------------------- MODULE TaskManager ----------------------------
(***************************************************************************)
(* The task manager (server/tasks/manager.py): one asyncio coroutine per   *)
(* task drives the row from PENDING to a terminal status and writes the    *)
(* event tape through the store; /cancel, server shutdown, failing store   *)
(* calls and process crashes interrupt it at any await.                    *)
(*                                                                         *)
(* What makes it hard: every store call is an asyncio.to_thread.  The      *)
(* coroutine is parked (`Outstanding'), a worker thread runs the call      *)
(* (WorkerDone) and later the event loop resumes the coroutine.  A cancel  *)
(* delivered in between throws CancelledError at the await but does not    *)
(* stop the thread: the call lingers in `late' and may still write to the  *)
(* database behind the coroutine's back (LateLands).                       *)
(*                                                                         *)
(* task.cancel() and the CancelledError it causes are one step: nothing    *)
(* but the awaited call can happen to the task in between, and a second    *)
(* cancel() before the first is delivered is absorbed by it.  The notify   *)
(* of the task's Condition after an append is part of the append's await.  *)
(***************************************************************************)
EXTENDS TaskStore, FiniteSets

CONSTANTS
    MaxReports,             \* bound: progress events of one task
    MaxCancels,             \* bound: cancel requests, all tasks together
    MaxFaults,              \* bound: store calls that raise
    MaxCrashes              \* bound: crashes and shutdowns of the process

ASSUME BoundsAssumption ==
    {MaxReports, MaxCancels, MaxFaults, MaxCrashes} \subseteq Nat

VARIABLES
    pc,                     \* pc[t]: the await _run (or submit) is parked at
    reply,                  \* reply[t]: what that await has to return
    late,                   \* late[t]: calls whose awaiter is gone
    running,                \* the keys of TaskManager._running
    token,                  \* tasks whose CancelToken is set
    server,                 \* the process: down, reaping, up, stopping
    orphans,                \* restart_cleanup: rows still to be marked
    marked,                 \* restart_cleanup: the row marked, not yet told
    cancels, faults, crashes

loopVars  == <<pc, reply, late, running, token>>
bootVars  == <<server, orphans, marked>>
countVars == <<cancels, faults, crashes>>
vars == <<storeVars, loopVars, bootVars, countVars>>

-----------------------------------------------------------------------------
(* Fault: the final is appended before the row is updated.                 *)
CallAtFinalFirst ==
    [ create |-> Create, start |-> Update("running"), announce |-> Emit("task_started"),
      report |-> Emit("progress"),
      succeed |-> Emit("succeeded"), tellSucceeded |-> Update("succeeded"),
      cancelling |-> Update("cancelled"), reread |-> Get, tellCancelled |-> Emit("cancelled"),
      failing |-> Update("failed"), tellFailed |-> Emit("failed") ]

(* The store call _run (or submit) awaits at each point.                   *)
CallAt == [ create        |-> Create,
            start         |-> Update("running"),
            announce      |-> Emit("task_started"),
            report        |-> Emit("progress"),
            succeed       |-> Update("succeeded"),
            tellSucceeded |-> Emit("succeeded"),
            cancelling    |-> Update("cancelled"),
            reread        |-> Get,
            tellCancelled |-> Emit("cancelled"),
            failing       |-> Update("failed"),
            tellFailed    |-> Emit("failed") ]

Awaiting == DOMAIN CallAt
PC == Awaiting \cup {"none", "ready", "work", "unwind", "cleanup", "done"}

(* Fault: the SUCCEEDED arm forgets its final.                             *)
OnReturnNoFinal ==
    [ start |-> "announce", announce |-> "work", report |-> "work", succeed |-> "cleanup",
      tellSucceeded |-> "cleanup", cancelling |-> "reread", tellCancelled |-> "cleanup",
      failing |-> "tellFailed", tellFailed |-> "cleanup" ]

(* Where a normal return of the call takes the coroutine.                  *)
OnReturn == [ start         |-> "announce",
              announce      |-> "work",
              report        |-> "work",
              succeed       |-> "tellSucceeded",
              tellSucceeded |-> "cleanup",
              cancelling    |-> "reread",
              tellCancelled |-> "cleanup",
              failing       |-> "tellFailed",
              tellFailed    |-> "cleanup" ]

(* The awaits inside the try block: its except arms catch what is thrown   *)
(* there.  An exception thrown inside an except arm reaches only finally.  *)
TryBlock == {"start", "announce", "report", "work", "unwind",
             "succeed", "tellSucceeded"}

OnError(p) == IF p \in TryBlock THEN "failing" ELSE "cleanup"

(* Fault: the FAILED arm lies inside the try that catches CancelledError.  *)
OnCancelNested(p) ==
    CASE p \in {"work", "report", "unwind"}                       -> "unwind"
      [] p \in {"start", "announce", "succeed", "tellSucceeded",
                "failing", "tellFailed"}                          -> "cancelling"
      [] p \in {"cancelling", "reread", "tellCancelled"}          -> "cleanup"
      [] p \in {"ready", "cleanup", "done"}                       -> "done"
      [] OTHER                                                    -> p

(* Where a CancelledError thrown at point p takes the coroutine.  Before   *)
(* the first step the body is never entered, not even its finally.  Inside *)
(* the runner it first unwinds the runner's own handlers.                  *)
OnCancel(p) ==
    CASE p \in {"work", "report", "unwind"}                    -> "unwind"
      [] p \in {"start", "announce", "succeed", "tellSucceeded"} -> "cancelling"
      [] p \in {"cancelling", "reread", "tellCancelled",
                "failing", "tellFailed"}                       -> "cleanup"
      [] p \in {"ready", "cleanup", "done"}                    -> "done"
      [] OTHER                                                 -> p

Outstanding(t) == pc[t] \in Awaiting /\ reply[t] = "none"

Serving == server \in {"up", "stopping"}

Init ==
    /\ StoreInit
    /\ pc      = [t \in Task |-> "none"]
    /\ reply   = [t \in Task |-> "none"]
    /\ late    = [t \in Task |-> {}]
    /\ running = {}
    /\ token   = {}
    /\ server  = "up"
    /\ orphans = {}
    /\ marked  = {}
    /\ cancels = 0 /\ faults = 0 /\ crashes = 0

-----------------------------------------------------------------------------
(* Worker threads.                                                         *)

(* A worker thread runs the call a coroutine is waiting for.               *)
WorkerDone(t) ==
    /\ Outstanding(t)
    /\ Execute(t, CallAt[pc[t]])
    /\ reply' = [reply EXCEPT ![t] = IF pc[t] = "reread" THEN status[t] ELSE "ok"]
    /\ UNCHANGED <<pc, late, running, token, bootVars, countVars>>

(* The call raises (locked database, full disk, lost connection) and the   *)
(* transaction is rolled back.                                             *)
WorkerFails(t) ==
    /\ Outstanding(t)
    /\ faults < MaxFaults
    /\ reply'  = [reply EXCEPT ![t] = "error"]
    /\ faults' = faults + 1
    /\ UNCHANGED <<storeVars, pc, late, running, token, bootVars, cancels, crashes>>

(* A call whose awaiter was cancelled reaches the database all the same.   *)
LateLands(t) ==
    \E c \in late[t] :
        /\ Execute(t, c)
        /\ late' = [late EXCEPT ![t] = @ \ {c}]
        /\ UNCHANGED <<pc, reply, running, token, bootVars, countVars>>

-----------------------------------------------------------------------------
(* The coroutine of a task.                                                *)

Goto(t, p) ==
    /\ pc'    = [pc EXCEPT ![t] = p]
    /\ reply' = [reply EXCEPT ![t] = "none"]

(* submit: a fresh uuid, then the row is inserted.                         *)
Submit(t) ==
    /\ server = "up"
    /\ pc[t] = "none" /\ status[t] = "absent"
    /\ Goto(t, "create")
    /\ UNCHANGED <<storeVars, late, running, token, bootVars, countVars>>

(* submit, after the insert: create_task and the _running entry, with no   *)
(* await between the two.                                                  *)
Register(t) ==
    /\ pc[t] = "create" /\ reply[t] = "ok"
    /\ Goto(t, "ready")
    /\ running' = running \cup {t}
    /\ UNCHANGED <<storeVars, late, token, bootVars, countVars>>

(* The insert failed: the request fails and there is no task.              *)
SubmitFails(t) ==
    /\ pc[t] = "create" /\ reply[t] = "error"
    /\ Goto(t, "none")
    /\ UNCHANGED <<storeVars, late, running, token, bootVars, countVars>>

(* The event loop runs the first step of _run.                             *)
Begin(t) ==
    /\ pc[t] = "ready"
    /\ Goto(t, "start")
    /\ UNCHANGED <<storeVars, late, running, token, bootVars, countVars>>

(* The awaited call returned.                                              *)
Resume(t) ==
    /\ pc[t] \in DOMAIN OnReturn /\ reply[t] = "ok"
    /\ Goto(t, OnReturn[pc[t]])
    /\ UNCHANGED <<storeVars, late, running, token, bootVars, countVars>>

(* The awaited call raised.                                                *)
Throw(t) ==
    /\ pc[t] \in Awaiting \ {"create"} /\ reply[t] = "error"
    /\ Goto(t, OnError(pc[t]))
    /\ UNCHANGED <<storeVars, late, running, token, bootVars, countVars>>

(* Fault: the cancel arm emits its final without a look at the row.        *)
RereadIgnored(t) ==
    /\ pc[t] = "reread" /\ reply[t] \in Status
    /\ Goto(t, "tellCancelled")
    /\ UNCHANGED <<storeVars, late, running, token, bootVars, countVars>>

(* Fault: the cancel arm waits for its CANCELLED write to show.            *)
RereadUntilCancelled(t) ==
    /\ pc[t] = "reread" /\ reply[t] \in Status
    /\ Goto(t, IF reply[t] = "cancelled" THEN "tellCancelled" ELSE "reread")
    /\ UNCHANGED <<storeVars, late, running, token, bootVars, countVars>>

(* The cancel arm emits its final only if its CANCELLED write won.         *)
Reread(t) ==
    /\ pc[t] = "reread" /\ reply[t] \in Status
    /\ Goto(t, IF reply[t] \in {"absent", "cancelled"}
                 THEN "tellCancelled" ELSE "cleanup")
    /\ UNCHANGED <<storeVars, late, running, token, bootVars, countVars>>

(* The runner emits a progress, log or partial event.                      *)
RunnerReports(t) ==
    /\ pc[t] = "work"
    /\ Len(tape[t]) <= MaxReports
    /\ Goto(t, "report")
    /\ UNCHANGED <<storeVars, late, running, token, bootVars, countVars>>

RunnerReturns(t) ==
    /\ pc[t] = "work"
    /\ Goto(t, "succeed")
    /\ UNCHANGED <<storeVars, late, running, token, bootVars, countVars>>

(* The runner raises; so may the handlers a cancellation unwinds.          *)
RunnerRaises(t) ==
    /\ pc[t] \in {"work", "unwind"}
    /\ Goto(t, "failing")
    /\ UNCHANGED <<storeVars, late, running, token, bootVars, countVars>>

(* The runner's handlers re-raise CancelledError.                          *)
RunnerUnwinds(t) ==
    /\ pc[t] = "unwind"
    /\ Goto(t, "cancelling")
    /\ UNCHANGED <<storeVars, late, running, token, bootVars, countVars>>

(* finally: notify the waiters and pop the _running entry.                 *)
Finish(t) ==
    /\ pc[t] = "cleanup"
    /\ Goto(t, "done")
    /\ running' = running \ {t}
    /\ UNCHANGED <<storeVars, late, token, bootVars, countVars>>

-----------------------------------------------------------------------------
(* Cancellation.                                                           *)

(* CancelledError is thrown into the tasks of T.  The call each one awaits *)
(* is abandoned: still queued and dropped, or lingering in its thread.     *)
Interrupt(T) ==
    /\ \E kept \in SUBSET {t \in T : Outstanding(t)} :
         late' = [t \in Task |-> IF t \in kept
                                   THEN late[t] \cup {CallAt[pc[t]]}
                                   ELSE late[t]]
    /\ pc'    = [t \in Task |-> IF t \in T THEN OnCancel(pc[t]) ELSE pc[t]]
    /\ reply' = [t \in Task |-> IF t \in T THEN "none" ELSE reply[t]]
    /\ token' = token \cup T

(* POST /tasks/{id}/cancel; without a _running entry it changes nothing.   *)
Cancel(t) ==
    /\ server = "up"
    /\ t \in running
    /\ cancels < MaxCancels
    /\ Interrupt({t})
    /\ cancels' = cancels + 1
    /\ UNCHANGED <<storeVars, running, bootVars, faults, crashes>>

(* TaskManager.shutdown, which the web server calls when no request is     *)
(* being served any more.                                                  *)
Shutdown ==
    /\ server = "up"
    /\ crashes < MaxCrashes
    /\ \A t \in Task : pc[t] # "create"
    /\ Interrupt(running)
    /\ server' = "stopping"
    /\ UNCHANGED <<storeVars, running, orphans, marked, countVars>>

-----------------------------------------------------------------------------
(* The process.                                                            *)

(* The process dies, in the middle of anything: a kill, an OOM, or the end *)
(* of shutdown's five seconds.  Only the database survives.                *)
Crash ==
    /\ server # "down"
    /\ crashes < MaxCrashes
    /\ pc'      = [t \in Task |-> "none"]
    /\ reply'   = [t \in Task |-> "none"]
    /\ late'    = [t \in Task |-> {}]
    /\ running' = {}
    /\ token'   = {}
    /\ server'  = "down"
    /\ orphans' = {}
    /\ marked'  = {}
    /\ crashes' = crashes + 1
    /\ UNCHANGED <<storeVars, cancels, faults>>

(* build_runtime: restart_cleanup reads the unfinished rows ...            *)
Boot ==
    /\ server = "down"
    /\ server'  = "reaping"
    /\ orphans' = ListRunning
    /\ UNCHANGED <<storeVars, loopVars, marked, countVars>>

(* ... marks each one FAILED ...                                           *)
ReapMark(t) ==
    /\ server = "reaping" /\ marked = {} /\ t \in orphans
    /\ UpdateStatus(t, "failed")
    /\ orphans' = orphans \ {t}
    /\ marked'  = {t}
    /\ UNCHANGED <<loopVars, server, countVars>>

(* ... and appends its final, in a second transaction.                     *)
ReapTell(t) ==
    /\ server = "reaping" /\ t \in marked
    /\ AppendEvent(t, "failed")
    /\ marked' = {}
    /\ UNCHANGED <<loopVars, server, orphans, countVars>>

Serve ==
    /\ server = "reaping" /\ orphans = {} /\ marked = {}
    /\ server' = "up"
    /\ UNCHANGED <<storeVars, loopVars, orphans, marked, countVars>>

(* A server with nothing to do stays up.                                   *)
Idle ==
    /\ server = "up"
    /\ \A t \in Task : pc[t] \in {"none", "done"} /\ late[t] = {}
    /\ UNCHANGED vars

-----------------------------------------------------------------------------
Worker(t) == WorkerDone(t) \/ LateLands(t)

Coroutine(t) ==
    \/ Register(t)      \/ SubmitFails(t)  \/ Begin(t)
    \/ Resume(t)        \/ Throw(t)        \/ Reread(t)
    \/ RunnerReports(t) \/ RunnerReturns(t) \/ RunnerRaises(t)
    \/ RunnerUnwinds(t) \/ Finish(t)

Reap == Serve \/ \E t \in Task : ReapMark(t) \/ ReapTell(t)

Next ==
    \/ \E t \in Task :
         \/ Worker(t)
         \/ Coroutine(t)
         \/ WorkerFails(t)
         \/ Submit(t)
         \/ Cancel(t)
    \/ Shutdown
    \/ Crash
    \/ Boot
    \/ Reap
    \/ Idle

Spec == Init /\ [][Next]_vars

(* The event loop resumes what is ready, every worker thread finishes its  *)
(* call (busy_timeout), a runner ends, and restart_cleanup runs to its end.*)
(* Nothing says that anyone submits, cancels, stops or reboots.            *)
Fairness ==
    /\ \A t \in Task : WF_vars(Worker(t)) /\ WF_vars(Coroutine(t))
    /\ WF_vars(Reap)

FairSpec == Spec /\ Fairness

-----------------------------------------------------------------------------
(* Properties.                                                             *)

Contract == INSTANCE TaskLifecycle
HasFinal(t) == Contract!HasFinal(t)

(* Types; a reply is there only while a call is awaited.                   *)
TypeOK ==
    /\ StoreTypeOK
    /\ pc      \in [Task -> PC]
    /\ reply   \in [Task -> {"none", "ok", "error"} \cup Status]
    /\ late    \in [Task -> SUBSET Call]
    /\ running \subseteq Task
    /\ token   \subseteq Task
    /\ server  \in {"down", "reaping", "up", "stopping"}
    /\ orphans \subseteq Task
    /\ marked  \subseteq Task
    /\ cancels \in Nat /\ faults \in Nat /\ crashes \in Nat
    /\ \A t \in Task : reply[t] # "none" => pc[t] \in Awaiting

(* A tape is task_started, then progress, then a final, each part optional *)
(* but progress never without task_started: whatever writes outlive their  *)
(* cancelled awaits, nothing follows the final and there is only one.      *)
TapeShape == \A t \in Task : Contract!Shape(t)

(* A final stands only beside a terminal row (a subscriber that sees it    *)
(* finds /result ready) and carries that row's status; only a store call   *)
(* that raised after the SUCCEEDED commit can make the two disagree.       *)
FinalMatchesRow ==
    \A t \in Task : HasFinal(t) =>
        LET last == tape[t][Len(tape[t])] IN
        /\ status[t] \in Terminal
        /\ \/ last = status[t]
           \/ last = "failed" /\ status[t] = "succeeded" /\ faults > 0

(* The cancel arm, when it re-reads the row, finds its own CANCELLED or    *)
(* the SUCCEEDED that committed before the cancel, never anything else     *)
(* (the comment in the arm's else branch).                                 *)
CancelArmReads ==
    \A t \in Task : pc[t] = "reread" /\ reply[t] \in Status =>
        reply[t] \in {"cancelled", "succeeded"}

(* Once restart_cleanup is over, no unfinished row is left of an earlier   *)
(* process, however often that process or the cleanup itself was killed.   *)
OrphansReaped ==
    server \in {"up", "stopping"} =>
        \A t \in Task : status[t] \in Live => pc[t] # "none"

(* A terminal row is immutable: no late write, no second cancel and no     *)
(* restart changes it.                                                     *)
TerminalIsFinal ==
    [][\A t \in Task : status[t] \in Terminal => status'[t] = status[t]]_vars

(* The manager and its restart_cleanup implement the contract of a task.   *)
ImplementsContract == Contract!Spec

(* A started coroutine always unwinds, unless its process dies.            *)
CoroutineEnds ==
    \A t \in Task : pc[t] = "ready" ~> pc[t] \in {"done", "none"}

(* A task that nobody cancels and no store failure hits ends with a        *)
(* terminal row and a final on its tape, unless its process dies; then     *)
(* the cleanup of the next boot makes the row terminal.                    *)
Settles ==
    \A t \in Task :
        /\ pc[t] = "ready" ~>
             \/ status[t] \in Terminal /\ HasFinal(t)
             \/ t \in token \/ faults > 0 \/ server = "down"
        /\ server = "reaping" /\ status[t] \in Live ~>
             status[t] \in Terminal \/ server = "down"

(* "the succeeded arm owns the final": when a task has ended with a        *)
(* SUCCEEDED row and none of its writes is outstanding, its tape has a     *)
(* final.  The code does not provide it.                                   *)
SucceededOwnsFinal ==
    \A t \in Task :
        pc[t] = "done" /\ status[t] = "succeeded" /\ late[t] = {} => HasFinal(t)

(* "a graceful cancelled final is the contract" and cancel() is            *)
(* "Idempotent": when a task has ended with a CANCELLED row and none of    *)
(* its writes is outstanding, its tape has a final, however often it was   *)
(* cancelled.  The code does not provide it.                               *)
CancelledOwnsFinal ==
    \A t \in Task :
        pc[t] = "done" /\ status[t] = "cancelled" /\ late[t] = {} => HasFinal(t)
=============================================================================

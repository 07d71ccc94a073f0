------------------------- MODULE TaskManager_proofs -------------------------
(***************************************************************************)
(* What TLAPS proves of the task manager, for any number of tasks and any  *)
(* bounds: its safety properties and that it implements the contract of a  *)
(* task; and what that contract promises.                                  *)
(***************************************************************************)
EXTENDS TaskManager, SequenceTheorems, TLAPS

-----------------------------------------------------------------------------
(* The inductive invariant.  It says, for every await of the coroutine,    *)
(* what the row and the tape look like and which abandoned calls may still *)
(* be under way; everything the properties need follows from it.           *)

(* A final e agrees with the row, or a store fault explains that it does   *)
(* not.                                                                    *)
Agrees(t, e) ==
    \/ e = status[t]
    \/ e = "failed" /\ status[t] = "succeeded" /\ faults > 0

(* Before the first interruption no call is abandoned.                     *)
Undisturbed == {"none", "create", "ready", "start", "announce", "work",
                "report", "succeed", "tellSucceeded"}

Abandoned(p) ==
    CASE p \in Undisturbed -> {}
      [] p \in {"unwind", "failing", "tellFailed"} -> {Emit("progress")}
      [] p \in {"cancelling", "reread", "tellCancelled"} ->
            {Update("running"), Update("succeeded"), Emit("task_started"),
             Emit("progress"), Emit("succeeded")}
      [] OTHER ->
            {Update("running"), Update("succeeded"), Update("cancelled"),
             Update("failed"), Emit("task_started"), Emit("progress"),
             Emit("succeeded"), Emit("cancelled"), Emit("failed"), Get}

LateInv(t) ==
    /\ late[t] \subseteq Abandoned(pc[t])
    /\ Emit("task_started") \in late[t] /\ status[t] \in Live =>
         status[t] = "running" /\ tape[t] = << >>
    /\ Emit("progress") \in late[t] /\ status[t] \in Live =>
         status[t] = "running" /\ tape[t] # << >>
    /\ \A e \in Terminal : Emit(e) \in late[t] =>
         /\ ~HasFinal(t)
         /\ status[t] \in Terminal
         /\ Agrees(t, e)
         /\ pc[t] \in {"cancelling", "reread", "cleanup", "done"}
         /\ pc[t] \in {"cancelling", "reread"} => status[t] = "succeeded"
         /\ \A f \in Terminal : Emit(f) \in late[t] => f = e

RowInv(t) ==
    /\ status[t] = "absent" => tape[t] = << >> /\ pc[t] \in {"none", "create"}
    /\ pc[t] = "create" =>
         /\ status[t] = IF reply[t] = "ok" THEN "pending" ELSE "absent"
         /\ tape[t] = << >>
    /\ pc[t] = "ready" => status[t] = "pending" /\ tape[t] = << >>
    /\ pc[t] = "start" =>
         /\ status[t] = IF reply[t] = "ok" THEN "running" ELSE "pending"
         /\ tape[t] = << >>
    /\ pc[t] = "announce" =>
         status[t] = "running" /\ (tape[t] = << >> <=> reply[t] # "ok")
    /\ pc[t] \in {"work", "report"} => status[t] = "running" /\ tape[t] # << >>
    /\ pc[t] = "unwind" => status[t] = "running"
    /\ pc[t] = "succeed" =>
         status[t] = IF reply[t] = "ok" THEN "succeeded" ELSE "running"
    /\ pc[t] = "tellSucceeded" => status[t] = "succeeded"
    /\ pc[t] = "cancelling" =>
         status[t] \in IF reply[t] = "ok" THEN {"cancelled", "succeeded"}
                                          ELSE Live \cup {"succeeded"}
    /\ pc[t] = "reread" =>
         /\ status[t] \in {"cancelled", "succeeded"}
         /\ reply[t] \in Status => reply[t] = status[t]
    /\ pc[t] = "tellCancelled" => status[t] = "cancelled"
    /\ pc[t] = "failing" =>
         status[t] \in IF reply[t] = "ok" THEN {"failed", "succeeded"}
                                          ELSE Live \cup {"succeeded"}
    /\ pc[t] = "tellFailed" => status[t] \in {"failed", "succeeded"}
    /\ pc[t] \in {"failing", "tellFailed"} /\ status[t] = "succeeded" => faults > 0
    /\ reply[t] = "error" => faults > 0

FinalInv(t) ==
    /\ HasFinal(t) => status[t] \in Terminal /\ Agrees(t, tape[t][Len(tape[t])])
    /\ pc[t] \in {"tellSucceeded", "tellCancelled", "tellFailed"} /\ reply[t] # "ok"
         => ~HasFinal(t)
    /\ pc[t] \in {"succeed", "failing"} => ~HasFinal(t)
    /\ pc[t] \in {"cancelling", "reread"} /\ HasFinal(t) => status[t] = "succeeded"

TaskInv(t) == LateInv(t) /\ RowInv(t) /\ FinalInv(t)

(* Only a serving process runs coroutines, and it has no orphans; while    *)
(* restart_cleanup runs, every unfinished row is still on its list.        *)
BootInv ==
    /\ ~Serving => \A t \in Task : pc[t] = "none"
    /\ running = {} \/ Serving
    /\ \A t \in running : pc[t] \notin {"none", "create"}
    /\ \A t \in orphans : server = "reaping" /\ status[t] \in Live
    /\ \A t \in marked  : server = "reaping" /\ status[t] = "failed" /\ ~HasFinal(t)
    /\ server = "reaping" => \A t \in Task : status[t] \in Live => t \in orphans
    /\ Serving => \A t \in Task : status[t] \in Live => pc[t] # "none"

IInv == TypeOK /\ BootInv /\ \A t \in Task : TaskInv(t)
-----------------------------------------------------------------------------
(* Calls.                                                                  *)

LEMMA CallTable ==
    /\ Awaiting = {"create", "start", "announce", "report", "succeed",
                   "tellSucceeded", "cancelling", "reread", "tellCancelled",
                   "failing", "tellFailed"}
    /\ CallAt["create"]        = Create
    /\ CallAt["start"]         = Update("running")
    /\ CallAt["announce"]      = Emit("task_started")
    /\ CallAt["report"]        = Emit("progress")
    /\ CallAt["succeed"]       = Update("succeeded")
    /\ CallAt["tellSucceeded"] = Emit("succeeded")
    /\ CallAt["cancelling"]    = Update("cancelled")
    /\ CallAt["reread"]        = Get
    /\ CallAt["tellCancelled"] = Emit("cancelled")
    /\ CallAt["failing"]       = Update("failed")
    /\ CallAt["tellFailed"]    = Emit("failed")
BY DEF CallAt, Awaiting

LEMMA ReturnTable ==
    /\ DOMAIN OnReturn = Awaiting \ {"create", "reread"}
    /\ OnReturn["start"]         = "announce"
    /\ OnReturn["announce"]      = "work"
    /\ OnReturn["report"]        = "work"
    /\ OnReturn["succeed"]       = "tellSucceeded"
    /\ OnReturn["tellSucceeded"] = "cleanup"
    /\ OnReturn["cancelling"]    = "reread"
    /\ OnReturn["tellCancelled"] = "cleanup"
    /\ OnReturn["failing"]       = "tellFailed"
    /\ OnReturn["tellFailed"]    = "cleanup"
BY CallTable DEF OnReturn

(* Calls are told apart by their operation and their argument.             *)
LEMMA CallsDiffer ==
    ASSUME NEW x, NEW y
    PROVE  /\ Emit(x).op = "append" /\ Emit(x).arg = x
           /\ Update(x).op = "update" /\ Update(x).arg = x
           /\ Emit(x) # Update(y) /\ Emit(x) # Get /\ Update(x) # Get
           /\ Emit(x) = Emit(y) => x = y
           /\ Update(x) = Update(y) => x = y
<1>1. /\ Emit(x).op = "append" /\ Emit(x).arg = x
      /\ Emit(y).arg = y
      /\ Update(x).op = "update" /\ Update(x).arg = x
      /\ Update(y).op = "update" /\ Update(y).arg = y
      /\ Get.op = "get"
    BY DEF Emit, Update, Get
<1> QED
    BY <1>1

LEMMA CallTypes ==
    ASSUME NEW p \in Awaiting PROVE CallAt[p] \in Call
BY CallTable DEF Call, Live, Terminal, Event

(* What running a call does.                                               *)
LEMMA Effects ==
    ASSUME NEW t \in Task, NEW x
    PROVE  /\ Execute(t, Create)    <=> CreateRow(t)
           /\ Execute(t, Update(x)) <=> UpdateStatus(t, x)
           /\ Execute(t, Emit(x))   <=> AppendEvent(t, x)
           /\ Execute(t, Get)       <=> UNCHANGED storeVars
BY DEF Execute, Create, Update, Emit, Get

(* A call touches only its own row and tape and keeps their types.         *)
LEMMA ExecuteLocal ==
    ASSUME TypeOK, NEW t \in Task, NEW c \in Call, Execute(t, c)
    PROVE  /\ StoreTypeOK'
           /\ \A u \in Task \ {t} : status'[u] = status[u] /\ tape'[u] = tape[u]
<1>1. CASE c = Create
    BY <1>1, Effects DEF CreateRow, TypeOK, StoreTypeOK, Status, Live
<1>2. CASE \E s \in Live \cup Terminal : c = Update(s)
    <2>1. PICK s \in Live \cup Terminal : UpdateStatus(t, s)
        BY <1>2, Effects
    <2> QED
        BY <2>1 DEF UpdateStatus, TypeOK, StoreTypeOK, Status
<1>3. CASE \E e \in Event : c = Emit(e)
    <2>1. PICK e \in Event : AppendEvent(t, e)
        BY <1>3, Effects
    <2> QED
        BY <2>1 DEF AppendEvent, TypeOK, StoreTypeOK
<1>4. CASE c = Get
    BY <1>4, Effects DEF storeVars, TypeOK, StoreTypeOK
<1> QED
    BY <1>1, <1>2, <1>3, <1>4 DEF Call
-----------------------------------------------------------------------------
(* Types.                                                                  *)

LEMMA TypeInit == Init => TypeOK
BY BoundsAssumption DEF Init, StoreInit, TypeOK, StoreTypeOK, Status, PC, Live

LEMMA CancelTypes == ASSUME NEW p \in PC PROVE OnCancel(p) \in PC
BY CallTable DEF OnCancel, PC

LEMMA TypeStep == TypeOK /\ [Next]_vars => TypeOK'
<1> SUFFICES ASSUME TypeOK, [Next]_vars PROVE TypeOK'
    OBVIOUS
<1> USE DEF TypeOK
<1>1. ASSUME NEW t \in Task, WorkerDone(t) PROVE TypeOK'
    <2>1. pc[t] \in Awaiting /\ Execute(t, CallAt[pc[t]])
        BY <1>1 DEF WorkerDone, Outstanding
    <2>2. StoreTypeOK'
        BY <2>1, CallTypes, ExecuteLocal
    <2> QED
        BY <1>1, <2>1, <2>2 DEF WorkerDone, bootVars, countVars, StoreTypeOK
<1>2. ASSUME NEW t \in Task, LateLands(t) PROVE TypeOK'
    <2>1. PICK c \in late[t] : Execute(t, c) /\ late' = [late EXCEPT ![t] = @ \ {c}]
        BY <1>2 DEF LateLands
    <2>2. StoreTypeOK'
        BY <2>1, ExecuteLocal
    <2> QED
        BY <1>2, <2>1, <2>2 DEF LateLands, bootVars, countVars
<1>3. ASSUME NEW t \in Task, WorkerFails(t) PROVE TypeOK'
    BY <1>3 DEF WorkerFails, Outstanding, storeVars, bootVars, StoreTypeOK
<1>4. ASSUME NEW t \in Task, Submit(t) PROVE TypeOK'
    BY <1>4, CallTable DEF Submit, Goto, PC, storeVars, bootVars, countVars, StoreTypeOK
<1>5. ASSUME NEW t \in Task, Coroutine(t) PROVE TypeOK'
    <2> USE CallTable, ReturnTable
        DEF Goto, PC, storeVars, bootVars, countVars, StoreTypeOK
    <2>1. CASE Register(t)
        BY <2>1 DEF Register
    <2>2. CASE SubmitFails(t)
        BY <2>2 DEF SubmitFails
    <2>3. CASE Begin(t)
        BY <2>3 DEF Begin
    <2>4. CASE Resume(t)
        BY <2>4 DEF Resume
    <2>5. CASE Throw(t)
        BY <2>5 DEF Throw, OnError
    <2>6. CASE Reread(t)
        BY <2>6 DEF Reread
    <2>7. CASE RunnerReports(t)
        BY <2>7 DEF RunnerReports
    <2>8. CASE RunnerReturns(t)
        BY <2>8 DEF RunnerReturns
    <2>9. CASE RunnerRaises(t)
        BY <2>9 DEF RunnerRaises
    <2>10. CASE RunnerUnwinds(t)
        BY <2>10 DEF RunnerUnwinds
    <2>11. CASE Finish(t)
        BY <2>11 DEF Finish
    <2> QED
        BY <1>5, <2>1, <2>2, <2>3, <2>4, <2>5, <2>6, <2>7, <2>8, <2>9, <2>10, <2>11
        DEF Coroutine
<1>6. ASSUME NEW T \in SUBSET running, Interrupt(T)
      PROVE  /\ pc' \in [Task -> PC] /\ reply' \in [Task -> {"none", "ok", "error"} \cup Status]
             /\ late' \in [Task -> SUBSET Call] /\ token' \subseteq Task
             /\ \A t \in Task : reply'[t] # "none" => pc'[t] \in Awaiting
    <2>1. PICK kept \in SUBSET {t \in T : Outstanding(t)} :
            late' = [t \in Task |-> IF t \in kept THEN late[t] \cup {CallAt[pc[t]]}
                                                   ELSE late[t]]
        BY <1>6 DEF Interrupt
    <2>2. late' \in [Task -> SUBSET Call]
        BY <2>1, CallTypes DEF Outstanding
    <2> QED
        BY <1>6, <2>2, CancelTypes DEF Interrupt
<1>7. ASSUME NEW t \in Task, Cancel(t) PROVE TypeOK'
    BY <1>6, <1>7 DEF Cancel, storeVars, bootVars, StoreTypeOK
<1>8. CASE Shutdown
    BY <1>6, <1>8 DEF Shutdown, storeVars, countVars, StoreTypeOK
<1>9. CASE Crash
    BY <1>9, CallTable DEF Crash, storeVars, StoreTypeOK, PC
<1>10. CASE Boot
    BY <1>10 DEF Boot, storeVars, loopVars, countVars, StoreTypeOK, ListRunning
<1>11. ASSUME NEW t \in Task, ReapMark(t) PROVE TypeOK'
    BY <1>11 DEF ReapMark, UpdateStatus, loopVars, countVars, StoreTypeOK, Status, Terminal
<1>12. ASSUME NEW t \in Task, ReapTell(t) PROVE TypeOK'
    BY <1>12 DEF ReapTell, AppendEvent, loopVars, countVars, StoreTypeOK, Event, Terminal
<1>13. CASE Serve
    BY <1>13 DEF Serve, storeVars, loopVars, countVars, StoreTypeOK
<1>14. CASE Idle \/ UNCHANGED vars
    BY <1>14 DEF Idle, vars, storeVars, loopVars, bootVars, countVars, StoreTypeOK
<1> QED
    BY <1>1, <1>2, <1>3, <1>4, <1>5, <1>7, <1>8, <1>9, <1>10, <1>11, <1>12, <1>13, <1>14
    DEF Next, Worker, Reap

(* Every reachable state is well typed, and a reply waits only for a       *)
(* coroutine that awaits one.                                              *)
THEOREM TypeCorrect == Spec => []TypeOK
BY TypeInit, TypeStep, PTL DEF Spec
-----------------------------------------------------------------------------
(* The invariant of one task.                                              *)

LEMMA SameTape ==
    ASSUME NEW t \in Task, tape'[t] = tape[t]
    PROVE  HasFinal(t)' <=> HasFinal(t)
BY DEF HasFinal, Contract!HasFinal

LEMMA LongerTape ==
    ASSUME NEW t \in Task, tape[t] \in Seq(Event), NEW e \in Event,
           tape'[t] = Append(tape[t], e)
    PROVE  /\ HasFinal(t)' <=> HasFinal(t) \/ e \in Terminal
           /\ tape'[t] # << >>
           /\ tape'[t][Len(tape'[t])] = e
<1> DEFINE n == Len(tape[t])
<1>1. n \in Nat /\ Len(<< >>) = 0
    OBVIOUS
<1>2. /\ Len(tape'[t]) = n + 1
      /\ tape'[t][n + 1] = e
      /\ \A i \in 1..n : tape'[t][i] = tape[t][i]
    OBVIOUS
<1>3. HasFinal(t)' <=> \E i \in 1..(n + 1) : tape'[t][i] \in Terminal
    BY <1>2 DEF HasFinal, Contract!HasFinal, Contract!Terminal, Terminal
<1>4. HasFinal(t) <=> \E i \in 1..n : tape[t][i] \in Terminal
    BY DEF HasFinal, Contract!HasFinal, Contract!Terminal, Terminal
<1>5. tape'[t] # << >>
    BY <1>1, <1>2
<1> QED
    BY <1>1, <1>2, <1>3, <1>4, <1>5

(* A task keeps its invariant while another one, the cleanup or the        *)
(* counters move.                                                          *)
LEMMA TaskFrame ==
    ASSUME NEW t \in Task, TaskInv(t),
           pc'[t] = pc[t], reply'[t] = reply[t], late'[t] = late[t],
           status'[t] = status[t], tape'[t] = tape[t],
           faults \in Nat, faults' \in Nat, faults' >= faults
    PROVE  TaskInv(t)'
<1>1. HasFinal(t)' <=> HasFinal(t)
    BY SameTape
<1>2. \A e : Agrees(t, e) => Agrees(t, e)'
    BY DEF Agrees
<1>3. LateInv(t)'
    BY <1>1, <1>2 DEF TaskInv, LateInv
<1>4. RowInv(t)'
    BY DEF TaskInv, RowInv
<1>5. FinalInv(t)'
    BY <1>1, <1>2 DEF TaskInv, FinalInv
<1> QED
    BY <1>3, <1>4, <1>5 DEF TaskInv
(* A step of the coroutine keeps the invariant of its task: it leaves the  *)
(* row, the tape and the abandoned calls alone.                            *)
LEMMA CoroutineKeeps ==
    ASSUME TypeOK, NEW t \in Task, TaskInv(t), Coroutine(t)
    PROVE  TaskInv(t)'
<1> USE CallTable, ReturnTable DEF TypeOK, StoreTypeOK, Goto
<1>1. /\ status' = status /\ tape' = tape /\ late' = late /\ faults' = faults
      /\ reply'[t] = "none"
    BY DEF Coroutine, Register, SubmitFails, Begin, Resume, Throw, Reread,
           RunnerReports, RunnerReturns, RunnerRaises, RunnerUnwinds, Finish,
           storeVars, countVars
<1>2. HasFinal(t)' <=> HasFinal(t)
    BY <1>1, SameTape
<1>3. \A e : Agrees(t, e)' <=> Agrees(t, e)
    BY <1>1 DEF Agrees
<1>4. \/ pc[t] = "create" /\ reply[t] = "ok"    /\ pc'[t] = "ready"
      \/ pc[t] = "create" /\ reply[t] = "error" /\ pc'[t] = "none"
      \/ pc[t] = "ready"  /\ pc'[t] = "start"
      \/ pc[t] \in DOMAIN OnReturn /\ reply[t] = "ok" /\ pc'[t] = OnReturn[pc[t]]
      \/ /\ pc[t] \in Awaiting \ {"create"} /\ reply[t] = "error"
         /\ pc'[t] = OnError(pc[t])
      \/ /\ pc[t] = "reread" /\ reply[t] \in Status
         /\ pc'[t] = IF reply[t] \in {"absent", "cancelled"}
                       THEN "tellCancelled" ELSE "cleanup"
      \/ pc[t] = "work" /\ pc'[t] \in {"report", "succeed"}
      \/ pc[t] \in {"work", "unwind"} /\ pc'[t] = "failing"
      \/ pc[t] = "unwind" /\ pc'[t] = "cancelling"
      \/ pc[t] = "cleanup" /\ pc'[t] = "done"
    BY DEF Coroutine, Register, SubmitFails, Begin, Resume, Throw, Reread,
           RunnerReports, RunnerReturns, RunnerRaises, RunnerUnwinds, Finish
<1>5. pc'[t] \in PC \ {"create", "unwind"}
    BY <1>4 DEF OnError, PC
<1>a. \A e \in Terminal : Emit(e) # Emit("progress")
    BY CallsDiffer DEF Terminal
<1> USE DEF TaskInv, LateInv, RowInv, FinalInv, Abandoned, Undisturbed,
            OnError, TryBlock, Live, Status, Terminal
<1>6. CASE pc'[t] = "none"
    BY <1>1, <1>2, <1>3, <1>4, <1>6
<1>7. CASE pc'[t] = "ready"
    BY <1>1, <1>2, <1>3, <1>4, <1>7
<1>8. CASE pc'[t] = "start"
    BY <1>1, <1>2, <1>3, <1>4, <1>8
<1>9. CASE pc'[t] = "announce"
    BY <1>1, <1>2, <1>3, <1>4, <1>9
<1>10. CASE pc'[t] = "work"
    BY <1>1, <1>2, <1>3, <1>4, <1>10
<1>11. CASE pc'[t] = "report"
    BY <1>1, <1>2, <1>3, <1>4, <1>11
<1>12. CASE pc'[t] = "succeed"
    BY <1>1, <1>2, <1>3, <1>4, <1>12
<1>13. CASE pc'[t] = "tellSucceeded"
    BY <1>1, <1>2, <1>3, <1>4, <1>13
<1>14. CASE pc'[t] = "cancelling"
    <2>1. pc[t] = "unwind"
        BY <1>4, <1>14
    <2>2. status[t] = "running" /\ ~HasFinal(t) /\ late[t] \subseteq {Emit("progress")}
        BY <2>1
    <2>3. LateInv(t)'
        BY <2>1, <2>2, <1>1, <1>2, <1>14, <1>a
    <2>4. RowInv(t)'
        BY <2>1, <2>2, <1>1, <1>2, <1>14
    <2>5. FinalInv(t)'
        BY <2>1, <2>2, <1>1, <1>2, <1>14
    <2> QED
        BY <2>3, <2>4, <2>5
<1>15. CASE pc'[t] = "reread"
    BY <1>1, <1>2, <1>3, <1>4, <1>15
<1>16. CASE pc'[t] = "tellCancelled"
    BY <1>1, <1>2, <1>3, <1>4, <1>16
<1>17. CASE pc'[t] = "failing"
    BY <1>1, <1>2, <1>3, <1>4, <1>17, <1>a
<1>18. CASE pc'[t] = "tellFailed"
    BY <1>1, <1>2, <1>3, <1>4, <1>18
<1>19. CASE pc'[t] = "cleanup"
    BY <1>1, <1>2, <1>3, <1>4, <1>19
<1>20. CASE pc'[t] = "done"
    BY <1>1, <1>2, <1>3, <1>4, <1>20
<1> QED
    BY <1>5, <1>6, <1>7, <1>8, <1>9, <1>10, <1>11, <1>12, <1>13, <1>14, <1>15, <1>16, <1>17, <1>18, <1>19, <1>20 DEF PC
(* So does the worker thread that runs the awaited call.                   *)
LEMMA WorkerKeeps ==
    ASSUME TypeOK, NEW t \in Task, TaskInv(t), WorkerDone(t)
    PROVE  TaskInv(t)'
<1> USE CallTable DEF TypeOK, StoreTypeOK
<1>1. /\ pc[t] \in Awaiting /\ reply[t] = "none" /\ Execute(t, CallAt[pc[t]])
      /\ pc' = pc /\ late' = late /\ faults' = faults
      /\ reply'[t] = IF pc[t] = "reread" THEN status[t] ELSE "ok"
    BY DEF WorkerDone, Outstanding, countVars
<1>a. \A e \in Terminal : Emit(e) # Emit("progress")
    BY CallsDiffer DEF Terminal
<1> USE DEF TaskInv, LateInv, RowInv, FinalInv, Agrees, Abandoned, Undisturbed,
            Live, Status, Terminal, Event
<1>2. CASE pc[t] = "create"
    <2>1. status'[t] = "pending" /\ tape'[t] = tape[t]
        BY <1>1, <1>2, Effects DEF CreateRow
    <2> QED
        BY <2>1, <1>1, <1>2, SameTape
<1>3. CASE pc[t] \in {"start", "succeed", "cancelling", "failing"}
    <2> DEFINE s == CASE pc[t] = "start"      -> "running"
                      [] pc[t] = "succeed"    -> "succeeded"
                      [] pc[t] = "cancelling" -> "cancelled"
                      [] pc[t] = "failing"    -> "failed"
    <2>1. UpdateStatus(t, s)
        BY <1>1, <1>3, Effects
    <2>2. /\ status'[t] = IF status[t] \in Live THEN s ELSE status[t]
          /\ tape'[t] = tape[t]
        BY <2>1 DEF UpdateStatus
    <2>3. HasFinal(t)' <=> HasFinal(t)
        BY <2>2, SameTape
    <2>4. LateInv(t)'
        BY <2>2, <2>3, <1>1, <1>3, <1>a
    <2>5. RowInv(t)'
        BY <2>2, <2>3, <1>1, <1>3
    <2>6. FinalInv(t)'
        BY <2>2, <2>3, <1>1, <1>3
    <2> QED
        BY <2>4, <2>5, <2>6
<1>4. CASE pc[t] \in {"announce", "report"}
    <2> DEFINE e == IF pc[t] = "announce" THEN "task_started" ELSE "progress"
    <2>1. AppendEvent(t, e) /\ status[t] = "running" /\ e \in Event /\ e \notin Terminal
        BY <1>1, <1>4, Effects
    <2>2. tape'[t] = Append(tape[t], e) /\ status'[t] = status[t]
        BY <2>1 DEF AppendEvent, IsFinal
    <2>3. (HasFinal(t)' <=> HasFinal(t)) /\ tape'[t] # << >>
        BY <2>1, <2>2, LongerTape
    <2> QED
        BY <2>2, <2>3, <1>1, <1>4
<1>5. CASE pc[t] \in {"tellSucceeded", "tellCancelled", "tellFailed"}
    <2> DEFINE e == CASE pc[t] = "tellSucceeded" -> "succeeded"
                      [] pc[t] = "tellCancelled" -> "cancelled"
                      [] pc[t] = "tellFailed"    -> "failed"
    <2>1. AppendEvent(t, e) /\ e \in Terminal /\ Agrees(t, e)
        BY <1>1, <1>5, Effects
    <2>2. tape'[t] = Append(tape[t], e) /\ status'[t] = status[t]
        BY <2>1 DEF AppendEvent, IsFinal
    <2>3. HasFinal(t)' /\ tape'[t] # << >> /\ tape'[t][Len(tape'[t])] = e
        BY <2>1, <2>2, LongerTape
    <2>4. LateInv(t)'
        BY <2>2, <2>3, <1>1, <1>5
    <2>5. RowInv(t)'
        BY <2>1, <2>2, <2>3, <1>1, <1>5
    <2>6. FinalInv(t)'
        BY <2>1, <2>2, <2>3, <1>1, <1>5
    <2> QED
        BY <2>4, <2>5, <2>6
<1>6. CASE pc[t] = "reread"
    <2>1. status'[t] = status[t] /\ tape'[t] = tape[t]
        BY <1>1, <1>6, Effects DEF storeVars
    <2> QED
        BY <2>1, <1>1, <1>6, SameTape
<1> QED
    BY <1>1, <1>2, <1>3, <1>4, <1>5, <1>6

(* A call that fails leaves the store alone and counts as a fault.         *)
LEMMA FaultKeeps ==
    ASSUME TypeOK, NEW t \in Task, TaskInv(t), WorkerFails(t)
    PROVE  TaskInv(t)'
<1>1. /\ status' = status /\ tape' = tape /\ pc' = pc /\ late' = late
      /\ faults' > 0 /\ faults \in Nat
      /\ reply[t] = "none" /\ reply'[t] = "error"
    BY DEF WorkerFails, Outstanding, storeVars, TypeOK
<1>2. HasFinal(t)' <=> HasFinal(t)
    BY <1>1, SameTape
<1> QED
    BY <1>1, <1>2 DEF TaskInv, LateInv, RowInv, FinalInv, Agrees, Status, Live, Terminal
(* An abandoned call that lands late does no harm: the row is settled, or  *)
(* the call is the one that was under way when the coroutine was stopped.  *)
LEMMA LateKeeps ==
    ASSUME TypeOK, NEW t \in Task, TaskInv(t), LateLands(t)
    PROVE  TaskInv(t)'
<1> USE DEF TypeOK, StoreTypeOK
<1>1. PICK c \in late[t] : Execute(t, c) /\ late'[t] = late[t] \ {c}
    BY DEF LateLands
<1>2. pc' = pc /\ reply' = reply /\ faults' = faults
    BY DEF LateLands, countVars
<1>3. c \in Abandoned(pc[t])
    BY <1>1 DEF TaskInv, LateInv
<1> USE DEF TaskInv, LateInv, RowInv, FinalInv, Agrees, Abandoned, Undisturbed,
            Live, Status, Terminal, Event
<1>4. CASE \E s \in {"running", "succeeded", "cancelled", "failed"} : c = Update(s)
    <2>1. PICK s \in {"running", "succeeded", "cancelled", "failed"} : c = Update(s)
        BY <1>4
    <2>2. /\ status'[t] = IF status[t] \in Live THEN s ELSE status[t]
          /\ tape'[t] = tape[t]
        BY <2>1, <1>1, Effects DEF UpdateStatus
    <2>3. HasFinal(t)' <=> HasFinal(t)
        BY <2>2, SameTape
    <2>4. CASE pc[t] \in {"cancelling", "reread", "tellCancelled"}
        <3>1. s \in {"running", "succeeded"}
            BY <2>1, <2>4, <1>3, CallsDiffer
        <3>2. LateInv(t)'
            BY <3>1, <2>2, <2>3, <2>4, <1>1, <1>2
        <3>3. RowInv(t)'
            BY <3>1, <2>2, <2>3, <2>4, <1>1, <1>2
        <3>4. FinalInv(t)'
            BY <3>1, <2>2, <2>3, <2>4, <1>1, <1>2
        <3> QED
            BY <3>2, <3>3, <3>4
    <2>5. CASE pc[t] \notin {"cancelling", "reread", "tellCancelled"}
        <3>1. pc[t] \in {"cleanup", "done"}
            BY <2>1, <2>5, <1>3, CallsDiffer, CallTable DEF PC
        <3>2. LateInv(t)'
            BY <3>1, <2>2, <2>3, <1>1, <1>2
        <3>3. RowInv(t)'
            BY <3>1, <2>2, <2>3, <1>1, <1>2
        <3>4. FinalInv(t)'
            BY <3>1, <2>2, <2>3, <1>1, <1>2
        <3> QED
            BY <3>2, <3>3, <3>4
    <2> QED
        BY <2>4, <2>5
<1>5. CASE \E e \in {"task_started", "progress"} : c = Emit(e)
    <2>1. PICK e \in {"task_started", "progress"} : c = Emit(e)
        BY <1>5
    <2>2. AppendEvent(t, e) /\ status'[t] = status[t]
        BY <2>1, <1>1, Effects DEF AppendEvent
    <2>3. CASE status[t] \in Terminal
        <3>1. tape'[t] = tape[t]
            BY <2>2, <2>3 DEF AppendEvent, IsFinal
        <3> QED
            BY <3>1, <2>2, <1>1, <1>2, SameTape
    <2>4. CASE status[t] \notin Terminal
        <3>1. tape'[t] = Append(tape[t], e)
            BY <2>2, <2>4 DEF AppendEvent
        <3>2. (HasFinal(t)' <=> HasFinal(t)) /\ tape'[t] # << >>
            BY <3>1, LongerTape
        <3>3. status[t] = "running" /\ ~HasFinal(t)
            BY <2>1, <2>4, <1>3, <1>1, CallsDiffer, CallTable DEF PC
        <3>4. LateInv(t)'
            BY <3>1, <3>2, <3>3, <2>1, <2>2, <1>1, <1>2
        <3>5. RowInv(t)'
            BY <3>1, <3>2, <3>3, <2>1, <2>2, <1>1, <1>2, <1>3
        <3>6. FinalInv(t)'
            BY <3>1, <3>2, <3>3, <2>1, <2>2, <1>1, <1>2
        <3> QED
            BY <3>4, <3>5, <3>6
    <2> QED
        BY <2>3, <2>4
<1>6. CASE \E e \in Terminal : c = Emit(e)
    <2>1. PICK e \in Terminal : c = Emit(e)
        BY <1>6
    <2>2. /\ status[t] \in Terminal /\ Agrees(t, e)
          /\ pc[t] \in {"cancelling", "reread", "cleanup", "done"}
          /\ pc[t] \in {"cancelling", "reread"} => status[t] = "succeeded"
          /\ \A f \in Terminal : Emit(f) \in late[t] => f = e
        BY <2>1, <1>1
    <2>3. tape'[t] = Append(tape[t], e) /\ status'[t] = status[t]
        BY <2>1, <1>1, Effects DEF AppendEvent, IsFinal
    <2>4. HasFinal(t)' /\ tape'[t] # << >> /\ tape'[t][Len(tape'[t])] = e
        BY <2>3, LongerTape
    <2>5. LateInv(t)'
        BY <2>1, <2>2, <2>3, <2>4, <1>1, <1>2
    <2>6. RowInv(t)'
        BY <2>2, <2>3, <2>4, <1>1, <1>2
    <2>7. FinalInv(t)'
        BY <2>2, <2>3, <2>4, <1>1, <1>2
    <2> QED
        BY <2>5, <2>6, <2>7
<1>7. CASE c = Get
    <2>1. status'[t] = status[t] /\ tape'[t] = tape[t]
        BY <1>1, <1>7, Effects DEF storeVars
    <2> QED
        BY <2>1, <1>1, <1>2, SameTape
<1> QED
    BY <1>3, <1>4, <1>5, <1>6, <1>7

(* A cancelled coroutine: its await becomes an abandoned call, or none.    *)
LEMMA CancelKeeps ==
    ASSUME TypeOK, NEW t \in Task, TaskInv(t),
           pc[t] \notin {"none", "create"},
           status'[t] = status[t], tape'[t] = tape[t], faults' = faults,
           pc'[t] = OnCancel(pc[t]), reply'[t] = "none",
           \/ late'[t] = late[t]
           \/ Outstanding(t) /\ late'[t] = late[t] \cup {CallAt[pc[t]]}
    PROVE  TaskInv(t)'
<1> USE CallTable DEF TypeOK, StoreTypeOK, PC
<1>1. HasFinal(t)' <=> HasFinal(t)
    BY SameTape
<1>2. \A e, f : /\ Emit(e) # Get
                /\ Emit(e) = Emit(f) => e = f
                /\ Emit(e) # Update(f)
    BY CallsDiffer
<1>a. /\ Emit("task_started") # Emit("progress")
      /\ Emit("task_started") # Emit("succeeded")
      /\ Emit("progress") # Emit("succeeded")
    BY <1>2
<1> USE DEF TaskInv, LateInv, RowInv, FinalInv, Agrees, Abandoned, Undisturbed,
            Live, Status, Terminal, OnCancel, Outstanding
<1>3. CASE pc[t] \in {"work", "report", "unwind"}
    <2>1. /\ pc'[t] = "unwind" /\ status[t] = "running"
          /\ late'[t] \subseteq {Emit("progress")}
          /\ Emit("progress") \in late'[t] => tape[t] # << >>
        BY <1>3
    <2>2. ~HasFinal(t)' /\ \A e \in Terminal : Emit(e) # Emit("progress")
        BY <2>1, <1>1, <1>2
    <2>3. Emit("task_started") \notin late'[t]
        BY <2>1, <1>a
    <2>4. LateInv(t)'
        BY <2>1, <2>2, <2>3
    <2>5. RowInv(t)'
        BY <2>1
    <2>6. FinalInv(t)'
        BY <2>1, <2>2
    <2> QED
        BY <2>4, <2>5, <2>6
<1>4. CASE pc[t] \in {"start", "announce", "succeed", "tellSucceeded"}
    <2>1. pc'[t] = "cancelling" /\ late[t] = {}
        BY <1>4
    <2>2. LateInv(t)'
        <3>1. CASE pc[t] = "start"
            BY <2>1, <3>1, <1>1, <1>2
        <3>2. CASE pc[t] = "announce"
            <4>1. late'[t] \subseteq {Emit("task_started")} /\ status[t] = "running"
                BY <2>1, <3>2
            <4>2. late'[t] # {} => tape[t] = << >>
                BY <2>1, <3>2
            <4>3. /\ Emit("progress") \notin late'[t]
                  /\ \A e \in Terminal : Emit(e) \notin late'[t]
                BY <4>1, <1>a, <1>2
            <4> QED
                BY <2>1, <4>1, <4>2, <4>3
        <3>3. CASE pc[t] = "succeed"
            <4>1. late'[t] \subseteq {Update("succeeded")}
                BY <2>1, <3>3
            <4>2. \A e : Emit(e) \notin late'[t]
                BY <4>1, <1>2
            <4> QED
                BY <2>1, <4>1, <4>2
        <3>4. CASE pc[t] = "tellSucceeded"
            <4>1. late'[t] \subseteq {Emit("succeeded")} /\ status[t] = "succeeded"
                BY <2>1, <3>4
            <4>2. late'[t] # {} => ~HasFinal(t)
                BY <2>1, <3>4
            <4>3. \A e \in Terminal : Emit(e) \in late'[t] => e = "succeeded"
                BY <4>1, <1>2
            <4>4. /\ Emit("task_started") \notin late'[t]
                  /\ Emit("progress") \notin late'[t]
                BY <4>1, <1>a
            <4> QED
                BY <2>1, <4>1, <4>2, <4>3, <4>4, <1>1
        <3> QED
            BY <1>4, <3>1, <3>2, <3>3, <3>4
    <2>3. RowInv(t)'
        BY <2>1, <1>4
    <2>4. FinalInv(t)'
        BY <2>1, <1>1, <1>4
    <2> QED
        BY <2>2, <2>3, <2>4
<1>5. CASE pc[t] \in {"cancelling", "reread", "tellCancelled"}
    <2>1. pc'[t] = "cleanup"
        BY <1>5
    <2>2. LateInv(t)'
        <3>1. CASE pc[t] = "cancelling"
            BY <2>1, <3>1, <1>1, <1>2
        <3>2. CASE pc[t] = "reread"
            BY <2>1, <3>2, <1>1, <1>2
        <3>3. CASE pc[t] = "tellCancelled"
            BY <2>1, <3>3, <1>1, <1>2
        <3> QED
            BY <1>5, <3>1, <3>2, <3>3
    <2>3. RowInv(t)'
        BY <2>1, <1>5
    <2>4. FinalInv(t)'
        BY <2>1, <1>1, <1>5
    <2> QED
        BY <2>2, <2>3, <2>4
<1>6. CASE pc[t] \in {"failing", "tellFailed"}
    BY <1>1, <1>2, <1>6
<1>7. CASE pc[t] \in {"ready", "cleanup", "done"}
    BY <1>1, <1>2, <1>7
<1> QED
    BY <1>3, <1>4, <1>5, <1>6, <1>7
-----------------------------------------------------------------------------
(* The invariant of the whole system.                                      *)

LEMMA InitIInv == Init => IInv
<1> SUFFICES ASSUME Init PROVE IInv
    OBVIOUS
<1>1. TypeOK
    BY TypeInit
<1>2. BootInv
    BY DEF Init, StoreInit, BootInv, Serving, Live
<1>3. ASSUME NEW t \in Task PROVE TaskInv(t)
    <2>1. /\ tape[t] = << >> /\ status[t] = "absent" /\ pc[t] = "none"
          /\ reply[t] = "none" /\ late[t] = {}
        BY DEF Init, StoreInit
    <2>2. ~HasFinal(t)
        <3>1. Len(tape[t]) = 0
            BY <2>1
        <3> QED
            BY <3>1 DEF HasFinal, Contract!HasFinal
    <2> QED
        BY <2>1, <2>2 DEF TaskInv, LateInv, RowInv, FinalInv, Live, Status, Terminal
<1> QED
    BY <1>1, <1>2, <1>3 DEF IInv

(* Steps of a task in a serving process: the other tasks stand still.      *)
LEMMA ServingStep ==
    ASSUME IInv, NEW t \in Task,
           \/ WorkerDone(t) \/ WorkerFails(t) \/ LateLands(t)
           \/ Coroutine(t)  \/ Submit(t)
    PROVE  BootInv' /\ \A u \in Task : TaskInv(u)'
<1> USE DEF IInv
<1>1. /\ \A u \in Task \ {t} :
           /\ pc'[u] = pc[u] /\ reply'[u] = reply[u] /\ late'[u] = late[u]
           /\ status'[u] = status[u] /\ tape'[u] = tape[u]
      /\ faults \in Nat /\ faults' \in Nat /\ faults' >= faults
      /\ server' = server /\ orphans' = orphans /\ marked' = marked
    <2> USE DEF TypeOK, StoreTypeOK, Goto, storeVars, bootVars, countVars
    <2>1. CASE WorkerDone(t)
        <3>1. CallAt[pc[t]] \in Call /\ Execute(t, CallAt[pc[t]])
            BY <2>1, CallTypes DEF WorkerDone, Outstanding
        <3> QED
            BY <2>1, <3>1, ExecuteLocal DEF WorkerDone
    <2>2. CASE WorkerFails(t)
        BY <2>2 DEF WorkerFails
    <2>3. CASE LateLands(t)
        BY <2>3, ExecuteLocal DEF LateLands
    <2>4. CASE Coroutine(t)
        BY <2>4 DEF Coroutine, Register, SubmitFails, Begin, Resume, Throw, Reread,
           RunnerReports, RunnerReturns, RunnerRaises, RunnerUnwinds, Finish
    <2>5. CASE Submit(t)
        BY <2>5 DEF Submit
    <2> QED
        BY <2>1, <2>2, <2>3, <2>4, <2>5
<1>2. ASSUME NEW u \in Task \ {t} PROVE TaskInv(u)'
    BY <1>1, TaskFrame
<1>3. TaskInv(t)'
    <2>1. CASE Submit(t)
        <3>1. /\ status'[t] = "absent" /\ status[t] = "absent" /\ pc[t] = "none"
              /\ tape'[t] = tape[t] /\ late'[t] = late[t]
              /\ pc'[t] = "create" /\ reply'[t] = "none" /\ faults' = faults
            BY <2>1 DEF Submit, Goto, storeVars, countVars, TypeOK
        <3>2. HasFinal(t)' <=> HasFinal(t)
            BY <3>1, SameTape
        <3> QED
            BY <3>1, <3>2 DEF TaskInv, LateInv, RowInv, FinalInv, Live, Status,
                              Terminal, Abandoned, Undisturbed
    <2> QED
        BY <2>1, WorkerKeeps, FaultKeeps, LateKeeps, CoroutineKeeps
<1>4. Serving
    <2>1. ASSUME pc[t] # "none" PROVE Serving
        BY <2>1 DEF BootInv
    <2>2. CASE WorkerDone(t) \/ WorkerFails(t)
        BY <2>1, <2>2, CallTable DEF WorkerDone, WorkerFails, Outstanding
    <2>3. CASE LateLands(t)
        BY <2>1, <2>3 DEF LateLands, TaskInv, LateInv, Abandoned, Undisturbed
    <2>4. CASE Submit(t)
        BY <2>4 DEF Submit, Serving
    <2>5. CASE Coroutine(t)
        <3>1. pc[t] # "none"
            BY <2>5, CallTable, ReturnTable
            DEF Coroutine, Register, SubmitFails, Begin, Resume, Throw, Reread,
                RunnerReports, RunnerReturns, RunnerRaises, RunnerUnwinds, Finish
        <3> QED
            BY <2>1, <3>1
    <2> QED
        BY <2>2, <2>3, <2>4, <2>5
<1>5. orphans = {} /\ marked = {} /\ Serving' /\ server # "reaping"
    BY <1>1, <1>4 DEF BootInv, Serving
<1>6. /\ running' \subseteq running \cup {t}
      /\ t \in running' => pc'[t] \notin {"none", "create"}
      /\ status'[t] \in Live => pc'[t] # "none"
    <2> USE CallTable, ReturnTable DEF TypeOK, Goto, storeVars
    <2>1. CASE WorkerDone(t)
        BY <2>1 DEF WorkerDone, BootInv, Outstanding
    <2>2. CASE WorkerFails(t)
        BY <2>2 DEF WorkerFails, BootInv, Outstanding
    <2>3. CASE LateLands(t)
        BY <2>3 DEF LateLands, BootInv, TaskInv, LateInv, Abandoned, Undisturbed
    <2>4. CASE Submit(t)
        BY <2>4 DEF Submit, BootInv, Live
    <2>5. CASE Register(t) \/ SubmitFails(t) \/ Begin(t) \/ Finish(t)
        BY <2>5 DEF Register, SubmitFails, Begin, Finish, BootInv, TaskInv, RowInv, Live
    <2>6. CASE Resume(t)
        BY <2>6 DEF Resume, BootInv
    <2>7. CASE Throw(t) \/ Reread(t)
        BY <2>7 DEF Throw, Reread, OnError, BootInv
    <2>8. CASE RunnerReports(t) \/ RunnerReturns(t) \/ RunnerRaises(t) \/ RunnerUnwinds(t)
        BY <2>8 DEF RunnerReports, RunnerReturns, RunnerRaises, RunnerUnwinds, BootInv
    <2> QED
        BY <2>1, <2>2, <2>3, <2>4, <2>5, <2>6, <2>7, <2>8 DEF Coroutine
<1>7. BootInv'
    BY <1>1, <1>4, <1>5, <1>6 DEF BootInv, TypeOK
<1> QED
    BY <1>2, <1>3, <1>7

(* A cancel request and the shutdown interrupt registered coroutines.      *)
LEMMA InterruptKeeps ==
    ASSUME IInv, NEW T \in SUBSET running, Interrupt(T),
           status' = status, tape' = tape, faults' = faults
    PROVE  /\ \A t \in Task : TaskInv(t)'
           /\ \A t \in Task : pc[t] # "none" => pc'[t] # "none"
           /\ \A t \in running : pc'[t] \notin {"none", "create"}
<1> USE DEF IInv, TypeOK
<1>1. PICK kept \in SUBSET {t \in T : Outstanding(t)} :
        late' = [t \in Task |-> IF t \in kept THEN late[t] \cup {CallAt[pc[t]]}
                                               ELSE late[t]]
    BY DEF Interrupt
<1>2. /\ pc'    = [t \in Task |-> IF t \in T THEN OnCancel(pc[t]) ELSE pc[t]]
      /\ reply' = [t \in Task |-> IF t \in T THEN "none" ELSE reply[t]]
    BY DEF Interrupt
<1>3. \A t \in running : pc[t] \notin {"none", "create"}
    BY DEF BootInv
<1>4. ASSUME NEW t \in T PROVE TaskInv(t)'
    BY <1>1, <1>2, <1>3, <1>4, CancelKeeps
<1>5. ASSUME NEW t \in Task \ T PROVE TaskInv(t)'
    <2>1. pc'[t] = pc[t] /\ reply'[t] = reply[t] /\ late'[t] = late[t]
        BY <1>1, <1>2, <1>5
    <2> QED
        BY <2>1, TaskFrame
<1>6. \A p : p \notin {"none", "create"} => OnCancel(p) \notin {"none", "create"}
    BY DEF OnCancel
<1> QED
    BY <1>2, <1>3, <1>4, <1>5, <1>6

LEMMA CancelStep ==
    ASSUME IInv, \/ Shutdown
                 \/ \E t \in Task : Cancel(t)
    PROVE  BootInv' /\ \A u \in Task : TaskInv(u)'
<1>1. CASE Shutdown
    <2>1. /\ Interrupt(running) /\ server = "up" /\ server' = "stopping"
          /\ status' = status /\ tape' = tape /\ faults' = faults
          /\ running' = running /\ orphans' = orphans /\ marked' = marked
        BY <1>1 DEF Shutdown, storeVars, countVars
    <2>2. /\ \A t \in Task : TaskInv(t)'
          /\ \A t \in Task : pc[t] # "none" => pc'[t] # "none"
          /\ \A t \in running : pc'[t] \notin {"none", "create"}
        BY <2>1, InterruptKeeps
    <2> QED
        BY <2>1, <2>2 DEF IInv, BootInv, Serving, TypeOK
<1>2. ASSUME NEW t \in Task, Cancel(t) PROVE BootInv' /\ \A u \in Task : TaskInv(u)'
    <2>1. /\ Interrupt({t}) /\ t \in running /\ server = "up" /\ server' = server
          /\ status' = status /\ tape' = tape /\ faults' = faults
          /\ running' = running /\ orphans' = orphans /\ marked' = marked
        BY <1>2 DEF Cancel, storeVars, bootVars
    <2>2. /\ \A u \in Task : TaskInv(u)'
          /\ \A u \in Task : pc[u] # "none" => pc'[u] # "none"
          /\ \A u \in running : pc'[u] \notin {"none", "create"}
        BY <2>1, InterruptKeeps
    <2> QED
        BY <2>1, <2>2 DEF IInv, BootInv, Serving, TypeOK
<1> QED
    BY <1>1, <1>2

(* The process dies: the coroutines and the abandoned calls are gone.      *)
LEMMA CrashStep ==
    ASSUME IInv, Crash PROVE BootInv' /\ \A u \in Task : TaskInv(u)'
<1> USE DEF IInv, Crash, storeVars
<1>1. BootInv'
    BY DEF BootInv, Serving
<1>2. ASSUME NEW t \in Task PROVE TaskInv(t)'
    <2>1. /\ pc'[t] = "none" /\ reply'[t] = "none" /\ late'[t] = {}
          /\ status'[t] = status[t] /\ tape'[t] = tape[t] /\ faults' = faults
        OBVIOUS
    <2>2. HasFinal(t)' <=> HasFinal(t)
        BY <2>1, SameTape
    <2> QED
        BY <2>1, <2>2 DEF TaskInv, LateInv, RowInv, FinalInv, Agrees, Status,
                          Live, Terminal
<1> QED
    BY <1>1, <1>2

(* restart_cleanup, one row at a time.                                     *)
LEMMA ReapStep ==
    ASSUME IInv, NEW t \in Task, ReapMark(t) \/ ReapTell(t)
    PROVE  BootInv' /\ \A u \in Task : TaskInv(u)'
<1> USE DEF IInv, TypeOK, StoreTypeOK
<1>1. /\ server = "reaping" /\ server' = server /\ running' = running
      /\ pc' = pc /\ reply' = reply /\ late' = late /\ faults' = faults
    BY DEF ReapMark, ReapTell, loopVars, countVars
<1>2. /\ \A u \in Task : pc[u] = "none" /\ late[u] = {} /\ reply[u] = "none"
      /\ running = {}
    <2>1. (\A u \in Task : pc[u] = "none") /\ running = {}
        BY <1>1 DEF BootInv, Serving
    <2>2. \A u \in Task : late[u] = {}
        BY <2>1 DEF TaskInv, LateInv, Abandoned, Undisturbed
    <2>3. \A u \in Task : reply[u] = "none"
        BY <2>1, CallTable
    <2> QED
        BY <2>1, <2>2, <2>3
<1>3. ASSUME NEW u \in Task \ {t} PROVE status'[u] = status[u] /\ tape'[u] = tape[u]
    BY DEF ReapMark, ReapTell, UpdateStatus, AppendEvent
<1>4. ASSUME NEW u \in Task \ {t} PROVE TaskInv(u)'
    BY <1>1, <1>3, TaskFrame
<1>5. CASE ReapMark(t)
    <2>1. /\ t \in orphans /\ marked = {} /\ marked' = {t}
          /\ orphans' = orphans \ {t} /\ status[t] \in Live
          /\ status'[t] = "failed" /\ tape'[t] = tape[t]
        BY <1>5 DEF ReapMark, UpdateStatus, BootInv
    <2>2. (HasFinal(t)' <=> HasFinal(t)) /\ ~HasFinal(t)
        BY <2>1, SameTape DEF TaskInv, FinalInv, Live, Terminal
    <2>3. TaskInv(t)'
        BY <2>1, <2>2, <1>1, <1>2 DEF TaskInv, LateInv, RowInv, FinalInv, Status,
                                      Live, Terminal
    <2>4. BootInv'
        BY <2>1, <2>2, <1>1, <1>2, <1>3 DEF BootInv, Serving, Live
    <2> QED
        BY <2>3, <2>4, <1>4
<1>6. CASE ReapTell(t)
    <2>1. /\ t \in marked /\ marked' = {} /\ orphans' = orphans
          /\ status[t] = "failed" /\ status' = status
          /\ tape'[t] = Append(tape[t], "failed")
        BY <1>6 DEF ReapTell, AppendEvent, BootInv, IsFinal, Terminal
    <2>2. HasFinal(t)' /\ tape'[t] # << >> /\ tape'[t][Len(tape'[t])] = "failed"
        BY <2>1, LongerTape DEF Event, Terminal
    <2>3. TaskInv(t)'
        BY <2>1, <2>2, <1>1, <1>2 DEF TaskInv, LateInv, RowInv, FinalInv, Agrees,
                                      Status, Live, Terminal
    <2>4. BootInv'
        BY <2>1, <1>1, <1>2, <1>3 DEF BootInv, Serving, Live
    <2> QED
        BY <2>3, <2>4, <1>4
<1> QED
    BY <1>5, <1>6

LEMMA IInvStep == IInv /\ [Next]_vars => IInv'
<1> SUFFICES ASSUME IInv, [Next]_vars PROVE IInv'
    OBVIOUS
<1>1. TypeOK'
    BY TypeStep DEF IInv
<1>2. BootInv' /\ \A u \in Task : TaskInv(u)'
    <2>1. CASE \E t \in Task : Worker(t) \/ Coroutine(t) \/ WorkerFails(t) \/ Submit(t)
        BY <2>1, ServingStep DEF Worker
    <2>2. CASE Shutdown \/ \E t \in Task : Cancel(t)
        BY <2>2, CancelStep
    <2>3. CASE Crash
        BY <2>3, CrashStep
    <2>4. CASE \E t \in Task : ReapMark(t) \/ ReapTell(t)
        BY <2>4, ReapStep
    <2>5. CASE Boot \/ Serve \/ UNCHANGED vars
        <3>1. /\ status' = status /\ tape' = tape /\ pc' = pc /\ reply' = reply
              /\ late' = late /\ running' = running /\ faults' = faults
            BY <2>5 DEF Boot, Serve, vars, storeVars, loopVars, countVars
        <3>2. \A t \in Task : TaskInv(t)'
            BY <3>1, TaskFrame DEF IInv, TypeOK
        <3>3. \A t \in Task : HasFinal(t)' <=> HasFinal(t)
            BY <3>1, SameTape
        <3> USE DEF IInv, BootInv, Serving
        <3>4. ASSUME Boot PROVE BootInv'
            BY <3>1, <3>3, <3>4 DEF Boot, ListRunning
        <3>5. ASSUME Serve PROVE BootInv'
            <4>1. /\ server = "reaping" /\ server' = "up" /\ orphans = {} /\ marked = {}
                  /\ orphans' = {} /\ marked' = {}
                BY <3>5 DEF Serve
            <4>2. (\A t \in Task : status[t] \notin Live) /\ running = {}
                BY <4>1
            <4> QED
                BY <3>1, <4>1, <4>2
        <3>6. ASSUME UNCHANGED vars PROVE BootInv'
            <4>1. server' = server /\ orphans' = orphans /\ marked' = marked
                BY <3>6 DEF vars, bootVars
            <4> QED
                BY <3>1, <3>3, <4>1 DEF TypeOK
        <3> QED
            BY <2>5, <3>2, <3>4, <3>5, <3>6
    <2> QED
        BY <2>1, <2>2, <2>3, <2>4, <2>5 DEF Next, Reap, Idle
<1> QED
    BY <1>1, <1>2 DEF IInv

LEMMA Inductive == Spec => []IInv
BY InitIInv, IInvStep, PTL DEF Spec
-----------------------------------------------------------------------------
(* The theorems.                                                           *)

(* The cancel arm never re-reads a row that is neither CANCELLED nor       *)
(* SUCCEEDED: its else branch only ever sees a commit that won.            *)
THEOREM CancelArm == Spec => []CancelArmReads
<1>1. IInv => CancelArmReads
    BY DEF IInv, TaskInv, RowInv, CancelArmReads
<1> QED
    BY <1>1, Inductive, PTL

(* A serving process has no unfinished row of an earlier one.              *)
THEOREM NoOrphans == Spec => []OrphansReaped
<1>1. IInv => OrphansReaped
    BY DEF IInv, BootInv, Serving, OrphansReaped
<1> QED
    BY <1>1, Inductive, PTL

(* A final stands beside a terminal row and agrees with it, a store fault  *)
(* apart.                                                                  *)
THEOREM FinalAgrees == Spec => []FinalMatchesRow
<1>1. IInv => FinalMatchesRow
    BY DEF IInv, TaskInv, FinalInv, Agrees, FinalMatchesRow
<1> QED
    BY <1>1, Inductive, PTL
-----------------------------------------------------------------------------
(* The contract by itself, for any set of tasks.                           *)

Rows   == {"absent"} \cup Contract!Live \cup Contract!Terminal
Events == Contract!Progress \cup Contract!Terminal

(* The inductive invariant.  Shape alone is not inductive: that nothing    *)
(* can follow a final rests on the row being terminal beside it, and that  *)
(* task_started comes first on the tape of an unstarted row being empty.   *)
TapeInv(t) ==
    /\ Contract!HasFinal(t) => status[t] \in Contract!Terminal
    /\ status[t] \in {"absent", "pending"} => tape[t] = << >>
    /\ tape[t] # << >> /\ status[t] = "running" => tape[t][1] = "task_started"
    /\ Contract!Shape(t)

LifeInv ==
    /\ status \in [Task -> Rows]
    /\ tape \in [Task -> Seq(Events)]
    /\ \A t \in Task : TapeInv(t)

(* What the tape says does not change while tape and row do not.           *)
LEMMA Frame ==
    ASSUME NEW t \in Task, TapeInv(t),
           status'[t] = status[t], tape'[t] = tape[t]
    PROVE  TapeInv(t)'
BY DEF TapeInv, Contract!HasFinal, Contract!Shape

LEMMA InitInv == Contract!Init => LifeInv
<1> SUFFICES ASSUME Contract!Init PROVE LifeInv
    OBVIOUS
<1>1. status \in [Task -> Rows] /\ tape \in [Task -> Seq(Events)]
    BY DEF Contract!Init, Rows
<1>2. ASSUME NEW t \in Task PROVE TapeInv(t)
    <2>1. tape[t] = << >> /\ status[t] = "absent"
        BY DEF Contract!Init
    <2>2. Len(tape[t]) = 0
        BY <2>1
    <2> QED
        BY <2>1, <2>2 DEF TapeInv, Contract!HasFinal, Contract!Shape
<1> QED
    BY <1>1, <1>2 DEF LifeInv

(* A row may move on as long as it does not leave a terminal status and    *)
(* does not start over an existing tape.                                   *)
LEMMA RowMoves ==
    ASSUME LifeInv, NEW t \in Task, NEW s \in Rows,
           status' = [status EXCEPT ![t] = s], tape' = tape,
           status[t] \notin Contract!Terminal,
           s \in {"absent", "pending"} => status[t] = "absent",
           s = "running" => status[t] = "pending"
    PROVE  LifeInv'
<1>1. status' \in [Task -> Rows] /\ tape' \in [Task -> Seq(Events)]
    BY DEF LifeInv
<1>2. TapeInv(t)'
    BY DEF LifeInv, TapeInv, Contract!HasFinal, Contract!Shape, Rows
<1>3. ASSUME NEW u \in Task, u # t PROVE TapeInv(u)'
    BY <1>3, Frame DEF LifeInv
<1> QED
    BY <1>1, <1>2, <1>3 DEF LifeInv

(* An event may be appended to a tape without a final if the row allows it.*)
LEMMA TapeGrows ==
    ASSUME LifeInv, NEW t \in Task, NEW e \in Events,
           tape' = [tape EXCEPT ![t] = Append(@, e)], status' = status,
           ~Contract!HasFinal(t),
           e \in Contract!Terminal => status[t] \in Contract!Terminal,
           e \in Contract!Progress =>
             /\ status[t] = "running"
             /\ (e = "task_started") <=> (tape[t] = << >>)
    PROVE  LifeInv'
<1>1. status' \in [Task -> Rows] /\ tape' \in [Task -> Seq(Events)]
    BY DEF LifeInv
<1>2. TapeInv(t)'
    <2> DEFINE s == tape[t]
               n == Len(tape[t])
    <2>1. s \in Seq(Events) /\ n \in Nat
        BY DEF LifeInv
    <2>2. /\ tape'[t] = Append(s, e)
          /\ Len(tape'[t]) = n + 1
          /\ tape'[t] # << >>
          /\ tape'[t][n + 1] = e
          /\ \A i \in 1..n : tape'[t][i] = s[i] /\ s[i] \notin Contract!Terminal
        <3>1. tape'[t] = Append(s, e)
            BY DEF LifeInv
        <3>2. \A i \in 1..n : s[i] \notin Contract!Terminal
            BY DEF Contract!HasFinal
        <3>3. /\ Len(Append(s, e)) = n + 1
              /\ Append(s, e)[n + 1] = e
              /\ \A i \in 1..n : Append(s, e)[i] = s[i]
            BY <2>1
        <3>4. Append(s, e) # << >>
            <4>1. n + 1 # 0 /\ Len(<< >>) = 0
                BY <2>1
            <4> QED
                BY <4>1, <3>3
        <3> QED
            BY <3>1, <3>2, <3>3, <3>4
    <2>3. status'[t] = status[t] /\ status[t] \notin {"absent", "pending"}
        BY DEF Events, Contract!Terminal, Contract!Live, Contract!Progress
    <2>4. (status[t] = "running") => tape'[t][1] = "task_started"
        <3>1. CASE n = 0
            BY <3>1, <2>1, <2>2 DEF Events, Contract!Terminal, Contract!Progress
        <3>2. CASE n > 0
            BY <3>2, <2>1, <2>2 DEF LifeInv, TapeInv
        <3> QED
            BY <3>1, <3>2, <2>1
    <2>5. Contract!HasFinal(t)' => e \in Contract!Terminal
        BY <2>1, <2>2 DEF Contract!HasFinal
    <2>6. Contract!Shape(t)'
        <3>1. ASSUME NEW i \in 1..n
              PROVE  /\ tape'[t][i] \notin Contract!Terminal
                     /\ tape'[t][i] = "task_started" => i = 1
                     /\ tape'[t][i] = "progress" => tape'[t][1] = "task_started"
            BY <3>1, <2>1, <2>2 DEF LifeInv, TapeInv, Contract!Shape
        <3>2. /\ e = "task_started" => n = 0
              /\ e = "progress" => tape'[t][1] = "task_started"
            BY <2>1, <2>4 DEF Contract!Progress
        <3> QED
            BY <3>1, <3>2, <2>1, <2>2 DEF Contract!Shape
    <2> QED
        BY <2>2, <2>3, <2>4, <2>5, <2>6 DEF TapeInv
<1>3. ASSUME NEW u \in Task, u # t PROVE TapeInv(u)'
    BY <1>3, Frame DEF LifeInv
<1> QED
    BY <1>1, <1>2, <1>3 DEF LifeInv

(* Every step of the contract keeps the invariant and never changes a      *)
(* terminal row.                                                           *)
LEMMA StepInv ==
    ASSUME LifeInv, [Contract!Next]_<<status, tape>>
    PROVE  /\ LifeInv'
           /\ \A t \in Task : status[t] \in Contract!Terminal => status'[t] = status[t]
<1>1. CASE UNCHANGED <<status, tape>>
    BY <1>1, Frame DEF LifeInv
<1>2. ASSUME NEW t \in Task, Contract!Accept(t)
      PROVE  LifeInv' /\ status[t] \notin Contract!Terminal
    BY <1>2, RowMoves DEF Contract!Accept, Rows, Contract!Live, Contract!Terminal
<1>3. ASSUME NEW t \in Task, Contract!Start(t)
      PROVE  LifeInv' /\ status[t] \notin Contract!Terminal
    BY <1>3, RowMoves DEF Contract!Start, Rows, Contract!Live, Contract!Terminal
<1>4. ASSUME NEW t \in Task, NEW s \in Contract!Terminal, Contract!Settle(t, s)
      PROVE  LifeInv' /\ status[t] \notin Contract!Terminal
    BY <1>4, RowMoves DEF Contract!Settle, Rows, Contract!Live, Contract!Terminal
<1>5. ASSUME NEW t \in Task, NEW e \in Contract!Progress, Contract!Record(t, e)
      PROVE  LifeInv'
    <2>1. ~Contract!HasFinal(t)
        BY <1>5 DEF Contract!Record, LifeInv, TapeInv, Contract!Terminal
    <2> QED
        BY <1>5, <2>1, TapeGrows
        DEF Contract!Record, Events, Contract!Progress, Contract!Terminal
<1>6. ASSUME NEW t \in Task, NEW e \in Contract!Terminal, Contract!Conclude(t, e)
      PROVE  LifeInv'
    BY <1>6, TapeGrows DEF Contract!Conclude, Events, Contract!Progress, Contract!Terminal
<1>7. ASSUME NEW t \in Task, NEW u \in Task, u # t,
             \/ Contract!Accept(t) \/ Contract!Start(t)
             \/ \E s \in Contract!Terminal : Contract!Settle(t, s)
      PROVE  status'[u] = status[u]
    BY <1>7 DEF Contract!Accept, Contract!Start, Contract!Settle, LifeInv
<1> QED
    BY <1>1, <1>2, <1>3, <1>4, <1>5, <1>6, <1>7
    DEF Contract!Next, Contract!Record, Contract!Conclude

THEOREM LifeInvariant == Contract!Spec => []LifeInv
BY InitInv, StepInv, PTL DEF Contract!Spec

(* Nothing follows a final, there is at most one, task_started comes first *)
(* and progress never without it.                                          *)
THEOREM ShapeInvariant == Contract!Spec => [](\A t \in Task : Contract!Shape(t))
<1>1. LifeInv => \A t \in Task : Contract!Shape(t)
    BY DEF LifeInv, TapeInv
<1> QED
    BY <1>1, LifeInvariant, PTL

(* A terminal row is immutable.                                            *)
THEOREM TerminalImmutable ==
    Contract!Spec =>
        [][\A t \in Task :
               status[t] \in Contract!Terminal => status'[t] = status[t]]_<<status, tape>>
<1>1. LifeInv /\ [Contract!Next]_<<status, tape>> =>
        [\A t \in Task :
             status[t] \in Contract!Terminal => status'[t] = status[t]]_<<status, tape>>
    BY StepInv
<1> QED
    BY <1>1, LifeInvariant, PTL DEF Contract!Spec

-----------------------------------------------------------------------------
(* The manager implements the contract: every step that touches the store  *)
(* is one step of the contract, every other step a stutter.                *)

ContractStep == Contract!Next \/ UNCHANGED <<status, tape>>

LEMMA UpdateRefines ==
    ASSUME TypeOK, NEW t \in Task, NEW s \in {"running"} \cup Terminal,
           UpdateStatus(t, s)
    PROVE  ContractStep
<1> USE DEF TypeOK, StoreTypeOK, UpdateStatus, ContractStep
<1>1. CASE status[t] \notin Live \/ s = status[t]
    BY <1>1
<1>2. CASE s = "running" /\ status[t] = "pending"
    BY <1>2 DEF Contract!Next, Contract!Start, Live
<1>3. CASE s \in Terminal /\ status[t] \in Live
    <2>1. Contract!Settle(t, s) /\ s \in Contract!Terminal
        BY <1>3 DEF Contract!Settle, Contract!Terminal, Contract!Live, Live, Terminal
    <2> QED
        BY <2>1 DEF Contract!Next
<1> QED
    BY <1>1, <1>2, <1>3 DEF Live

LEMMA AppendRefines ==
    ASSUME TypeOK, NEW t \in Task, NEW e \in Event, AppendEvent(t, e),
           e \in Terminal => status[t] \in Terminal /\ ~HasFinal(t) /\ Agrees(t, e),
           e \notin Terminal /\ status[t] \notin Terminal =>
             status[t] = "running" /\ (e = "task_started" <=> tape[t] = << >>)
    PROVE  ContractStep
<1> USE DEF TypeOK, StoreTypeOK, AppendEvent, IsFinal, ContractStep
<1>1. CASE status[t] \in Terminal /\ e \notin Terminal
    BY <1>1
<1>2. CASE status[t] \notin Terminal /\ e \notin Terminal
    <2>1. Contract!Record(t, e) /\ e \in Contract!Progress
        BY <1>2 DEF Contract!Record, Contract!Progress, Event
    <2> QED
        BY <2>1 DEF Contract!Next
<1>3. CASE e \in Terminal
    <2>1. Contract!Conclude(t, e) /\ e \in Contract!Terminal
        BY <1>3 DEF Contract!Conclude, Contract!Terminal, Terminal, Agrees, HasFinal
    <2> QED
        BY <2>1 DEF Contract!Next
<1> QED
    BY <1>1, <1>2, <1>3

LEMMA WorkerRefines ==
    ASSUME IInv, NEW t \in Task, WorkerDone(t) PROVE ContractStep
<1> USE CallTable DEF IInv
<1>1. pc[t] \in Awaiting /\ reply[t] = "none" /\ Execute(t, CallAt[pc[t]])
    BY DEF WorkerDone, Outstanding
<1>2. CASE pc[t] = "create"
    <2>1. CreateRow(t) /\ status[t] = "absent"
        BY <1>1, <1>2, Effects DEF TaskInv, RowInv
    <2>2. Contract!Accept(t)
        BY <2>1 DEF CreateRow, Contract!Accept
    <2> QED
        BY <2>2 DEF Contract!Next, ContractStep
<1>3. CASE pc[t] \in {"start", "succeed", "cancelling", "failing"}
    <2>1. \E s \in {"running"} \cup Terminal : UpdateStatus(t, s)
        BY <1>1, <1>3, Effects DEF Terminal
    <2> QED
        BY <2>1, UpdateRefines
<1>4. CASE pc[t] \in {"announce", "report"}
    <2> DEFINE e == IF pc[t] = "announce" THEN "task_started" ELSE "progress"
    <2>1. AppendEvent(t, e) /\ e \in Event /\ e \notin Terminal
        BY <1>1, <1>4, Effects DEF Event, Terminal
    <2>2. status[t] = "running" /\ (e = "task_started" <=> tape[t] = << >>)
        BY <1>1, <1>4 DEF TaskInv, RowInv
    <2> QED
        BY <2>1, <2>2, AppendRefines
<1>5. CASE pc[t] \in {"tellSucceeded", "tellCancelled", "tellFailed"}
    <2> DEFINE e == CASE pc[t] = "tellSucceeded" -> "succeeded"
                      [] pc[t] = "tellCancelled" -> "cancelled"
                      [] pc[t] = "tellFailed"    -> "failed"
    <2>1. AppendEvent(t, e) /\ e \in Terminal /\ e \in Event
        BY <1>1, <1>5, Effects DEF Terminal, Event
    <2>2. status[t] \in Terminal /\ ~HasFinal(t) /\ Agrees(t, e)
        BY <1>1, <1>5 DEF TaskInv, RowInv, FinalInv, Agrees, Terminal
    <2> QED
        BY <2>1, <2>2, AppendRefines
<1>6. CASE pc[t] = "reread"
    BY <1>1, <1>6, Effects DEF storeVars, ContractStep
<1> QED
    BY <1>1, <1>2, <1>3, <1>4, <1>5, <1>6

LEMMA LateRefines ==
    ASSUME IInv, NEW t \in Task, LateLands(t) PROVE ContractStep
<1> USE DEF IInv, TypeOK, StoreTypeOK
<1>1. PICK c \in late[t] : Execute(t, c)
    BY DEF LateLands
<1>2. /\ c \in Abandoned(pc[t])
      /\ pc[t] # "create"
    BY <1>1 DEF TaskInv, LateInv, Abandoned, Undisturbed
<1>3. \/ \E s \in {"running"} \cup Terminal : c = Update(s)
      \/ \E e \in Event : c = Emit(e)
      \/ c = Get
    BY <1>2 DEF Abandoned, Terminal, Event
<1>4. CASE \E s \in {"running"} \cup Terminal : c = Update(s)
    BY <1>1, <1>4, Effects, UpdateRefines
<1>5. CASE \E e \in Event : c = Emit(e)
    <2>1. PICK e \in Event : c = Emit(e) /\ AppendEvent(t, e)
        BY <1>1, <1>5, Effects
    <2>2. CASE e \in Terminal
        <3>1. status[t] \in Terminal /\ ~HasFinal(t) /\ Agrees(t, e)
            BY <2>1, <2>2, <1>1 DEF TaskInv, LateInv
        <3> QED
            BY <2>1, <2>2, <3>1, AppendRefines
    <2>3. CASE e \notin Terminal
        <3>1. e \in {"task_started", "progress"}
            BY <2>1, <2>3 DEF Event
        <3>2. status[t] # "absent"
            BY <1>1, <1>2 DEF TaskInv, RowInv, LateInv, Abandoned, Undisturbed
        <3>3. status[t] \in Terminal \/ status[t] \in Live
            BY <3>2 DEF Status
        <3>4. status[t] \notin Terminal =>
                status[t] = "running" /\ (e = "task_started" <=> tape[t] = << >>)
            BY <3>1, <3>3, <2>1, <1>1 DEF TaskInv, LateInv
        <3> QED
            BY <2>1, <2>3, <3>4, AppendRefines
    <2> QED
        BY <2>2, <2>3
<1>6. CASE c = Get
    BY <1>1, <1>6, Effects DEF storeVars, ContractStep
<1> QED
    BY <1>3, <1>4, <1>5, <1>6

LEMMA StepRefines == IInv /\ [Next]_vars => ContractStep
<1> SUFFICES ASSUME IInv, [Next]_vars PROVE ContractStep
    OBVIOUS
<1>1. CASE \E t \in Task : Worker(t)
    BY <1>1, WorkerRefines, LateRefines DEF Worker
<1>2. ASSUME NEW t \in Task, ReapMark(t) PROVE ContractStep
    BY <1>2, UpdateRefines DEF ReapMark, Terminal, IInv
<1>3. ASSUME NEW t \in Task, ReapTell(t) PROVE ContractStep
    <2>1. AppendEvent(t, "failed") /\ status[t] = "failed" /\ ~HasFinal(t)
        BY <1>3 DEF ReapTell, IInv, BootInv
    <2> QED
        BY <2>1, AppendRefines DEF Terminal, Event, Agrees, IInv
<1>4. ASSUME NEW t \in Task, Coroutine(t) \/ WorkerFails(t) \/ Submit(t) \/ Cancel(t)
      PROVE UNCHANGED storeVars
    BY <1>4 DEF WorkerFails, Submit, Cancel, Coroutine, Register, SubmitFails, Begin,
       Resume, Throw, Reread, RunnerReports, RunnerReturns, RunnerRaises,
       RunnerUnwinds, Finish
<1>5. ASSUME Shutdown \/ Crash \/ Boot \/ Serve \/ Idle \/ UNCHANGED vars
      PROVE UNCHANGED storeVars
    BY <1>5 DEF Shutdown, Crash, Boot, Serve, Idle, vars, storeVars
<1> QED
    BY <1>1, <1>2, <1>3, <1>4, <1>5 DEF Next, Reap, ContractStep, storeVars

(* The coroutine, its worker threads, the late ones and restart_cleanup    *)
(* together implement the contract of a task.                              *)
THEOREM Implements == Spec => ImplementsContract
<1>1. Init => Contract!Init
    BY DEF Init, StoreInit, Contract!Init
<1>2. IInv /\ [Next]_vars => [Contract!Next]_<<status, tape>>
    BY StepRefines DEF ContractStep
<1> QED
    BY <1>1, <1>2, Inductive, PTL DEF Spec, ImplementsContract, Contract!Spec

(* Hence what the contract promises holds of the manager: the shape of the *)
(* tape ...                                                                *)
THEOREM TapesShaped == Spec => []TapeShape
BY Implements, ShapeInvariant, PTL DEF ImplementsContract, TapeShape

(* ... and that a terminal row is immutable.                               *)
THEOREM TerminalRows == Spec => TerminalIsFinal
<1>1. TypeOK /\ ContractStep => \A t \in Task : status[t] \in Terminal => status'[t] = status[t]
    BY DEF ContractStep, Contract!Next, Contract!Accept, Contract!Start,
       Contract!Settle, Contract!Record, Contract!Conclude, Contract!Live, Terminal,
       TypeOK, StoreTypeOK
<1>2. IInv /\ [Next]_vars =>
        [\A t \in Task : status[t] \in Terminal => status'[t] = status[t]]_vars
    BY <1>1, StepRefines DEF IInv
<1> QED
    BY <1>2, Inductive, PTL DEF Spec, TerminalIsFinal
=============================================================================

---------------------------- MODULE TaskFollow ----------------------------
(***************************************************************************)
(* Following a task: the client's follow_to_terminal (client/              *)
(* task_follow.py) pages through the long-poll route GET                   *)
(* /tasks/{id}/events (get_events in server/routes_tasks.py) until it      *)
(* knows how the task ended.                                               *)
(*                                                                         *)
(* The handler takes no snapshot: it reads the row, the events and the     *)
(* highest seq with separate store calls, and the task moves between any   *)
(* two of them.  The task itself is the contract TaskLifecycle, which      *)
(* TaskManager implements: nothing more is assumed of it here, so a final  *)
(* may never come and may disagree with a SUCCEEDED row.                   *)
(*                                                                         *)
(* Time: a Condition wait ends by a notify, after 0.5 s, or at the         *)
(* deadline of the request, whichever; all three are the step Woken or     *)
(* WaitOver.  Followers do not affect each other or the task, so one of    *)
(* them and one task are enough.                                           *)
(***************************************************************************)
EXTENDS Naturals, Sequences

CONSTANTS
    id,                     \* the task that is followed
    Limit,                  \* events on a page (the request's limit)
    MaxPolls,               \* _MAX_TERMINAL_WITHOUT_FINAL_POLLS
    MaxEvents               \* bound: events on the tape

ASSUME FollowAssumption ==
    /\ {Limit, MaxPolls} \subseteq Nat \ {0}
    /\ MaxEvents \in Nat

VARIABLES
    status, tape,           \* the task store
    stage,                  \* where the request, or the client, is
    cursor,                 \* the client's from_seq
    row,                    \* the status the handler has read last
    page,                   \* the seqs of the events it has read last
    lastSeq,                \* what it has read from max_seq
    polls,                  \* terminal_without_final_polls
    seen,                   \* the seqs the client has rendered, in order
    result                  \* what follow_to_terminal returns

storeVars == <<status, tape>>
followVars == <<storeVars, stage, cursor, row, page, lastSeq, polls, seen, result>>

Task == INSTANCE TaskLifecycle WITH Task <- {id}

Terminal == Task!Terminal

(* The handler's awaits, in the order of the code.                         *)
Handling == {"row", "list", "park", "reread", "latest", "maxSeq", "reply"}
Ended    == {"done", "raised", "timedOut"}

FollowInit ==
    /\ Task!Init
    /\ stage = "poll" /\ cursor = 0
    /\ row = "absent" /\ page = << >> /\ lastSeq = 0
    /\ polls = 0 /\ seen = << >> /\ result = "none"

-----------------------------------------------------------------------------
(* The task.                                                               *)
Works ==
    /\ Task!Next
    /\ Len(tape'[id]) <= MaxEvents
    /\ UNCHANGED <<stage, cursor, row, page, lastSeq, polls, seen, result>>

-----------------------------------------------------------------------------
(* The route.                                                              *)

(* TaskStore.list_events: the events from the cursor on, at most Limit.    *)
PageAt(from) ==
    LET first == IF from = 0 THEN 1 ELSE from
        size  == IF Len(tape[id]) + 1 < first + Limit
                   THEN Len(tape[id]) + 1 - first ELSE Limit
    IN  [i \in 1..size |-> first + i - 1]

ReadRow ==
    /\ stage = "row"
    /\ row' = status[id]
    /\ stage' = "list"
    /\ UNCHANGED <<storeVars, cursor, page, lastSeq, polls, seen, result>>

(* Without a backlog and with the row still live the handler waits, unless *)
(* the request asked for a snapshot (wait = 0).                            *)
ReadPage ==
    /\ stage = "list"
    /\ page' = PageAt(cursor)
    /\ stage' \in IF page' = << >> /\ row \notin Terminal
                    THEN {"park", "latest"} ELSE {"latest"}
    /\ UNCHANGED <<storeVars, cursor, row, lastSeq, polls, seen, result>>

(* Fault: the wake-up looks at the row only.                               *)
WokenBlind ==
    /\ stage = "park"
    /\ stage' = "reread"
    /\ UNCHANGED <<storeVars, cursor, row, page, lastSeq, polls, seen, result>>

(* The wait on the Condition ends: the events are read again ...           *)
Woken ==
    /\ stage = "park"
    /\ page' = PageAt(cursor)
    /\ stage' = IF page' = << >> THEN "reread" ELSE "latest"
    /\ UNCHANGED <<storeVars, cursor, row, lastSeq, polls, seen, result>>

(* Fault: the wait ends only for an event or the deadline.                 *)
RereadDeaf ==
    /\ stage = "reread"
    /\ row' = status[id]
    /\ stage' = "park"
    /\ UNCHANGED <<storeVars, cursor, page, lastSeq, polls, seen, result>>

(* ... and, if there are none, the row, for a silent transition.           *)
Reread ==
    /\ stage = "reread"
    /\ row' = status[id]
    /\ stage' = IF row' \in Terminal THEN "latest" ELSE "park"
    /\ UNCHANGED <<storeVars, cursor, page, lastSeq, polls, seen, result>>

(* The deadline of the request has passed.                                 *)
WaitOver ==
    /\ stage = "park"
    /\ stage' = "latest"
    /\ UNCHANGED <<storeVars, cursor, row, page, lastSeq, polls, seen, result>>

ReadLatest ==
    /\ stage = "latest"
    /\ row' = IF row \in Terminal THEN row ELSE status[id]
    /\ stage' = "maxSeq"
    /\ UNCHANGED <<storeVars, cursor, page, lastSeq, polls, seen, result>>

ReadMaxSeq ==
    /\ stage = "maxSeq"
    /\ lastSeq' = Len(tape[id])
    /\ stage' = "reply"
    /\ UNCHANGED <<storeVars, cursor, row, page, polls, seen, result>>

(* Fault: the cursor stays on the last event delivered.                    *)
NextFromSeqSame == IF page = << >> THEN cursor ELSE page[Len(page)]

NextFromSeq == IF page = << >> THEN cursor ELSE page[Len(page)] + 1

(* Fault: a page never announces another one.                              *)
HasMoreNever == FALSE

HasMore == lastSeq > 0 /\ NextFromSeq <= lastSeq

-----------------------------------------------------------------------------
(* The client.                                                             *)
Request ==
    /\ stage = "poll" /\ status[id] # "absent"
    /\ stage' = "row"
    /\ UNCHANGED <<storeVars, cursor, row, page, lastSeq, polls, seen, result>>

Finals == {n \in 1..Len(page) : tape[id][page[n]] \in Terminal}

(* The page says that the task has ended, and yet has no final.            *)
Quiet == row \in Terminal /\ ~HasMore

(* The page arrives and is rendered.  A final ends the follow; three       *)
(* quiet pages in a row make the client ask for the row itself.            *)
Process ==
    /\ stage = "reply"
    /\ seen' = seen \o page
    /\ IF Finals # {}
         THEN /\ result' = tape[id][page[CHOOSE n \in Finals : TRUE]]
              /\ stage' = "done"
              /\ UNCHANGED <<cursor, polls>>
         ELSE /\ cursor' = NextFromSeq
              /\ polls' = IF Quiet THEN polls + 1 ELSE 0
              /\ stage' = IF polls' >= MaxPolls THEN "fallback" ELSE "poll"
              /\ UNCHANGED result
    /\ UNCHANGED <<storeVars, row, page, lastSeq>>

(* Fault: a task without a final is reported as failed.                    *)
FallbackFailed ==
    /\ stage = "fallback"
    /\ result' = "failed"
    /\ stage' = "done"
    /\ UNCHANGED <<storeVars, cursor, row, page, lastSeq, polls, seen>>

(* GET /tasks/{id}/result refuses (task_not_terminal) a live row.        *)
Fallback ==
    /\ stage = "fallback"
    /\ IF status[id] \in Terminal
         THEN result' = status[id] /\ stage' = "done"
         ELSE stage' = "refused" /\ UNCHANGED result
    /\ UNCHANGED <<storeVars, cursor, row, page, lastSeq, polls, seen>>

(* total_timeout is looked at between two requests.                        *)
TimesOut ==
    /\ stage = "poll"
    /\ stage' = "timedOut"
    /\ UNCHANGED <<storeVars, cursor, row, page, lastSeq, polls, seen, result>>

(* The connection breaks or the server goes away: the transport raises and *)
(* the follow ends with the exception.                                     *)
TransportFails ==
    /\ stage \in Handling \cup {"fallback"}
    /\ stage' = "raised"
    /\ UNCHANGED <<storeVars, cursor, row, page, lastSeq, polls, seen, result>>

-----------------------------------------------------------------------------
Follow ==
    \/ Request    \/ ReadRow    \/ ReadPage   \/ Woken   \/ Reread
    \/ ReadLatest \/ ReadMaxSeq \/ Process    \/ Fallback

(* The follow is over; the task goes on without it, or has ended too.      *)
Over == stage \in Ended /\ UNCHANGED followVars

FollowNext == Works \/ Follow \/ WaitOver \/ TimesOut \/ TransportFails \/ Over

FollowSpec == FollowInit /\ [][FollowNext]_followVars

(* The handler and the client go on.  A Condition wait ends after 0.5 s at *)
(* the latest, notified or not.  Nothing is assumed of the task, nor that  *)
(* the deadline of a request is ever what ends its wait.                   *)
FollowFairSpec == FollowSpec /\ WF_followVars(Follow)

-----------------------------------------------------------------------------
(* Properties.                                                             *)

FollowTypeOK ==
    /\ status \in [{id} -> {"absent"} \cup Task!Live \cup Terminal]
    /\ tape \in [{id} -> Seq(Task!Progress \cup Terminal)]
    /\ stage \in Handling \cup Ended \cup {"poll", "fallback", "refused"}
    /\ row \in {"absent"} \cup Task!Live \cup Terminal
    /\ cursor \in 0..(MaxEvents + 1) /\ lastSeq \in 0..MaxEvents
    /\ polls \in 0..MaxPolls
    /\ page \in Seq(1..MaxEvents) /\ seen \in Seq(1..MaxEvents)
    /\ result \in {"none"} \cup Terminal

(* The client renders every event once and in the order of the tape: no    *)
(* page boundary and no re-read after a wake-up skips or repeats one.      *)
RenderedOnce ==
    /\ Len(seen) <= Len(tape[id])
    /\ \A i \in 1..Len(seen) : seen[i] = i

(* A follow that returns has rendered the whole tape but for a final that  *)
(* came too late: has_more is computed after the row was read, so a quiet  *)
(* page cannot hide progress.                                              *)
OnlyFinalMissed ==
    stage = "done" =>
        \A i \in 1..Len(tape[id]) : i > Len(seen) => tape[id][i] \in Terminal

(* What the follow returns is how the row ended, except that a `failed'    *)
(* final on a SUCCEEDED row is believed.                                   *)
ResultMatchesRow ==
    stage = "done" =>
        \/ result = status[id]
        \/ result = "failed" /\ status[id] = "succeeded"
           /\ \E i \in 1..Len(tape[id]) : tape[id][i] = "failed"

(* What is on the tape reaches the client while the task goes on, even if  *)
(* every notify is lost.                                                   *)
Delivered ==
    \A n \in 1..MaxEvents :
        Len(tape[id]) >= n ~> Len(seen) >= n \/ stage \in Ended

(* Once the task has ended the follow ends, with or without a final on the *)
(* tape.                                                                   *)
FollowEnds == status[id] \in Terminal ~> stage \in Ended
=============================================================================

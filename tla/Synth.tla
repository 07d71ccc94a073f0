------------------------------- MODULE Synth -------------------------------
(***************************************************************************)
(* synthesize (api_synth.py): sources become knowledge pages.              *)
(*                                                                         *)
(* The knowledge log says which sources a default run may skip.  A run     *)
(* that has worked through all groups and pages of a source appends        *)
(* synth_source_done; one that could not persist a page deactivates it and *)
(* appends synth_source_failed, which takes an earlier done back, so that  *)
(* the next default run processes the source again and rebuilds the page.  *)
(* --all looks at no marker.  Bases older than the markers have only a     *)
(* `synth' row per page; the first default run turns these into done       *)
(* markers, once, and leaves a sentinel.                                   *)
(*                                                                         *)
(* A run is a sequence of awaits (`at'); at each it may go on, get an      *)
(* error or be cancelled, and the process may die.  A cancelled storage    *)
(* call stays in its thread and may commit after a later one (`late'),     *)
(* until the connection is closed.  Runs hold ingest_lock, so there is one *)
(* at a time.                                                              *)
(*                                                                         *)
(* Abstractions: the log is what the fold of `already' gets from it.  The  *)
(* LLM is a choice: of the pages a source yields, their content, and       *)
(* whether a group failed for good.  A source that has left the disk or    *)
(* changed since its ingest is skipped without a marker.                   *)
(***************************************************************************)
EXTENDS PageIndex

CONSTANTS
    Source,                 \* the active source documents
    Yields,                 \* Yields[s]: the pages the LLM may write from s
    Legacy,                 \* sources done before there were markers
    None,                   \* no source, no page
    MaxRuns, MaxMishaps     \* bounds: runs; errors, cancels and deaths

ASSUME SynthAssumption ==
    /\ Yields \in [Source -> SUBSET Page]
    /\ Legacy \subseteq Source /\ None \notin Source \cup Page
    /\ {MaxRuns, MaxMishaps} \subseteq Nat

VARIABLES
    done,                   \* sources whose latest marker is done
    failed,                 \* sources that have a failed marker at all
    rows,                   \* sources that have a `synth' row with a page
    sentinel,               \* the legacy rows have been looked at
    at, all,                \* the run's await; it was started with --all
    already, backfill,      \* what it skips; markers it has still to add
    todo, src,              \* the sources it has still to do, and the one
    pages, page,            \* that source's pages still to do, and the one
    groupErrors,            \* a group of src failed for good
    persistFailed,          \* a page of src was deactivated
    late,                   \* calls whose awaiter is gone
    emitted,                \* emitted[s]: the pages of s's latest attempt
    owner,                  \* owner[p]: the source p was last persisted for
    finished,               \* sources that some run has worked through
    marksFirst,             \* no --all ran before the sentinel was there
    overtaken,              \* a cancelled upsert landed after the hide
    runs, cancels, faults, crashes

log     == <<done, failed, rows, sentinel>>
run     == <<all, already, backfill, todo, src, pages, page, groupErrors, persistFailed>>
history == <<emitted, owner, finished, marksFirst, overtaken>>
counts  == <<runs, cancels, faults, crashes>>
vars    == <<file, index, log, at, run, late, history, counts>>

Init ==
    /\ file = [p \in Page |-> 0] /\ hash = [p \in Page |-> 0]
    /\ active = {} /\ part = [p \in Page |-> Nothing]
    /\ done = {} /\ failed = {} /\ rows = Legacy /\ sentinel = FALSE
    /\ at = "idle" /\ all = FALSE
    /\ already = {} /\ backfill = {} /\ todo = {} /\ src = None
    /\ pages = {} /\ page = None
    /\ groupErrors = FALSE /\ persistFailed = FALSE
    /\ late = {}
    /\ emitted = [s \in Source |-> {}] /\ owner = [p \in Page |-> None]
    /\ finished = Legacy /\ marksFirst = TRUE /\ overtaken = FALSE
    /\ runs = 0 /\ cancels = 0 /\ faults = 0 /\ crashes = 0

-----------------------------------------------------------------------------
(* What the log says.                                                      *)

(* Mutant: every run looks at the rows.                                    *)
BackfilledAlways == rows \ failed

Backfilled == IF sentinel THEN {} ELSE rows \ failed

(* The sources a default run would skip if it started now.                 *)
Skipped == done \cup Backfilled

-----------------------------------------------------------------------------
(* The run.                                                                *)

(* The locals of a run that is gone.                                       *)
Forget ==
    /\ all' = FALSE /\ already' = {} /\ backfill' = {} /\ todo' = {}
    /\ src' = None /\ pages' = {} /\ page' = None
    /\ groupErrors' = FALSE /\ persistFailed' = FALSE

Begin ==
    /\ at = "idle" /\ runs < MaxRuns /\ runs' = runs + 1
    /\ \E a \in BOOLEAN :
         /\ all' = a
         /\ at' = IF a THEN "next" ELSE "fold"
         /\ marksFirst' = (marksFirst /\ (sentinel \/ ~a))
    /\ todo' = Source
    /\ UNCHANGED <<file, index, log, already, backfill, src, pages, page, groupErrors,
                   persistFailed, late, emitted, owner, finished, overtaken,
                   cancels, faults, crashes>>

(* list_knowledge_log is read and folded.                                  *)
Fold ==
    /\ at = "fold"
    /\ already' = Skipped /\ backfill' = Backfilled
    /\ at' = IF sentinel THEN "next" ELSE "sentinel"
    /\ UNCHANGED <<file, index, log, all, todo, src, pages, page, groupErrors,
                   persistFailed, late, history, counts>>

(* The sentinel first, then a done marker for each legacy source.          *)
Sentinel ==
    /\ at = "sentinel"
    /\ sentinel' = TRUE /\ at' = "backfill"
    /\ UNCHANGED <<file, index, done, failed, rows, run, late, history, counts>>

Backfill ==
    /\ at = "backfill"
    /\ IF backfill = {}
         THEN at' = "next" /\ UNCHANGED <<done, backfill>>
         ELSE \E s \in backfill :
                done' = done \cup {s} /\ backfill' = backfill \ {s} /\ UNCHANGED at
    /\ UNCHANGED <<file, index, failed, rows, sentinel, all, already, todo, src,
                   pages, page, groupErrors, persistFailed, late, history, counts>>

(* The next source: skipped because it is done, or because its file is not *)
(* what was ingested.                                                      *)
Pass ==
    /\ at = "next"
    /\ \E s \in todo : todo' = todo \ {s}
    /\ UNCHANGED <<file, index, log, at, all, already, backfill, src, pages,
                   page, groupErrors, persistFailed, late, history, counts>>

Take ==
    /\ at = "next"
    /\ \E s \in todo \ already : src' = s /\ todo' = todo \ {s}
    /\ groupErrors' = FALSE /\ persistFailed' = FALSE
    /\ at' = "groups"
    /\ UNCHANGED <<file, index, log, all, already, backfill, pages, page,
                   late, history, counts>>

(* The LLM has answered for every group of the source.  A group that       *)
(* failed for good leaves the pages of the others.                         *)
Groups ==
    /\ at = "groups"
    /\ \E ps \in SUBSET Yields[src], e \in BOOLEAN :
         /\ pages' = ps /\ emitted' = [emitted EXCEPT ![src] = ps]
         /\ groupErrors' = e
    /\ at' = "page"
    /\ UNCHANGED <<file, index, log, all, already, backfill, todo, src, page,
                   persistFailed, late, owner, finished, marksFirst,
                   overtaken, counts>>

(* get_document, write_page and the upsert that follows without an await.  *)
WritePage ==
    /\ at = "page" /\ pages # {}
    /\ \E p \in pages : \E v \in Body \ {file[p]} :
         /\ page' = p /\ pages' = pages \ {p}
         /\ file' = [file EXCEPT ![p] = v]
         /\ owner' = [owner EXCEPT ![p] = src]
    /\ at' = "upsert"
    /\ UNCHANGED <<index, log, all, already, backfill, todo, src, groupErrors,
                   persistFailed, late, emitted, finished, marksFirst,
                   overtaken, counts>>

(* A call on the page's index returns.                                     *)
Persist ==
    /\ at \in Persisting
    /\ Execute(at, page, file[page])
    /\ at' = AfterPersist(at)
    /\ UNCHANGED <<file, log, run, late, history, counts>>

(* The `synth' row of a page that is in place.                             *)
LogPage ==
    /\ at = "persisted"
    /\ rows' = rows \cup {src} /\ at' = "page"
    /\ UNCHANGED <<file, index, done, failed, sentinel, run, late, history, counts>>

(* Mutant: a failed page only withholds the done marker.                   *)
MarkWithheld ==
    /\ at = "page" /\ pages = {}
    /\ done' = IF ~persistFailed /\ ~groupErrors THEN done \cup {src} ELSE done
    /\ UNCHANGED failed
    /\ finished' = IF ~persistFailed /\ ~groupErrors
                     THEN finished \cup {src} ELSE finished
    /\ at' = "next"
    /\ UNCHANGED <<file, index, rows, sentinel, run, late, emitted, owner,
                   marksFirst, overtaken, counts>>

(* The marker of the source: failed if a page was deactivated, done if no  *)
(* group is to be retried, else none.                                      *)
Mark ==
    /\ at = "page" /\ pages = {}
    /\ done' = CASE persistFailed -> done \ {src}
                 [] ~persistFailed /\ ~groupErrors -> done \cup {src}
                 [] OTHER         -> done
    /\ failed' = IF persistFailed THEN failed \cup {src} ELSE failed
    /\ finished' = IF ~persistFailed /\ ~groupErrors
                     THEN finished \cup {src} ELSE finished
    /\ at' = "next"
    /\ UNCHANGED <<file, index, rows, sentinel, run, late, emitted, owner,
                   marksFirst, overtaken, counts>>

(* The handlers.  A page whose persist raised is hidden, the failure is    *)
(* reported, and the run goes on with the next page.                       *)
Hide ==
    /\ at \in {"hide", "abort"}
    /\ Execute("hide", page, 0)
    /\ at' = IF at = "hide" THEN "report" ELSE "invalidate"
    /\ UNCHANGED <<file, log, run, late, history, counts>>

Report ==
    /\ at = "report" /\ at' = "page"
    /\ UNCHANGED <<file, index, log, run, late, history, counts>>

(* A cancelled run appends the failed marker before it raises on.          *)
Invalidate ==
    /\ at = "invalidate"
    /\ done' = done \ {src} /\ failed' = failed \cup {src}
    /\ at' = "close"
    /\ UNCHANGED <<file, index, rows, sentinel, run, late, history, counts>>

Return ==
    /\ at = "next" /\ todo = {} /\ at' = "close"
    /\ UNCHANGED <<file, index, log, run, late, history, counts>>

(* The connection is closed; a call that has not committed never does.     *)
Close ==
    /\ at = "close" /\ at' = "idle" /\ late' = {} /\ Forget
    /\ UNCHANGED <<file, index, log, history, counts>>

-----------------------------------------------------------------------------
(* What goes wrong.                                                        *)

Awaits == {"fold", "sentinel", "backfill", "next", "groups", "page",
           "persisted", "hide", "report", "abort", "invalidate"} \cup Persisting

(* Mutant: only the first call can leave a partial row.                    *)
AfterErrorFirstOnly(p) ==
    CASE p = "upsert"     -> "hide"
      [] p = "hide"       -> "report"
      [] p = "abort"      -> "invalidate"
      [] OTHER            -> "close"

(* Errors of the handlers' own calls are suppressed; an error anywhere     *)
(* else than in the persist ends the run.                                  *)
AfterError(p) ==
    CASE p \in Persisting -> "hide"
      [] p = "hide"       -> "report"
      [] p = "abort"      -> "invalidate"
      [] OTHER            -> "close"

AfterCancel(p) == IF p \in Persisting THEN "abort" ELSE "close"

Mishap == faults + cancels + crashes < MaxMishaps

Raise ==
    /\ at \in Awaits /\ Mishap /\ faults' = faults + 1
    /\ at' = AfterError(at)
    /\ persistFailed' = (persistFailed \/ at \in Persisting)
    /\ UNCHANGED <<file, index, log, all, already, backfill, todo, src, pages,
                   page, groupErrors, late, history, runs, cancels, crashes>>

(* A log call that commits although its awaiter is gone is a cancel at the *)
(* next await.                                                             *)
Cancel ==
    /\ at \in Awaits /\ Mishap /\ cancels' = cancels + 1
    /\ at' = AfterCancel(at)
    /\ late' = CASE at \in Persisting ->
                      late \cup {[call |-> at, page |-> page, ver |-> file[page]]}
                 [] at \in {"hide", "abort"} ->
                      late \cup {[call |-> "hide", page |-> page, ver |-> 0]}
                 [] OTHER -> late
    /\ UNCHANGED <<file, index, log, run, history, runs, faults, crashes>>

LateLands ==
    /\ \E k \in late :
         /\ late' = late \ {k}
         /\ overtaken' = (overtaken \/ (k.call = "upsert" /\ at # "abort"))
         /\ \/ Execute(k.call, k.page, k.ver)
            \/ Refused(k.call, k.page) /\ UNCHANGED index
    /\ UNCHANGED <<file, log, at, run, emitted, owner, finished, marksFirst,
                   counts>>

Crash ==
    /\ at # "idle" /\ Mishap /\ crashes' = crashes + 1
    /\ at' = "idle" /\ late' = {} /\ Forget
    /\ UNCHANGED <<file, index, log, history, runs, cancels, faults>>

Idle == at = "idle" /\ UNCHANGED vars

Next ==
    \/ Begin \/ Fold \/ Sentinel \/ Backfill
    \/ Pass \/ Take \/ Groups \/ WritePage \/ Persist \/ LogPage \/ Mark
    \/ Hide \/ Report \/ Invalidate
    \/ Return \/ Close
    \/ Raise \/ Cancel \/ LateLands \/ Crash \/ Idle

Spec == Init /\ [][Next]_vars

-----------------------------------------------------------------------------
(* Properties.                                                             *)

TypeOK ==
    /\ IndexTypeOK
    /\ done \subseteq Source /\ failed \subseteq Source /\ rows \subseteq Source
    /\ sentinel \in BOOLEAN
    /\ at \in Awaits \cup {"idle", "close"} /\ all \in BOOLEAN
    /\ already \subseteq Source /\ backfill \subseteq already
    /\ todo \subseteq Source /\ src \in Source \cup {None}
    /\ pages \subseteq Page /\ page \in Page \cup {None}
    /\ groupErrors \in BOOLEAN /\ persistFailed \in BOOLEAN
    /\ late \subseteq [call : Writing, page : Page, ver : Content]
    /\ emitted \in [Source -> SUBSET Page]
    /\ owner \in [Page -> Source \cup {None}]
    /\ finished \subseteq Source
    /\ marksFirst \in BOOLEAN /\ overtaken \in BOOLEAN
    /\ at \in Persisting => page \in Page /\ src \in Source /\ src \notin todo
    /\ runs \in 0..MaxRuns
    /\ {cancels, faults, crashes} \subseteq 0..MaxMishaps

(* Between runs an active page is whole, wherever in the five calls of its *)
(* persist, or in the handlers, one error or one cancel has struck.  Only  *)
(* an upsert that commits in its thread after the hide, a second failure   *)
(* or a death of the process leaves a half-written page visible.           *)
HalfWrittenHidden ==
    at = "idle" /\ ~overtaken /\ crashes = 0 /\ faults + cancels <= 1 =>
        \A p \in active : Whole(p)

(* A page that a failure took down is not stranded: unless the LLM dropped *)
(* it since, a default run does not skip the source it is to be rebuilt    *)
(* from, not even when that source was done before, or is old enough to be *)
(* backfilled.  One error, cancel or death does not change that.           *)
NoPageStranded ==
    at = "idle" /\ faults + cancels + crashes <= 1 =>
        \A p \in Page :
            Exists(p) /\ p \notin active /\ p \in emitted[owner[p]] =>
                owner[p] \notin Skipped

(* A default run skips no source that no run has ever worked through and   *)
(* that is not older than the markers, whatever fails and wherever the     *)
(* process dies; unless a run with --all came before the sentinel.         *)
SkipsOnlyFinished ==
    marksFirst => Skipped \subseteq finished

(* "The sentinel is written unconditionally on the first post-fan-out run  *)
(* so any later crash leaves us in the `sentinel already exists, do not    *)
(* backfill' state."  The code does not provide it: a first run with --all *)
(* writes none, and the rows it leaves behind are backfilled.              *)
BackfillsOnlyLegacy ==
    Skipped \subseteq finished
=============================================================================

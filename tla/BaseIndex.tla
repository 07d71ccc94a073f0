----------------------------- MODULE BaseIndex -----------------------------
(***************************************************************************)
(* The source layer of a base: the files under sources/, the documents and *)
(* chunks that index them, and the two tasks that change the index, ingest *)
(* (api_ingest.py, persist_source) and delete (api_delete.py).             *)
(*                                                                         *)
(* Persisting a document is a sequence of storage calls that commit one by *)
(* one: upsert_document writes the row as active, with the new hash, and   *)
(* only then are the chunks replaced.  When a later call raises, or the    *)
(* task is cancelled, the row is deactivated, which hides it and makes the *)
(* next ingest process it again; a row that is active and has the hash of  *)
(* the file is skipped.                                                    *)
(*                                                                         *)
(* A storage call runs in a worker thread, under the connection's lock but *)
(* not in the order of the calls: cancelling the task does not stop it,    *)
(* and it may commit after a call made later (`late').  What has not       *)
(* committed when the connection is closed never does.  The tasks take     *)
(* ingest_lock, so there is one at a time.                                 *)
(*                                                                         *)
(* Abstractions: a file's content is a version number, which is also its   *)
(* hash, and the chunks of a document are the version they were cut from.  *)
(* Embedding, which follows the scan, is one await.  Files are edited at   *)
(* any time and removed only by delete; every mtime is usable.             *)
(***************************************************************************)
EXTENDS Naturals

CONSTANTS
    Doc,                    \* the source documents
    Illustrated,            \* those that reference assets
    MaxVersion,             \* bound: contents of a file
    MaxRuns,                \* bound: tasks
    MaxEdits,               \* bound: edits of files
    MaxCancels,             \* bound: cancels of the running task
    MaxFaults,              \* bound: calls that raise
    MaxCrashes              \* bound: deaths of the process

ASSUME BaseAssumption ==
    /\ Illustrated \subseteq Doc
    /\ MaxVersion \in Nat \ {0}
    /\ {MaxRuns, MaxEdits, MaxCancels, MaxFaults, MaxCrashes} \subseteq Nat

VARIABLES
    file,                   \* file[d]: the content of d's file, 0 for none
    hash, active,           \* hash[d]: of d's row, 0 for none; active rows
    chunks, refs,           \* what d's chunks and their asset refs are from
    late,                   \* calls whose awaiter is gone
    op, at, doc, ver,       \* the task, its await, its document and content
    todo,                   \* the files an ingest has still to scan
    failed,                 \* the errors of its report
    ended,                  \* how the task ended
    saw, torn, calm,        \* history of the ingest, see Begin
    runs, edits, cancels, faults, crashes

index   == <<hash, active, chunks, refs>>
base    == <<file, index>>
task    == <<op, at, doc, ver, todo, failed, ended>>
history == <<saw, torn, calm>>
counts  == <<runs, edits, cancels, faults, crashes>>
vars    == <<base, late, task, history, counts>>

Whole(d) ==
    /\ hash[d] # 0 /\ chunks[d] = hash[d]
    /\ d \in Illustrated => refs[d] = hash[d]

Init ==
    /\ file   = [d \in Doc |-> 1]
    /\ hash   = [d \in Doc |-> 0] /\ active = {}
    /\ chunks = [d \in Doc |-> 0] /\ refs = [d \in Doc |-> 0]
    /\ late = {}
    /\ op = "none" /\ at = "idle" /\ doc \in Doc /\ ver = 0
    /\ todo = {} /\ failed = {} /\ ended = "none"
    /\ saw = [d \in Doc |-> 0] /\ torn = {} /\ calm = TRUE
    /\ runs = 0 /\ edits = 0 /\ cancels = 0 /\ faults = 0 /\ crashes = 0

-----------------------------------------------------------------------------
(* The calls.  Foreign keys refuse chunks without a row and refs without   *)
(* their chunks.                                                           *)
Refused(c, d, v) ==
    \/ c = "chunks" /\ hash[d] = 0
    \/ c = "refs"   /\ chunks[d] # v

Execute(c, d, v) ==
    /\ ~Refused(c, d, v)
    /\ hash'   = CASE c = "upsert" -> [hash EXCEPT ![d] = v]
                   [] c = "purge"  -> [hash EXCEPT ![d] = 0]
                   [] OTHER        -> hash
    /\ active' = CASE c = "upsert" -> active \cup {d}
                   [] c \in {"hide", "abort", "purge"} -> active \ {d}
                   [] OTHER        -> active
    /\ chunks' = CASE c = "chunks" -> [chunks EXCEPT ![d] = v]
                   [] c = "purge"  -> [chunks EXCEPT ![d] = 0]
                   [] OTHER        -> chunks
    /\ refs'   = CASE c = "refs"   -> [refs EXCEPT ![d] = v]
                   [] c \in {"chunks", "purge"} -> [refs EXCEPT ![d] = 0]
                   [] OTHER        -> refs
    /\ file'   = IF c = "trash" THEN [file EXCEPT ![d] = 0] ELSE file

(* An abandoned call commits, or raises with nobody to hear it.            *)
LateLands ==
    /\ \E k \in late :
         /\ late' = late \ {k}
         /\ \/ Execute(k.call, k.doc, k.ver)
            \/ Refused(k.call, k.doc, k.ver) /\ UNCHANGED base
    /\ UNCHANGED <<task, history, counts>>

-----------------------------------------------------------------------------
(* Where a task goes.                                                      *)

(* The awaits of persist_source, while doc_row_may_be_partial.             *)
Persisting == {"upsert", "chunks", "refs"}

(* Mutant: only a failing upsert is taken for a partial row.               *)
AfterErrorUpsertOnly(p) ==
    CASE p = "upsert"                                   -> "hide"
      [] p \in {"assets", "chunks", "refs", "log", "hide"} -> "error"
      [] p = "close"                                    -> "idle"
      [] OTHER                                          -> "close"

AfterError(p) ==
    CASE p \in Persisting                 -> "hide"
      [] p \in {"assets", "log", "hide"}  -> "error"
      [] p = "close"                      -> "idle"
      [] OTHER                            -> "close"

AfterCancel(p) ==
    CASE p \in Persisting -> "abort"
      [] p = "close"      -> "idle"
      [] OTHER            -> "close"

(* Mutant: delete moves the file first.                                    *)
AfterTrashFirst(p) ==
    CASE p = "assets" -> "upsert"
      [] p = "upsert" -> "chunks"
      [] p = "chunks" -> IF doc \in Illustrated THEN "refs" ELSE "log"
      [] p = "refs"   -> "log"
      [] p = "log"    -> "report"
      [] p = "report" -> "scan"
      [] p = "hide"   -> "error"
      [] p = "error"  -> "scan"
      [] p = "find"   -> "trash"
      [] p = "trash"  -> "purge"
      [] p = "purge"  -> "note"
      [] OTHER        -> "close"

After(p) ==
    CASE p = "assets" -> "upsert"
      [] p = "upsert" -> "chunks"
      [] p = "chunks" -> IF doc \in Illustrated THEN "refs" ELSE "log"
      [] p = "refs"   -> "log"
      [] p = "log"    -> "report"
      [] p = "report" -> "scan"
      [] p = "hide"   -> "error"
      [] p = "error"  -> "scan"
      [] p = "find"   -> "purge"
      [] p = "purge"  -> IF file[doc] # 0 THEN "trash" ELSE "note"
      [] p = "trash"  -> "note"
      [] OTHER        -> "close"              \* embed, note, abort

Ingesting == {"probe", "assets", "hide", "abort", "error", "log", "report"}
                \cup Persisting
Deleting  == {"find", "purge", "trash", "note"}
Awaits    == Ingesting \cup Deleting \cup {"embed", "close"}

-----------------------------------------------------------------------------
(* The tasks.                                                              *)

(* A task has taken ingest_lock and opens its connection.  The history     *)
(* remembers the rows that are active but not whole, and whether calls of  *)
(* earlier tasks are still under way.                                      *)
Begin(o) ==
    /\ at = "idle" /\ runs < MaxRuns
    /\ runs' = runs + 1
    /\ op' = o /\ ended' = "none" /\ failed' = {}
    /\ saw'  = [d \in Doc |-> 0]
    /\ torn' = {d \in active : ~Whole(d)}
    /\ calm' = (late = {})
    /\ UNCHANGED <<base, late, ver, edits, cancels, faults, crashes>>

Ingest ==
    /\ Begin("ingest")
    /\ at' = "scan" /\ todo' = {d \in Doc : file[d] # 0}
    /\ UNCHANGED doc

(* A file is read; one that has gone is a read_error.                      *)
Scan ==
    /\ at = "scan"
    /\ \E d \in todo :
         /\ todo' = todo \ {d}
         /\ doc' = d /\ ver' = file[d]
         /\ at' = IF file[d] # 0 THEN "probe" ELSE "error"
         /\ saw' = [saw EXCEPT ![d] = file[d]]
    /\ UNCHANGED <<base, late, op, failed, ended, torn, calm, counts>>

(* Mutant: a deactivated row with the same hash is skipped as well.        *)
UnchangedIgnoresActive ==
    hash[doc] = ver /\ doc \notin Illustrated

(* The early skip.                                                         *)
Unchanged ==
    doc \in active /\ hash[doc] = ver /\ doc \notin Illustrated

Probe ==
    /\ at = "probe"
    /\ at' = IF Unchanged THEN "scan"
             ELSE IF doc \in Illustrated THEN "assets" ELSE "upsert"
    /\ UNCHANGED <<base, late, op, doc, ver, todo, failed, ended, history, counts>>

Scanned ==
    /\ at = "scan" /\ todo = {}
    /\ at' = "embed"
    /\ UNCHANGED <<base, late, op, doc, ver, todo, failed, ended, history, counts>>

Delete ==
    /\ Begin("delete")
    /\ at' = "find" /\ doc' \in Doc
    /\ UNCHANGED todo

(* An await returns.  Delete finds its row or raises PageNotFound.         *)
Return ==
    /\ at \in Awaits \ {"probe", "close"}
    /\ Execute(at, doc, ver)
    /\ at' = IF at = "find" /\ hash[doc] = 0 THEN "close" ELSE After(at)
    /\ failed' = IF at = "error" THEN failed \cup {doc} ELSE failed
    /\ ended'  = IF at \in {"embed", "note"} THEN "done" ELSE ended
    /\ UNCHANGED <<late, op, doc, ver, todo, history, counts>>

(* It raises, of itself or because the database refuses.  Delete ignores   *)
(* an error of the close, ingest does not.                                 *)
Raise ==
    /\ at \in Awaits
    /\ IF Refused(at, doc, ver)
         THEN UNCHANGED faults
         ELSE faults < MaxFaults /\ faults' = faults + 1
    /\ at' = AfterError(at)
    /\ ended' = IF op = "ingest" THEN "none" ELSE ended
    /\ UNCHANGED <<base, late, op, doc, ver, todo, failed, history,
                   runs, edits, cancels, crashes>>

(* The task is cancelled there.  A call that writes is left to its thread. *)
Cancel ==
    /\ at \in Awaits /\ cancels < MaxCancels
    /\ cancels' = cancels + 1
    /\ late' = IF at \in Persisting \cup {"hide", "abort", "purge", "trash"}
                 THEN late \cup {[call |-> at, doc |-> doc, ver |-> ver]}
                 ELSE late
    /\ at' = AfterCancel(at) /\ ended' = "none"
    /\ UNCHANGED <<base, op, doc, ver, todo, failed, history,
                   runs, edits, faults, crashes>>

(* The connection is closed, and the lock released.                        *)
Close ==
    /\ at = "close"
    /\ late' = {k \in late : k.call = "trash"}
    /\ at' = "idle"
    /\ UNCHANGED <<base, op, doc, ver, todo, failed, ended, history, counts>>

-----------------------------------------------------------------------------
(* What else happens.                                                      *)

Edit(d) ==
    /\ edits < MaxEdits /\ edits' = edits + 1
    /\ \E v \in 1..MaxVersion : v # file[d] /\ file' = [file EXCEPT ![d] = v]
    /\ UNCHANGED <<index, late, task, history, runs, cancels, faults, crashes>>

(* The process dies and is started again.                                  *)
Crash ==
    /\ at # "idle" \/ late # {}
    /\ crashes < MaxCrashes /\ crashes' = crashes + 1
    /\ at' = "idle" /\ late' = {} /\ ended' = "none"
    /\ UNCHANGED <<base, op, doc, ver, todo, failed, history,
                   runs, edits, cancels, faults>>

Idle == at = "idle" /\ UNCHANGED vars

Next ==
    \/ Ingest \/ Scan \/ Probe \/ Scanned
    \/ Delete
    \/ Return \/ Raise \/ Cancel \/ Close \/ LateLands
    \/ \E d \in Doc : Edit(d)
    \/ Crash \/ Idle

Spec == Init /\ [][Next]_vars

-----------------------------------------------------------------------------
(* Properties.                                                             *)

Version == 0..MaxVersion

TypeOK ==
    /\ {file, hash, chunks, refs, saw} \subseteq [Doc -> Version]
    /\ active \subseteq {d \in Doc : hash[d] # 0}
    /\ late \subseteq [call : Awaits, doc : Doc, ver : Version]
    /\ op \in {"none", "ingest", "delete"} /\ at \in Awaits \cup {"idle", "scan"}
    /\ doc \in Doc /\ ver \in Version
    /\ todo \subseteq Doc /\ failed \subseteq Doc /\ torn \subseteq Doc
    /\ calm \in BOOLEAN
    /\ at \in Ingesting => op = "ingest" /\ doc \notin todo
    /\ at \in Deleting => op = "delete"
    /\ ended \in {"none", "done"}
    /\ runs \in 0..MaxRuns /\ edits \in 0..MaxEdits /\ cancels \in 0..MaxCancels
    /\ faults \in 0..MaxFaults /\ crashes \in 0..MaxCrashes

IngestDone == at = "idle" /\ op = "ingest" /\ ended = "done" /\ late = {}

(* An ingest that runs to its end leaves every file it read without an     *)
(* error active, with the content it read and whole, whatever state failed *)
(* or cancelled or dead tasks have left the index in; except a row without *)
(* assets that was torn before, active and not whole, under that very      *)
(* hash, which the early skip passes over.                                 *)
IngestIndexes ==
    IngestDone /\ calm =>
        \A d \in Doc : saw[d] # 0 /\ d \notin failed =>
            /\ d \in active /\ hash[d] = saw[d]
            /\ Whole(d) \/ (d \in torn /\ d \notin Illustrated)

(* Between tasks, an active row is whole: one failing call, wherever it    *)
(* is, is made up for.  It takes a crash, a cancel or a second failure to  *)
(* leave an active row that is not.                                        *)
OneFailureHides ==
    at = "idle" /\ crashes = 0 /\ cancels = 0 /\ faults <= 1 =>
        \A d \in active : Whole(d)

(* No row points at a missing file, not even between the steps of a        *)
(* delete, when one of them fails, or when the process dies; only the move *)
(* of a cancelled delete can overtake a later ingest.                      *)
NoStrandedRow ==
    cancels = 0 => \A d \in Doc : hash[d] # 0 => file[d] # 0

(* "the correct recovery is to re-submit the task": after a crash, an      *)
(* ingest that ends without an error leaves whole rows only.  The code     *)
(* does not provide it.                                                    *)
ResubmitRecovers ==
    IngestDone /\ failed = {} => \A d \in active : Whole(d)

(* "a mid-persist cancellation can't strand a half-written active=True     *)
(* row".  The code does not provide it.                                    *)
CancelStrandsNothing ==
    at = "idle" /\ late = {} => \A d \in active : Whole(d)
=============================================================================

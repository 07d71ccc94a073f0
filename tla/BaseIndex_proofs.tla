-------------------------- MODULE BaseIndex_proofs --------------------------
(***************************************************************************)
(* What TLAPS proves of ingest and delete, for any documents, any number   *)
(* of tasks and any bounds: what one failing call, and what the death of   *)
(* the process, may not leave behind.                                      *)
(***************************************************************************)
EXTENDS BaseIndex, TLAPS

-----------------------------------------------------------------------------
(* Types.  TypeOK is not inductive: a row gets the hash `ver', so that the *)
(* content must be known to exist wherever an upsert is ahead or under way.*)

Prepared == {"probe", "assets"} \cup Persisting

TypeInv ==
    /\ TypeOK
    /\ at \in Prepared => ver # 0
    /\ at = "scan" => op = "ingest"
    /\ \A k \in late : k.call = "upsert" => k.ver # 0

(* A call keeps the types of the index and the files.                      *)
LEMMA CallTypes ==
    ASSUME TypeInv, NEW c, NEW d \in Doc, NEW v \in Version,
           c = "upsert" => v # 0, Execute(c, d, v)
    PROVE  /\ {file', hash', chunks', refs'} \subseteq [Doc -> Version]
           /\ active' \subseteq {e \in Doc : hash'[e] # 0}
<1>0. {file, hash, chunks, refs} \subseteq [Doc -> Version] /\ 0 \in Version
    BY BaseAssumption DEF TypeInv, TypeOK, Version
<1>1. hash' \in [Doc -> Version]
    BY <1>0 DEF Execute
<1>2. chunks' \in [Doc -> Version]
    BY <1>0 DEF Execute
<1>3. refs' \in [Doc -> Version]
    BY <1>0 DEF Execute
<1>4. file' \in [Doc -> Version]
    BY <1>0 DEF Execute
<1>5. active' \subseteq {e \in Doc : hash'[e] # 0}
    <2>1. active \subseteq {e \in Doc : hash[e] # 0}
        BY DEF TypeInv, TypeOK
    <2>2. CASE c = "upsert"
        BY <1>0, <2>1, <2>2 DEF Execute
    <2>3. CASE c = "purge"
        BY <1>0, <2>1, <2>3 DEF Execute
    <2>4. CASE c \notin {"upsert", "purge"}
        BY <2>1, <2>4 DEF Execute
    <2> QED
        BY <2>2, <2>3, <2>4
<1> QED
    BY <1>1, <1>2, <1>3, <1>4, <1>5

(* Where a task goes is where a task may be.                               *)
LEMMA Routes ==
    ASSUME TypeInv, at \in Awaits
    PROVE  /\ After(at) \in Awaits \cup {"idle", "scan"}
           /\ AfterError(at) \in Awaits \cup {"idle"}
           /\ AfterCancel(at) \in Awaits \cup {"idle"}
           /\ \A p \in {After(at), AfterError(at), AfterCancel(at)} :
                /\ p \in Ingesting \cup {"scan"} => at \in Ingesting
                /\ p \in Deleting => at \in Deleting
                /\ p \in Prepared => at \in Prepared
BY DEF After, AfterError, AfterCancel, Awaits, Ingesting, Deleting,
       Persisting, Prepared

LEMMA InitTypes == Init => TypeInv
BY BaseAssumption
   DEF Init, TypeInv, TypeOK, Version, Prepared, Persisting, Awaits,
       Ingesting, Deleting

LEMMA TypesKept == TypeInv /\ [Next]_vars => TypeInv'
<1> SUFFICES ASSUME TypeInv, [Next]_vars PROVE TypeInv'
    OBVIOUS
<1> USE BaseAssumption DEF TypeInv
<1>1. CASE Ingest
    BY <1>1 DEF Ingest, Begin, base, index, TypeOK, Version, Awaits,
                Ingesting, Deleting, Persisting, Prepared
<1>2. CASE Scan
    BY <1>2 DEF Scan, base, index, counts, TypeOK, Version, Awaits,
                Ingesting, Deleting, Persisting, Prepared
<1>3. CASE Probe
    BY <1>3 DEF Probe, base, index, counts, history, TypeOK, Awaits,
                Ingesting, Deleting, Persisting, Prepared
<1>4. CASE Scanned
    BY <1>4 DEF Scanned, base, index, counts, history, TypeOK, Awaits,
                Ingesting, Deleting, Persisting, Prepared
<1>5. CASE Delete
    BY <1>5 DEF Delete, Begin, base, index, TypeOK, Version, Awaits,
                Ingesting, Deleting, Persisting, Prepared
<1>6. CASE Return
    <2>1. at \in Awaits /\ Execute(at, doc, ver)
        BY <1>6 DEF Return
    <2>2. at = "upsert" => ver # 0
        BY DEF Prepared, Persisting
    <2>3. /\ {file', hash', chunks', refs'} \subseteq [Doc -> Version]
          /\ active' \subseteq {e \in Doc : hash'[e] # 0}
        BY <2>1, <2>2, CallTypes DEF TypeOK
    <2>4. at' \in {"close", After(at)}
        BY <1>6 DEF Return
    <2>5. /\ at' \in Awaits \cup {"idle", "scan"}
          /\ at' \in Ingesting \cup {"scan"} => op = "ingest"
          /\ at' \in Ingesting => doc \notin todo
          /\ at' \in Deleting => op = "delete"
          /\ at' \in Prepared => ver # 0
        BY <2>1, <2>4, Routes
           DEF TypeOK, Awaits, Ingesting, Deleting, Persisting, Prepared
    <2>6. failed' \subseteq Doc /\ ended' \in {"none", "done"}
        BY <1>6 DEF Return, TypeOK
    <2> QED
        BY <1>6, <2>3, <2>5, <2>6 DEF Return, history, counts, TypeOK
<1>7. CASE Raise
    <2>1. /\ at' \in Awaits \cup {"idle"}
          /\ at' \in Ingesting => op = "ingest" /\ doc \notin todo
          /\ at' \in Deleting => op = "delete"
          /\ at' \in Prepared => ver # 0
          /\ at' # "scan"
        BY <1>7, Routes
           DEF Raise, TypeOK, Awaits, Ingesting, Deleting, Persisting, Prepared
    <2>2. faults' \in 0..MaxFaults /\ ended' \in {"none", "done"}
        BY <1>7 DEF Raise, TypeOK
    <2> QED
        BY <1>7, <2>1, <2>2 DEF Raise, base, index, history, TypeOK
<1>8. CASE Cancel
    <2>1. /\ at' \in Awaits \cup {"idle"}
          /\ at' \in Ingesting => op = "ingest" /\ doc \notin todo
          /\ at' \in Deleting => op = "delete"
          /\ at' \in Prepared => ver # 0
          /\ at' # "scan"
        BY <1>8, Routes
           DEF Cancel, TypeOK, Awaits, Ingesting, Deleting, Persisting, Prepared
    <2>2. cancels' \in 0..MaxCancels
        BY <1>8 DEF Cancel, TypeOK
    <2>3. /\ late' \subseteq [call : Awaits, doc : Doc, ver : Version]
          /\ \A k \in late' : k.call = "upsert" => k.ver # 0
        BY <1>8 DEF Cancel, TypeOK, Prepared, Persisting
    <2> QED
        BY <1>8, <2>1, <2>2, <2>3 DEF Cancel, base, index, history, TypeOK
<1>9. CASE Close
    BY <1>9 DEF Close, base, index, history, counts, TypeOK, Awaits,
                Ingesting, Deleting, Persisting, Prepared
<1>10. CASE LateLands
    <2>1. PICK k \in late :
              /\ late' = late \ {k}
              /\ \/ Execute(k.call, k.doc, k.ver)
                 \/ UNCHANGED base
        BY <1>10 DEF LateLands
    <2>2. k.doc \in Doc /\ k.ver \in Version
        BY DEF TypeOK
    <2>3. /\ {file', hash', chunks', refs'} \subseteq [Doc -> Version]
          /\ active' \subseteq {e \in Doc : hash'[e] # 0}
        <3>1. CASE Execute(k.call, k.doc, k.ver)
            BY <3>1, <2>2, CallTypes
        <3>2. CASE UNCHANGED base
            BY <3>2 DEF base, index, TypeOK
        <3> QED
            BY <2>1, <3>1, <3>2
    <2> QED
        BY <1>10, <2>1, <2>3 DEF LateLands, task, history, counts, TypeOK
<1>11. ASSUME NEW d \in Doc, Edit(d) PROVE TypeInv'
    <2>1. file' \in [Doc -> Version] /\ edits' \in 0..MaxEdits
        BY <1>11 DEF Edit, TypeOK, Version
    <2> QED
        BY <1>11, <2>1 DEF Edit, index, task, history, TypeOK
<1>12. CASE Crash
    BY <1>12 DEF Crash, base, index, history, TypeOK, Awaits, Ingesting,
                 Deleting, Persisting, Prepared
<1>13. CASE UNCHANGED vars
    BY <1>13 DEF vars, base, index, task, history, counts, TypeOK
<1> QED
    BY <1>1, <1>2, <1>3, <1>4, <1>5, <1>6, <1>7, <1>8, <1>9, <1>10, <1>11,
       <1>12, <1>13 DEF Next, Idle

(* The state of files, index and tasks keeps its type, in every            *)
(* interleaving of a task, its abandoned calls, editors and crashes.       *)
THEOREM TypeCorrect == Spec => []TypeOK
<1>1. Spec => []TypeInv
    BY InitTypes, TypesKept, PTL DEF Spec
<1> QED
    BY <1>1, PTL DEF TypeInv

-----------------------------------------------------------------------------
(* Rows and files.  NoStrandedRow is not inductive: that an upsert writes  *)
(* a row for a file that is there, and that a file is moved away only      *)
(* after its row is gone, rests on where the task is.                      *)

StrandInv ==
    cancels = 0 =>
        /\ late = {}
        /\ \A d \in Doc : hash[d] # 0 => file[d] # 0
        /\ at \in Prepared => file[doc] # 0
        /\ at = "trash" => hash[doc] = 0

LEMMA StrandKept ==
    TypeInv /\ TypeInv' /\ StrandInv /\ [Next]_vars => StrandInv'
<1> SUFFICES ASSUME TypeInv, TypeInv', StrandInv, [Next]_vars, cancels' = 0
             PROVE  StrandInv'
    BY DEF StrandInv
<1> USE DEF StrandInv
<1>0. cancels = 0 \/ Cancel
    BY DEF Next, Idle, Ingest, Delete, Begin, Scan, Probe, Scanned, Return,
           Raise, Close, LateLands, Edit, Crash, vars, counts
<1>1. cancels \in Nat /\ doc \in Doc
    BY BaseAssumption DEF TypeInv, TypeOK
<1>2. CASE Cancel
    BY <1>1, <1>2 DEF Cancel
<1>3. CASE cancels = 0 /\ ~Cancel
    <2>0. /\ late = {}
          /\ \A d \in Doc : hash[d] # 0 => file[d] # 0
          /\ at \in Prepared => file[doc] # 0
          /\ at = "trash" => hash[doc] = 0
        BY <1>3
    <2>1. CASE Ingest \/ Delete
        BY <2>0, <2>1 DEF Ingest, Delete, Begin, base, index, Prepared,
                          Persisting
    <2>2. CASE Scan
        BY <2>0, <2>2 DEF Scan, base, index, Prepared, Persisting
    <2>3. CASE Probe \/ Scanned
        BY <2>0, <2>3 DEF Probe, Scanned, base, index, Prepared, Persisting
    <2>4. CASE Return
        <3>1. /\ Execute(at, doc, ver) /\ late' = late /\ doc' = doc
              /\ at' \in {"close", After(at)}
            BY <2>4 DEF Return
        <3>2. /\ hash \in [Doc -> Version] /\ file \in [Doc -> Version]
            BY DEF TypeInv, TypeOK
        <3>3. CASE at = "upsert"
            <4>1. hash' = [hash EXCEPT ![doc] = ver] /\ file' = file
                BY <3>1, <3>3 DEF Execute
            <4>2. file[doc] # 0
                BY <2>0, <3>3 DEF Prepared, Persisting
            <4>3. at' \in {"close", "chunks"}
                BY <3>1, <3>3 DEF After
            <4> QED
                BY <2>0, <3>1, <3>2, <4>1, <4>2, <4>3, <1>1
        <3>4. CASE at = "purge"
            <4>1. hash' = [hash EXCEPT ![doc] = 0] /\ file' = file
                BY <3>1, <3>4 DEF Execute
            <4>2. at' \in {"close", "trash", "note"}
                BY <3>1, <3>4 DEF After
            <4> QED
                BY <2>0, <3>1, <3>2, <4>1, <4>2, <1>1
                   DEF Prepared, Persisting
        <3>5. CASE at = "trash"
            <4>1. file' = [file EXCEPT ![doc] = 0] /\ hash' = hash
                BY <3>1, <3>5 DEF Execute
            <4>2. at' \in {"close", "note"}
                BY <3>1, <3>5 DEF After
            <4> QED
                BY <2>0, <3>1, <3>2, <3>5, <4>1, <4>2, <1>1
                   DEF Prepared, Persisting
        <3>6. CASE at \notin {"upsert", "purge", "trash"}
            <4>1. file' = file /\ hash' = hash
                BY <3>1, <3>6 DEF Execute
            <4>2. /\ at' \in Prepared => at \in Prepared
                  /\ at' # "trash"
                BY <3>1, <3>6 DEF After, Prepared, Persisting
            <4> QED
                BY <2>0, <3>1, <4>1, <4>2
        <3> QED
            BY <3>3, <3>4, <3>5, <3>6
    <2>5. CASE Raise
        <3>1. at' \notin Prepared /\ at' # "trash"
            BY <2>5 DEF Raise, AfterError, Prepared, Persisting
        <3> QED
            BY <2>0, <2>5, <3>1 DEF Raise, base, index
    <2>6. CASE Close \/ Crash
        BY <2>0, <2>6 DEF Close, Crash, base, index, Prepared, Persisting
    <2>7. CASE LateLands
        BY <2>0, <2>7 DEF LateLands
    <2>8. ASSUME NEW d \in Doc, Edit(d) PROVE StrandInv'
        <3>1. \A e \in Doc : file'[e] # 0 \/ file'[e] = file[e]
            BY <2>8 DEF Edit, TypeInv, TypeOK
        <3> QED
            BY <2>0, <2>8, <3>1, <1>1 DEF Edit, index, task
    <2>9. CASE UNCHANGED vars
        BY <2>0, <2>9 DEF vars, base, index, task
    <2> QED
        BY <1>3, <2>1, <2>2, <2>3, <2>4, <2>5, <2>6, <2>7, <2>8, <2>9
           DEF Next, Idle
<1> QED
    BY <1>0, <1>2, <1>3

(* No row points at a missing file, whatever fails and wherever the        *)
(* process dies, unless a task was cancelled.                              *)
THEOREM RowsHaveFiles == Spec => []NoStrandedRow
<1>1. Init => StrandInv
    BY DEF Init, StrandInv
<1>2. StrandInv /\ TypeInv => NoStrandedRow
    <2> SUFFICES ASSUME StrandInv, TypeInv, cancels = 0, NEW d \in Doc,
                        hash[d] # 0
                 PROVE  file[d] # 0
        BY DEF NoStrandedRow
    <2> QED
        BY DEF StrandInv
<1> QED
    BY <1>1, <1>2, InitTypes, TypesKept, StrandKept, PTL DEF Spec

-----------------------------------------------------------------------------
(* Active rows.  While no call is abandoned and at most one has raised,    *)
(* an active row is whole, or it is the one the task is persisting, or     *)
(* about to hide.  The calls of the pipeline are never refused then: each  *)
(* finds what the one before it wrote.                                     *)

Partial(d) == d = doc /\ at \in {"chunks", "refs", "hide"}

WholeInv ==
    cancels = 0 /\ crashes = 0 =>
        /\ late = {}
        /\ at \in {"chunks", "refs"} => hash[doc] = ver
        /\ at = "refs" => chunks[doc] = ver
        /\ at = "hide" => faults > 0
        /\ faults <= 1 => \A d \in active : Whole(d) \/ Partial(d)

LEMMA WholeKept ==
    TypeInv /\ TypeInv' /\ WholeInv /\ [Next]_vars => WholeInv'
<1> SUFFICES ASSUME TypeInv, TypeInv', WholeInv, [Next]_vars,
                    cancels' = 0, crashes' = 0
             PROVE  WholeInv'
    BY DEF WholeInv
<1>1. /\ {cancels, crashes, faults, faults'} \subseteq Nat /\ doc \in Doc
      /\ active \subseteq Doc
      /\ {hash, chunks, refs} \subseteq [Doc -> Version]
    BY BaseAssumption DEF TypeInv, TypeOK
<1>2. CASE Cancel
    BY <1>1, <1>2 DEF Cancel
<1>3. CASE Crash
    BY <1>1, <1>3 DEF Crash
<1>4. CASE ~Cancel /\ ~Crash
    <2>0. /\ cancels = 0 /\ crashes = 0
          /\ late = {}
          /\ at \in {"chunks", "refs"} => hash[doc] = ver
          /\ at = "refs" => chunks[doc] = ver
          /\ at = "hide" => faults > 0
          /\ faults <= 1 => \A d \in active : Whole(d) \/ Partial(d)
        <3>1. cancels = 0 /\ crashes = 0
            BY <1>4 DEF Next, Idle, Ingest, Delete, Begin, Scan, Probe,
                        Scanned, Return, Raise, Close, LateLands, Edit, vars,
                        counts
        <3> QED
            BY <3>1 DEF WholeInv
    <2>1. ASSUME at \notin {"chunks", "refs", "hide"},
                 at' \notin {"chunks", "refs", "hide"},
                 late' = {}, UNCHANGED index, faults' = faults
          PROVE  WholeInv'
        BY <2>0, <2>1 DEF WholeInv, Whole, Partial, index
    <2>2. CASE Ingest \/ Delete
        BY <2>0, <2>1, <2>2 DEF Ingest, Delete, Begin, base
    <2>3. CASE Scan \/ Probe \/ Scanned
        BY <2>0, <2>1, <2>3 DEF Scan, Probe, Scanned, base, counts
    <2>4. CASE Return
        <3>1. /\ Execute(at, doc, ver) /\ at \in Awaits
              /\ late' = late /\ doc' = doc /\ ver' = ver /\ faults' = faults
              /\ at' \in {"close", After(at)}
              /\ at # "find" => at' = After(at)
            BY <2>4 DEF Return, counts
        <3>2. at = "upsert" => ver # 0
            BY DEF TypeInv, Prepared, Persisting
        <3>3. at = "chunks" => hash[doc] # 0
            BY <3>1 DEF Execute, Refused
        <3>4. CASE at = "upsert"
            <4>1. /\ hash' = [hash EXCEPT ![doc] = ver]
                  /\ active' = active \cup {doc}
                  /\ chunks' = chunks /\ refs' = refs
                BY <3>1, <3>4 DEF Execute
            <4>2. at' = "chunks"
                BY <3>1, <3>4 DEF After
            <4> QED
                BY <1>1, <2>0, <3>1, <3>4, <4>1, <4>2
                   DEF WholeInv, Whole, Partial
        <3>5. CASE at = "chunks"
            <4>1. /\ hash' = hash /\ active' = active
                  /\ chunks' = [chunks EXCEPT ![doc] = ver]
                  /\ refs' = [refs EXCEPT ![doc] = 0]
                BY <3>1, <3>5 DEF Execute
            <4>2. at' = IF doc \in Illustrated THEN "refs" ELSE "log"
                BY <3>1, <3>5 DEF After
            <4> QED
                BY <1>1, <2>0, <3>1, <3>3, <3>5, <4>1, <4>2
                   DEF WholeInv, Whole, Partial
        <3>6. CASE at = "refs"
            <4>1. /\ hash' = hash /\ active' = active /\ chunks' = chunks
                  /\ refs' = [refs EXCEPT ![doc] = ver]
                BY <3>1, <3>6 DEF Execute
            <4>2. at' = "log"
                BY <3>1, <3>6 DEF After
            <4>3. doc \in active => hash[doc] # 0
                BY DEF TypeInv, TypeOK
            <4> QED
                BY <1>1, <2>0, <3>1, <3>6, <4>1, <4>2, <4>3
                   DEF WholeInv, Whole, Partial
        <3>7. CASE at \in {"hide", "abort"}
            <4>1. /\ hash' = hash /\ active' = active \ {doc}
                  /\ chunks' = chunks /\ refs' = refs
                BY <3>1, <3>7 DEF Execute
            <4>2. at' \in {"error", "close"}
                BY <3>1, <3>7 DEF After
            <4> QED
                BY <1>1, <2>0, <3>1, <4>1, <4>2 DEF WholeInv, Whole, Partial
        <3>8. CASE at = "purge"
            <4>1. /\ hash' = [hash EXCEPT ![doc] = 0]
                  /\ active' = active \ {doc}
                  /\ chunks' = [chunks EXCEPT ![doc] = 0]
                  /\ refs' = [refs EXCEPT ![doc] = 0]
                BY <3>1, <3>8 DEF Execute
            <4>2. at' \in {"trash", "note"}
                BY <3>1, <3>8 DEF After
            <4> QED
                BY <1>1, <2>0, <3>1, <3>8, <4>1, <4>2
                   DEF WholeInv, Whole, Partial
        <3>9. CASE at \notin Persisting \cup {"hide", "abort", "purge"}
            <4>1. UNCHANGED index
                BY <3>1, <3>9 DEF Execute, index, Persisting
            <4>2. at' \notin {"chunks", "refs", "hide"}
                BY <3>1, <3>9 DEF After, Persisting
            <4> QED
                BY <2>0, <2>1, <3>1, <3>9, <4>1, <4>2 DEF Persisting
        <3> QED
            BY <3>4, <3>5, <3>6, <3>7, <3>8, <3>9 DEF Persisting
    <2>5. CASE Raise
        <3>1. /\ UNCHANGED index /\ late' = late /\ doc' = doc /\ ver' = ver
              /\ at' = AfterError(at) /\ at \in Awaits
              /\ IF Refused(at, doc, ver)
                   THEN faults' = faults ELSE faults' = faults + 1
            BY <2>5 DEF Raise, base
        <3>2. ~Refused(at, doc, ver)
            BY <2>0 DEF Refused, TypeInv, Prepared, Persisting
        <3>3. faults' > 0 /\ faults' = faults + 1
            BY <1>1, <3>1, <3>2
        <3>4. CASE at \in Persisting
            <4>1. at' = "hide"
                BY <3>1, <3>4 DEF AfterError, Persisting
            <4> QED
                BY <1>1, <2>0, <3>1, <3>3, <3>4, <4>1
                   DEF WholeInv, Whole, Partial, index, Persisting
        <3>5. CASE at \notin Persisting
            <4>1. at' \notin {"chunks", "refs", "hide"}
                BY <3>1, <3>5 DEF AfterError, Persisting
            <4>2. at = "hide" => faults' > 1
                BY <1>1, <2>0, <3>3
            <4> QED
                BY <1>1, <2>0, <3>1, <3>3, <3>5, <4>1, <4>2
                   DEF WholeInv, Whole, Partial, index, Persisting
        <3> QED
            BY <3>4, <3>5
    <2>6. CASE Close
        BY <2>0, <2>1, <2>6 DEF Close, base, counts
    <2>7. CASE LateLands
        BY <2>0, <2>7 DEF LateLands
    <2>8. ASSUME NEW d \in Doc, Edit(d) PROVE WholeInv'
        BY <2>0, <2>8 DEF Edit, index, task, WholeInv, Whole, Partial
    <2>9. CASE UNCHANGED vars
        BY <2>0, <2>9
           DEF vars, base, index, task, counts, WholeInv, Whole, Partial
    <2> QED
        BY <1>4, <2>2, <2>3, <2>4, <2>5, <2>6, <2>7, <2>8, <2>9
           DEF Next, Idle
<1> QED
    BY <1>2, <1>3, <1>4

(* Between tasks an active row is whole if at most one call ever raised,   *)
(* whichever it was, and nothing was cancelled or died: persist_source's   *)
(* errors are made up for by the deactivate.                               *)
THEOREM OneFailureIsHidden == Spec => []OneFailureHides
<1>1. Init => WholeInv
    BY DEF Init, WholeInv
<1>2. WholeInv /\ TypeInv => OneFailureHides
    BY DEF WholeInv, OneFailureHides, Partial
<1> QED
    BY <1>1, <1>2, InitTypes, TypesKept, WholeKept, PTL DEF Spec

-----------------------------------------------------------------------------
(* What an ingest has indexed.  IngestIndexes speaks of the end of an      *)
(* ingest; on the way there every document it has read is indexed, in      *)
(* hand, or among the errors of its report, and no call of an earlier      *)
(* task can change that behind its back.                                   *)

(* An ingest that began in calm and was not cancelled or broken off.       *)
OnCourse ==
    /\ op = "ingest" /\ calm
    /\ at \notin {"abort", "close", "idle"} \/ ended = "done"

(* The awaits at which doc is neither indexed nor given up.                *)
InHand == {"probe", "assets", "hide", "error"} \cup Persisting

Indexed(d) ==
    /\ d \in active /\ hash[d] = saw[d]
    /\ Whole(d) \/ (d \in torn /\ d \notin Illustrated)

CourseInv ==
    /\ op = "ingest" /\ ended = "done" => at \in {"close", "idle"}
    /\ OnCourse =>
        /\ late = {}
        /\ at \in InHand \cup {"log", "report"} => ver = saw[doc]
        /\ at \in {"chunks", "refs"} => doc \in active /\ hash[doc] = ver
        /\ at = "refs" => chunks[doc] = ver
        /\ \A d \in Doc : saw[d] # 0 /\ d \notin failed =>
                             Indexed(d) \/ (d = doc /\ at \in InHand)
        /\ \A d \in active : d \in todo \/ (d = doc /\ at = "probe") =>
                                Whole(d) \/ d \in torn

(* A call of the pipeline returns: what it wrote is what the next stage,   *)
(* and at last the index, relies on.                                       *)
LEMMA ReturnKeepsCourse ==
    ASSUME TypeInv, TypeInv', CourseInv, Return
    PROVE  CourseInv'
<1>1. /\ Execute(at, doc, ver) /\ at \in Awaits \ {"probe", "close"}
      /\ UNCHANGED <<late, op, doc, ver, todo, saw, torn, calm>>
      /\ at' = IF at = "find" /\ hash[doc] = 0 THEN "close" ELSE After(at)
      /\ failed' = IF at = "error" THEN failed \cup {doc} ELSE failed
      /\ ended' = IF at \in {"embed", "note"} THEN "done" ELSE ended
    BY DEF Return, history
<1>2. /\ doc \in Doc /\ active \subseteq Doc
      /\ {hash, chunks, refs, saw} \subseteq [Doc -> Version]
      /\ at \in Prepared => ver # 0
      /\ at \in Ingesting => doc \notin todo
    BY DEF TypeInv, TypeOK
<1> SUFFICES ASSUME op = "ingest" PROVE CourseInv'
    BY <1>1 DEF CourseInv, OnCourse
<1>3. at \in Ingesting \cup {"embed"}
    BY <1>1 DEF TypeInv, TypeOK, Awaits, Deleting
<1>4. ended' = "done" => at' = "close"
    BY <1>1, <1>3 DEF CourseInv, After, Ingesting, Persisting
<1> SUFFICES ASSUME OnCourse' PROVE CourseInv'
    BY <1>1, <1>4 DEF CourseInv
<1>5. OnCourse
    BY <1>1, <1>3 DEF OnCourse, CourseInv, After, Ingesting, Persisting
<1>6. /\ late = {}
      /\ at \in InHand \cup {"log", "report"} => ver = saw[doc]
      /\ at \in {"chunks", "refs"} => doc \in active /\ hash[doc] = ver
      /\ at = "refs" => chunks[doc] = ver
      /\ \A d \in Doc : saw[d] # 0 /\ d \notin failed =>
                           Indexed(d) \/ (d = doc /\ at \in InHand)
      /\ \A d \in active : d \in todo \/ (d = doc /\ at = "probe") =>
                              Whole(d) \/ d \in torn
    BY <1>5 DEF CourseInv
<1>7. CASE at = "upsert"
    <2>1. /\ hash' = [hash EXCEPT ![doc] = ver] /\ active' = active \cup {doc}
          /\ chunks' = chunks /\ refs' = refs
        BY <1>1, <1>7 DEF Execute
    <2>2. at' = "chunks" /\ ended' = ended /\ failed' = failed
        BY <1>1, <1>7 DEF After
    <2>3. doc \notin todo
        BY <1>2, <1>7 DEF Ingesting, Persisting
    <2> QED
        BY <1>1, <1>2, <1>4, <1>6, <1>7, <2>1, <2>2, <2>3
           DEF CourseInv, InHand, Persisting, Indexed, Whole
<1>8. CASE at = "chunks"
    <2>1. /\ hash' = hash /\ active' = active
          /\ chunks' = [chunks EXCEPT ![doc] = ver]
          /\ refs' = [refs EXCEPT ![doc] = 0]
        BY <1>1, <1>8 DEF Execute
    <2>2. /\ at' = IF doc \in Illustrated THEN "refs" ELSE "log"
          /\ ended' = ended /\ failed' = failed
        BY <1>1, <1>8 DEF After
    <2>3. doc \notin todo /\ ver # 0
        BY <1>2, <1>8 DEF Ingesting, Persisting, Prepared
    <2> QED
        BY <1>1, <1>2, <1>4, <1>6, <1>8, <2>1, <2>2, <2>3
           DEF CourseInv, InHand, Persisting, Indexed, Whole
<1>9. CASE at = "refs"
    <2>1. /\ hash' = hash /\ active' = active /\ chunks' = chunks
          /\ refs' = [refs EXCEPT ![doc] = ver]
        BY <1>1, <1>9 DEF Execute
    <2>2. at' = "log" /\ ended' = ended /\ failed' = failed
        BY <1>1, <1>9 DEF After
    <2>3. doc \notin todo /\ ver # 0
        BY <1>2, <1>9 DEF Ingesting, Persisting, Prepared
    <2> QED
        BY <1>1, <1>2, <1>4, <1>6, <1>9, <2>1, <2>2, <2>3
           DEF CourseInv, InHand, Persisting, Indexed, Whole
<1>10. CASE at = "hide"
    <2>1. /\ hash' = hash /\ active' = active \ {doc}
          /\ chunks' = chunks /\ refs' = refs
        BY <1>1, <1>10 DEF Execute
    <2>2. at' = "error" /\ ended' = ended /\ failed' = failed
        BY <1>1, <1>10 DEF After
    <2> QED
        BY <1>1, <1>2, <1>4, <1>6, <1>10, <2>1, <2>2
           DEF CourseInv, InHand, Persisting, Indexed, Whole
<1>11. CASE at \in {"assets", "log", "report", "error", "embed"}
    <2>1. UNCHANGED index
        BY <1>1, <1>11 DEF Execute, index
    <2>2. /\ at' = CASE at = "assets" -> "upsert" [] at = "log" -> "report"
                     [] at \in {"report", "error"} -> "scan" [] OTHER -> "close"
        BY <1>1, <1>11 DEF After
    <2>3. \A d \in Doc : Indexed(d)' <=> Indexed(d)
        BY <1>1, <2>1 DEF Indexed, Whole, index
    <2>4. \A d \in Doc : saw[d] # 0 /\ d \notin failed' =>
                            Indexed(d) \/ (d = doc /\ at' \in InHand)
        BY <1>1, <1>6, <1>11, <2>2 DEF InHand, Persisting
    <2> QED
        BY <1>1, <1>2, <1>4, <1>6, <1>11, <2>1, <2>2, <2>3, <2>4
           DEF CourseInv, Whole, index, InHand, Persisting
<1>12. at # "abort"
    BY <1>5 DEF OnCourse, CourseInv
<1> QED
    BY <1>1, <1>3, <1>7, <1>8, <1>9, <1>10, <1>11, <1>12 DEF Ingesting, Persisting

LEMMA CourseKept ==
    TypeInv /\ TypeInv' /\ CourseInv /\ [Next]_vars => CourseInv'
<1> SUFFICES ASSUME TypeInv, TypeInv', CourseInv, [Next]_vars PROVE CourseInv'
    OBVIOUS
<1>0. /\ doc \in Doc /\ active \subseteq Doc /\ todo \subseteq Doc
      /\ {hash, chunks, refs, saw} \subseteq [Doc -> Version]
      /\ at \in Ingesting => op = "ingest" /\ doc \notin todo
      /\ at = "scan" => op = "ingest"
      /\ at \in Deleting => op = "delete"
    BY DEF TypeInv, TypeOK
<1>1. CASE Ingest
    <2>1. /\ at' = "scan" /\ ended' = "none" /\ UNCHANGED index
          /\ late' = late /\ saw' = [d \in Doc |-> 0]
          /\ torn' = {d \in active : ~Whole(d)} /\ calm' = (late = {})
        BY <1>1 DEF Ingest, Begin, base
    <2> QED
        BY <1>0, <2>1
           DEF CourseInv, OnCourse, InHand, Persisting, index, Whole
<1>2. CASE Delete
    BY <1>2 DEF Delete, Begin, CourseInv, OnCourse
<1>3. CASE Scan
    <2>1. PICK d \in todo :
              /\ todo' = todo \ {d} /\ doc' = d /\ ver' = file[d]
              /\ at' = IF file[d] # 0 THEN "probe" ELSE "error"
              /\ saw' = [saw EXCEPT ![d] = file[d]]
        BY <1>3 DEF Scan
    <2>2. /\ at = "scan" /\ UNCHANGED index
          /\ UNCHANGED <<late, op, failed, ended, torn, calm>>
        BY <1>3 DEF Scan, base
    <2>3. OnCourse' => OnCourse
        BY <2>2 DEF OnCourse
    <2> QED
        BY <1>0, <2>1, <2>2, <2>3
           DEF CourseInv, OnCourse, InHand, Persisting, Indexed, index, Whole
<1>4. CASE Probe
    <2>1. /\ at = "probe" /\ UNCHANGED index
          /\ at' = IF Unchanged THEN "scan"
                   ELSE IF doc \in Illustrated THEN "assets" ELSE "upsert"
          /\ UNCHANGED <<late, op, doc, ver, todo, failed, ended, history>>
        BY <1>4 DEF Probe, base
    <2>2. OnCourse' => OnCourse
        BY <2>1 DEF OnCourse, history
    <2>3. OnCourse /\ Unchanged => Indexed(doc)
        BY <2>1 DEF Unchanged, Indexed, CourseInv, InHand
    <2> QED
        BY <1>0, <2>1, <2>2, <2>3
           DEF CourseInv, InHand, Persisting, Indexed, Whole, index, history
<1>5. CASE Scanned
    <2>1. /\ at = "scan" /\ at' = "embed" /\ UNCHANGED index
          /\ UNCHANGED <<late, op, doc, ver, todo, failed, ended, history>>
        BY <1>5 DEF Scanned, base
    <2> QED
        BY <2>1 DEF CourseInv, OnCourse, InHand, Persisting, Indexed, Whole,
                    index, history
<1>6. CASE Return
    BY <1>6, ReturnKeepsCourse
<1>7. CASE Raise
    <2>1. /\ at \in Awaits /\ at' = AfterError(at) /\ UNCHANGED index
          /\ ended' = IF op = "ingest" THEN "none" ELSE ended
          /\ UNCHANGED <<late, op, doc, ver, todo, failed, history>>
        BY <1>7 DEF Raise, base
    <2> SUFFICES ASSUME OnCourse' PROVE CourseInv'
        BY <2>1 DEF CourseInv
    <2>2. /\ op = "ingest" /\ ended' = "none" /\ OnCourse
          /\ at' \in {"hide", "error"}
          /\ at \in Persisting \cup {"assets", "log", "hide"}
        BY <2>1 DEF OnCourse, AfterError, history, Persisting
    <2> QED
        BY <2>1, <2>2 DEF CourseInv, InHand, Persisting, Indexed, Whole,
                          index, history
<1>8. CASE Cancel
    <2>1. ended' = "none" /\ at' \in {"abort", "close", "idle"}
        BY <1>8 DEF Cancel, AfterCancel
    <2> QED
        BY <2>1 DEF CourseInv, OnCourse
<1>9. CASE Close
    <2>1. /\ at = "close" /\ at' = "idle" /\ UNCHANGED index
          /\ late' \subseteq late
          /\ UNCHANGED <<op, doc, ver, todo, failed, ended, history>>
        BY <1>9 DEF Close, base
    <2> QED
        BY <2>1 DEF CourseInv, OnCourse, InHand, Persisting, Indexed, Whole,
                    index, history
<1>10. CASE LateLands
    <2>1. late # {} /\ late' \subseteq late
          /\ UNCHANGED <<op, at, ended, calm>>
        BY <1>10 DEF LateLands, task, history
    <2> QED
        BY <2>1 DEF CourseInv, OnCourse
<1>11. CASE (\E d \in Doc : Edit(d)) \/ UNCHANGED vars
    <2>1. UNCHANGED <<index, late, task, history>>
        BY <1>11 DEF Edit, vars, base
    <2> QED
        BY <2>1 DEF CourseInv, OnCourse, InHand, Persisting, Indexed, Whole,
                    index, task, history
<1>12. CASE Crash
    BY <1>12 DEF Crash, CourseInv, OnCourse
<1> QED
    BY <1>1, <1>2, <1>3, <1>4, <1>5, <1>6, <1>7, <1>8, <1>9, <1>10, <1>11,
       <1>12 DEF Next, Idle

(* An ingest that runs to its end has indexed every file it read without   *)
(* an error, whatever state earlier tasks left the index in and whichever  *)
(* calls of its own were made up for; the early skip alone may pass over a *)
(* row that was torn before.                                               *)
THEOREM IngestCompletes == Spec => []IngestIndexes
<1>1. Init => CourseInv
    BY DEF Init, CourseInv, OnCourse
<1>2. CourseInv => IngestIndexes
    BY DEF CourseInv, OnCourse, IngestIndexes, IngestDone, Indexed, InHand, Persisting
<1> QED
    BY <1>1, <1>2, InitTypes, TypesKept, CourseKept, PTL DEF Spec
===============================================================================

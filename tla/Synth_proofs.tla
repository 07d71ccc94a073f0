---------------------------- MODULE Synth_proofs ----------------------------
(***************************************************************************)
(* What TLAPS proves of synthesize, for any sources, pages and bounds.     *)
(***************************************************************************)
EXTENDS Synth, TLAPS

-----------------------------------------------------------------------------
(* What a call does to the index, page by page.                            *)
LEMMA Effects ==
    ASSUME IndexTypeOK, NEW c \in Writing, NEW p \in Page, NEW v \in Content,
           Execute(c, p, v)
    PROVE  /\ hash' \in [Page -> Content] /\ part' \in [Page -> [Part -> Content]]
           /\ active' \subseteq Page
           /\ \A q \in Page \ {p} : /\ hash'[q] = hash[q] /\ part'[q] = part[q]
                                    /\ q \in active' <=> q \in active
           /\ hash'[p] = CASE c = "upsert" -> v [] c = "purge" -> 0 [] OTHER -> hash[p]
           /\ p \in active' <=>
                  c = "upsert" \/ (p \in active /\ c \notin {"hide", "purge"})
           /\ \A d \in Part :
                  part'[p][d] = IF c = "purge" THEN 0
                                ELSE IF c = d THEN v ELSE part[p][d]
<1>1. /\ hash \in [Page -> Content] /\ part \in [Page -> [Part -> Content]]
      /\ active \subseteq Page
    BY DEF IndexTypeOK
<1>2. 0 \in Content
    BY PageAssumption DEF Content
<1>3. /\ hash' \in [Page -> Content]
      /\ \A q \in Page \ {p} : hash'[q] = hash[q]
      /\ hash'[p] = CASE c = "upsert" -> v [] c = "purge" -> 0 [] OTHER -> hash[p]
    BY <1>1, <1>2 DEF Execute
<1>4. /\ active' \subseteq Page
      /\ \A q \in Page \ {p} : q \in active' <=> q \in active
      /\ p \in active' <=>
             c = "upsert" \/ (p \in active /\ c \notin {"hide", "purge"})
    BY <1>1 DEF Execute
<1>5. /\ part' \in [Page -> [Part -> Content]]
      /\ \A q \in Page \ {p} : part'[q] = part[q]
      /\ \A d \in Part :
             part'[p][d] = IF c = "purge" THEN 0
                           ELSE IF c = d THEN v ELSE part[p][d]
    <2>1. Nothing \in [Part -> Content] /\ \A d \in Part : Nothing[d] = 0
        BY <1>2 DEF Nothing
    <2>2. "purge" \notin Part
        BY DEF Part
    <2>3. CASE c \in Part
        BY <1>1, <2>2, <2>3 DEF Execute
    <2>4. CASE c = "purge"
        BY <1>1, <2>1, <2>2, <2>4 DEF Execute
    <2>5. CASE c \notin Part /\ c # "purge"
        BY <1>1, <2>5 DEF Execute
    <2> QED
        BY <2>3, <2>4, <2>5
<1> QED
    BY <1>3, <1>4, <1>5

(* An active row exists, when no row is written with the hash of nothing.  *)
LEMMA IndexTyped ==
    ASSUME IndexTypeOK, NEW c \in Writing, NEW p \in Page, NEW v \in Content,
           Execute(c, p, v), c = "upsert" => v # 0, file' = file
    PROVE  IndexTypeOK'
<1>1. \A q \in active' : hash'[q] # 0
    BY Effects DEF IndexTypeOK, Exists
<1> QED
    BY <1>1, Effects DEF IndexTypeOK, Exists

-----------------------------------------------------------------------------
(* Types.  A run knows its source from the groups on, and its page from    *)
(* the write on, whose file is then there.                                 *)
Handling == {"persisted", "hide", "report", "abort", "invalidate"} \cup Persisting
Working  == {"groups", "page"} \cup Handling

TypeInv ==
    /\ TypeOK
    /\ at \in Working => src \in Source /\ src \notin todo
    /\ at \in Handling => page \in Page /\ file[page] # 0 /\ owner[page] = src
    /\ \A k \in late : /\ k.call = "upsert" => k.ver # 0
                       /\ owner[k.page] \in Source
                       /\ k.call \in Persisting \cup {"hide"}

LEMMA InitTyped == Init => TypeInv
<1> SUFFICES ASSUME Init PROVE TypeInv
    OBVIOUS
<1>1. 0 \in Content /\ MaxRuns \in Nat /\ MaxMishaps \in Nat
    BY PageAssumption, SynthAssumption DEF Content
<1>2. IndexTypeOK
    BY <1>1 DEF Init, IndexTypeOK, Nothing
<1>3. /\ runs \in 0..MaxRuns /\ {cancels, faults, crashes} \subseteq 0..MaxMishaps
      /\ at \in Awaits \cup {"idle", "close"} /\ at \notin Persisting
    BY <1>1 DEF Init, Persisting
<1>4. /\ emitted \in [Source -> SUBSET Page] /\ owner \in [Page -> Source \cup {None}]
      /\ done \subseteq Source /\ failed \subseteq Source /\ rows \subseteq Source
      /\ already \subseteq Source /\ backfill \subseteq already
      /\ todo \subseteq Source /\ src \in Source \cup {None}
      /\ pages \subseteq Page /\ page \in Page \cup {None}
      /\ finished \subseteq Source
      /\ late \subseteq [call : Writing, page : Page, ver : Content]
      /\ {sentinel, all, groupErrors, persistFailed, marksFirst, overtaken} \subseteq BOOLEAN
    BY SynthAssumption DEF Init
<1>5. TypeOK
    BY <1>2, <1>3, <1>4 DEF TypeOK
<1> QED
    BY <1>5 DEF Init, TypeInv, Working, Handling, Persisting

(* The steps that touch neither a file nor the index.                      *)
LEMMA LogTyped ==
    ASSUME TypeInv,
           Begin \/ Fold \/ Sentinel \/ Backfill \/ Pass \/ Take \/ Groups \/ LogPage
             \/ Mark \/ Report \/ Invalidate \/ Return \/ Close \/ Crash \/ Idle
    PROVE  TypeInv'
<1> USE DEF TypeInv, TypeOK, Working, Handling, Persisting, Awaits, log, run, history,
        counts, index, IndexTypeOK, Exists
<1>1. MaxRuns \in Nat /\ MaxMishaps \in Nat /\ \A s \in Source : Yields[s] \subseteq Page
    BY SynthAssumption
<1>2. CASE Begin
    <2>1. runs' \in 0..MaxRuns
        BY <1>1, <1>2 DEF Begin
    <2>2. marksFirst' \in BOOLEAN /\ all' \in BOOLEAN /\ at' \in {"next", "fold"}
        BY <1>2 DEF Begin
    <2> QED
        BY <1>2, <2>1, <2>2 DEF Begin
<1>3. CASE Fold \/ Sentinel
    BY <1>3 DEF Fold, Sentinel, Skipped, Backfilled
<1>4. CASE Backfill
    BY <1>4 DEF Backfill
<1>5. CASE Pass \/ Take
    BY <1>5 DEF Pass, Take
<1>6. CASE Groups
    BY <1>1, <1>6 DEF Groups
<1>7. CASE LogPage \/ Report \/ Return
    BY <1>7 DEF LogPage, Report, Return
<1>8. CASE Mark \/ Invalidate
    BY <1>8 DEF Mark, Invalidate
<1>9. CASE Close
    BY <1>9 DEF Close, Forget
<1>11. CASE Crash
    <2>1. crashes' \in 0..MaxMishaps /\ UNCHANGED <<cancels, faults>>
        BY <1>1, <1>11 DEF Crash, Mishap
    <2> QED
        BY <1>11, <2>1 DEF Crash, Forget
<1>10. CASE Idle
    BY <1>10 DEF Idle, vars
<1> QED
    BY <1>2, <1>3, <1>4, <1>5, <1>6, <1>7, <1>8, <1>9, <1>10, <1>11

(* The steps that do, and what goes wrong at an await.                     *)
LEMMA IndexSteps ==
    ASSUME TypeInv, WritePage \/ Persist \/ Hide \/ LateLands
    PROVE  TypeInv'
<1> USE DEF log, run, history, counts, index
<1>1. IndexTypeOK /\ \A p \in Page : file[p] \in Content
    BY DEF TypeInv, TypeOK, IndexTypeOK
<1>2. CASE WritePage
    <2>1. PICK p \in pages, v \in Body :
              /\ page' = p /\ pages' = pages \ {p}
              /\ file' = [file EXCEPT ![p] = v]
              /\ owner' = [owner EXCEPT ![p] = src]
        BY <1>2 DEF WritePage
    <2>2. /\ UNCHANGED <<hash, active, part, late, done, failed, rows, sentinel,
                         all, already, backfill, todo, src, groupErrors, persistFailed, emitted, finished, marksFirst,
                         overtaken, runs, cancels, faults, crashes>>
          /\ at = "page" /\ at' = "upsert"
        BY <1>2 DEF WritePage
    <2>3. p \in Page /\ v \in Content /\ v # 0 /\ src \in Source /\ src \notin todo
        BY <2>1, <2>2, PageAssumption
        DEF TypeInv, TypeOK, Working, Body, Content
    <2>4. IndexTypeOK'
        BY <1>1, <2>1, <2>2, <2>3 DEF IndexTypeOK, Exists
    <2>5. owner' \in [Page -> Source \cup {None}] /\ owner'[p] = src /\ file'[p] = v
          /\ \A q \in Page : owner'[q] = owner[q] \/ owner'[q] = src
        BY <2>1, <2>3 DEF TypeInv, TypeOK, IndexTypeOK
    <2>6. TypeOK'
        BY <2>1, <2>2, <2>3, <2>4, <2>5 DEF TypeInv, TypeOK, Persisting, Awaits
    <2>7. \A k \in late' : owner'[k.page] \in Source
        BY <2>2, <2>3, <2>5 DEF TypeInv, TypeOK
    <2> QED
        BY <2>1, <2>2, <2>3, <2>5, <2>6, <2>7 DEF TypeInv, Working, Handling, Persisting
<1>3. CASE Persist \/ Hide
    <2> DEFINE c == IF at \in Persisting THEN at ELSE "hide"
               v == IF at \in Persisting THEN file[page] ELSE 0
    <2>1. Execute(c, page, v) /\ UNCHANGED <<file, late, owner>>
        BY <1>3 DEF Persist, Hide, Persisting
    <2>2. /\ at \in Persisting \cup {"hide", "abort"} /\ page \in Page
          /\ src \in Source /\ src \notin todo /\ file[page] # 0 /\ owner[page] = src
        BY <1>3 DEF Persist, Hide, TypeInv, Working, Handling
    <2>3. c \in Writing /\ v \in Content /\ (c = "upsert" => v # 0)
        BY <1>1, <2>2, PageAssumption DEF Writing, Persisting, Content
    <2>4. IndexTypeOK'
        BY <1>1, <2>1, <2>2, <2>3, IndexTyped
    <2>5. at' \in (Persisting \ {"upsert"}) \cup {"persisted", "report", "invalidate"}
        BY <1>3 DEF Persist, Hide, AfterPersist, Persisting
    <2>6. UNCHANGED <<done, failed, rows, sentinel, all, already, backfill, todo, src, pages,
                      page, groupErrors, persistFailed, late, emitted, owner, finished,
                      marksFirst, overtaken, runs, cancels, faults, crashes, file>>
        BY <1>3 DEF Persist, Hide
    <2>7. TypeOK'
        BY <2>2, <2>4, <2>5, <2>6 DEF TypeInv, TypeOK, Awaits
    <2> QED
        BY <2>2, <2>5, <2>6, <2>7 DEF TypeInv, Working, Handling
<1>4. CASE LateLands
    <2>1. PICK k \in late :
              /\ late' = late \ {k}
              /\ \/ Execute(k.call, k.page, k.ver)
                 \/ Refused(k.call, k.page) /\ UNCHANGED index
        BY <1>4 DEF LateLands
    <2>2. /\ UNCHANGED <<file, done, failed, rows, sentinel, at, all, already,
                         backfill, todo, src, pages, page, groupErrors, persistFailed, emitted, owner, finished,
                         marksFirst, runs, cancels, faults, crashes>>
          /\ overtaken' \in BOOLEAN
        BY <1>4 DEF LateLands, TypeInv, TypeOK
    <2>3. /\ k.call \in Writing /\ k.page \in Page /\ k.ver \in Content
          /\ k.call = "upsert" => k.ver # 0
        BY DEF TypeInv, TypeOK
    <2>4. IndexTypeOK'
        <3>1. CASE Execute(k.call, k.page, k.ver)
            BY <1>1, <2>2, <2>3, <3>1, IndexTyped
        <3>2. CASE UNCHANGED index
            BY <1>1, <2>2, <3>2 DEF IndexTypeOK, Exists
        <3> QED
            BY <2>1, <3>1, <3>2
    <2>5. TypeOK'
        BY <2>1, <2>2, <2>4 DEF TypeInv, TypeOK
    <2> QED
        BY <2>1, <2>2, <2>5 DEF TypeInv
<1> QED
    BY <1>2, <1>3, <1>4

LEMMA MishapTyped ==
    ASSUME TypeInv, Raise \/ Cancel
    PROVE  TypeInv'
<1> USE DEF log, run, history, counts, index
<1>1. /\ at \in Awaits
      /\ UNCHANGED <<file, hash, active, part, done, failed, rows, sentinel, all,
                     already, backfill, todo, src, pages, page, groupErrors, emitted, owner, finished, marksFirst,
                     overtaken, runs, crashes>>
    BY DEF Raise, Cancel
<1>2. {cancels, faults, crashes}' \subseteq 0..MaxMishaps
    BY SynthAssumption DEF Raise, Cancel, Mishap, TypeInv, TypeOK
<1>3. IndexTypeOK'
    BY <1>1 DEF TypeInv, TypeOK, IndexTypeOK, Exists
<1>4. /\ at' \in {"hide", "report", "invalidate", "abort", "close"}
      /\ at' # "close" => at \in Handling
    BY <1>1 DEF Raise, Cancel, AfterError, AfterCancel, Handling, Persisting
<1>5. persistFailed' \in BOOLEAN
    BY DEF Raise, Cancel, TypeInv, TypeOK
<1>6. ASSUME NEW k \in late'
      PROVE  /\ k \in [call : Writing, page : Page, ver : Content]
             /\ k.call = "upsert" => k.ver # 0
             /\ owner[k.page] \in Source
             /\ k.call \in Persisting \cup {"hide"}
    <2>1. CASE k \in late
        BY <2>1 DEF TypeInv, TypeOK
    <2>2. CASE k \notin late
        <3>1. /\ at \in Persisting \cup {"hide", "abort"}
              /\ k = [call |-> IF at \in Persisting THEN at ELSE "hide", page |-> page,
                      ver |-> IF at \in Persisting THEN file[page] ELSE 0]
            BY <1>6, <2>2 DEF Raise, Cancel, Persisting
        <3>2. page \in Page /\ file[page] # 0 /\ owner[page] \in Source /\ file[page] \in Content
            BY <3>1 DEF TypeInv, TypeOK, IndexTypeOK, Working, Handling
        <3>3. 0 \in Content
            BY PageAssumption DEF Content
        <3> QED
            BY <3>1, <3>2, <3>3 DEF Writing, Persisting
    <2> QED
        BY <2>1, <2>2
<1>7. TypeOK'
    BY <1>1, <1>2, <1>3, <1>4, <1>5, <1>6 DEF TypeInv, TypeOK, Awaits, Persisting
<1> QED
    BY <1>1, <1>4, <1>6, <1>7 DEF TypeInv, Working, Handling, Persisting

LEMMA TypeKept == TypeInv /\ [Next]_vars => TypeInv'
<1> SUFFICES ASSUME TypeInv, [Next]_vars PROVE TypeInv'
    OBVIOUS
<1>1. CASE UNCHANGED vars
    BY <1>1 DEF vars, TypeInv, TypeOK, IndexTypeOK, Exists, index, log, run, history, counts,
       Working, Handling, Persisting, Awaits
<1> QED
    BY <1>1, LogTyped, IndexSteps, MishapTyped DEF Next

(* The state of a synth run and of the base keeps its type.                *)
THEOREM Typed == Spec => []TypeInv
BY InitTyped, TypeKept, PTL DEF Spec

-----------------------------------------------------------------------------
(* A default run skips only what was worked through.                       *)

(* Until the sentinel is written nothing but the rows of old bases is      *)
(* there to be backfilled, as no run has come as far as a page.            *)
MarkInv ==
    marksFirst =>
        /\ done \subseteq finished /\ backfill \subseteq finished
        /\ ~sentinel => /\ rows \subseteq finished
                        /\ at \in {"idle", "fold", "sentinel", "close"}

LEMMA MarkKept == TypeInv /\ MarkInv /\ [Next]_vars => MarkInv'
<1> SUFFICES ASSUME TypeInv, MarkInv, [Next]_vars PROVE MarkInv'
    OBVIOUS
<1> USE DEF MarkInv, log, run, history, counts
<1>1. CASE Begin
    BY <1>1 DEF Begin
<1>2. CASE Fold
    BY <1>2 DEF Fold, Skipped, Backfilled
<1>9. CASE Sentinel \/ Backfill
    BY <1>9 DEF Sentinel, Backfill
<1>3. CASE Pass \/ Take \/ Groups \/ WritePage \/ Report \/ Return
    BY <1>3 DEF Pass, Take, Groups, WritePage, Report, Return
<1>4. CASE Persist \/ Hide
    BY <1>4 DEF Persist, Hide, Persisting
<1>5. CASE LogPage \/ Mark \/ Invalidate
    BY <1>5 DEF LogPage, Mark, Invalidate
<1>6. CASE Close \/ Crash
    BY <1>6 DEF Close, Crash, Forget
<1>7. CASE Raise \/ Cancel
    BY <1>7 DEF Raise, Cancel, AfterError, AfterCancel, Persisting
<1>8. CASE LateLands \/ Idle \/ UNCHANGED vars
    BY <1>8 DEF LateLands, Idle, vars
<1> QED
    BY <1>1, <1>2, <1>3, <1>4, <1>5, <1>6, <1>7, <1>8, <1>9 DEF Next

(* A default run skips no source that no run has worked through and that   *)
(* is not older than the markers, whatever fails and wherever the process  *)
(* dies; a first run with --all apart.                                     *)
THEOREM SkipsFinished == Spec => []SkipsOnlyFinished
<1>1. Init => MarkInv
    BY DEF Init, MarkInv
<1>2. MarkInv => SkipsOnlyFinished
    BY DEF MarkInv, SkipsOnlyFinished, Skipped, Backfilled
<1> QED
    BY <1>1, <1>2, MarkKept, Typed, PTL DEF Spec

-----------------------------------------------------------------------------
(* What one error or one cancel leaves between runs.                       *)

Calm == ~overtaken /\ crashes = 0 /\ faults + cancels <= 1

(* The page whose persist is under way, or was broken off, may be half     *)
(* written; the calls that are done have written what the file says.       *)
Unsettled(p) ==
    p = page /\ at \in {"chunks", "vectors", "links", "sources", "hide", "abort"}

Progressed ==
    /\ at \in {"chunks", "vectors", "links", "sources"} => hash[page] = file[page]
    /\ at \in {"vectors", "links", "sources"} => part[page]["chunks"] = hash[page]
    /\ at = "sources" => part[page]["links"] = hash[page]

(* A call that outlives its awaiter can only disturb the page the cancel   *)
(* is taking down.                                                         *)
LateInv ==
    late # {} =>
        /\ at \in {"abort", "invalidate", "close"}
        /\ \A k \in late : /\ k.page = page /\ k.call \in Persisting
                           /\ at # "abort" => k.page \notin active

HalfInv ==
    Calm =>
        /\ \A p \in active : Whole(p) \/ Unsettled(p)
        /\ at \in {"hide", "abort"} => faults + cancels = 1
        /\ Progressed
        /\ LateInv

(* Calm does not come back.                                                *)
LEMMA CalmBefore == TypeInv /\ [Next]_vars /\ Calm' => Calm
<1> SUFFICES ASSUME TypeInv, [Next]_vars, Calm' PROVE Calm
    OBVIOUS
<1> USE DEF Calm, log, run, history, counts
<1>1. faults \in Nat /\ cancels \in Nat /\ crashes \in Nat
    BY SynthAssumption DEF TypeInv, TypeOK
<1>2. /\ ~overtaken' => ~overtaken
      /\ faults' \in {faults, faults + 1} /\ cancels' \in {cancels, cancels + 1}
      /\ crashes' \in {crashes, crashes + 1}
    <2>1. CASE Begin \/ Fold \/ Sentinel \/ Backfill \/ Pass \/ Take \/ Groups \/ WritePage
                 \/ Persist \/ LogPage \/ Mark \/ Hide \/ Report \/ Invalidate \/ Return
                 \/ Close \/ Idle \/ UNCHANGED vars
        BY <2>1 DEF Begin, Fold, Sentinel, Backfill, Pass, Take, Groups, WritePage,
           Persist, LogPage, Mark, Hide, Report, Invalidate, Return, Close, Idle, vars,
           TypeInv, TypeOK
    <2>2. CASE Raise \/ Cancel \/ Crash \/ LateLands
        BY <2>2 DEF Raise, Cancel, Crash, LateLands, TypeInv, TypeOK
    <2> QED
        BY <2>1, <2>2 DEF Next
<1>3. ~overtaken
    BY <1>2
<1>4. crashes = 0 /\ faults + cancels <= 1
    <2>1. crashes' = 0 /\ faults' + cancels' <= 1
        OBVIOUS
    <2>2. crashes = 0
        BY <1>1, <1>2, <2>1
    <2>3. CASE faults' = faults /\ cancels' = cancels
        BY <2>1, <2>2, <2>3
    <2>4. CASE faults' = faults + 1 /\ cancels' = cancels
        BY <1>1, <2>1, <2>2, <2>4
    <2>5. CASE cancels' = cancels + 1 /\ faults' = faults
        BY <1>1, <2>1, <2>2, <2>5
    <2>6. CASE cancels' = cancels + 1 /\ faults' = faults + 1
        BY <1>1, <2>1, <2>2, <2>6
    <2> QED
        BY <1>2, <2>3, <2>4, <2>5, <2>6
<1> QED
    BY <1>3, <1>4

(* Where no page is being persisted every active one is whole.             *)
LEMMA HalfElsewhere ==
    ASSUME TypeInv, Calm, HalfInv,
           Begin \/ Fold \/ Sentinel \/ Backfill \/ Pass \/ Take \/ Groups \/ WritePage
             \/ LogPage \/ Mark \/ Report \/ Invalidate \/ Return \/ Close
    PROVE  HalfInv'
<1> USE DEF log, run, history, counts, index
<1>1. /\ at \notin {"chunks", "vectors", "links", "sources", "hide", "abort"}
      /\ at' \notin {"chunks", "vectors", "links", "sources", "hide", "abort"}
      /\ UNCHANGED <<hash, active, part>>
    BY DEF Begin, Fold, Sentinel, Backfill, Pass, Take, Groups, WritePage, LogPage, Mark,
       Report, Invalidate, Return, Close
<1>2. \A p \in active' : Whole(p)'
    BY <1>1 DEF HalfInv, Unsettled, Whole
<1>3. \/ late' = {}
      \/ at = "invalidate" /\ at' = "close" /\ late' = late /\ page' = page
    <2>1. CASE Close
        BY <2>1 DEF Close
    <2>2. CASE Invalidate
        BY <2>2 DEF Invalidate
    <2>3. CASE Begin \/ Fold \/ Sentinel \/ Backfill \/ Pass \/ Take \/ Groups \/ WritePage
                 \/ LogPage \/ Mark \/ Report \/ Return
        <3>1. at \notin {"abort", "invalidate", "close"} /\ late' = late
            BY <2>3 DEF Begin, Fold, Sentinel, Backfill, Pass, Take, Groups, WritePage,
               LogPage, Mark, Report, Return
        <3> QED
            BY <3>1 DEF HalfInv, LateInv
    <2> QED
        BY <2>1, <2>2, <2>3
<1>4. LateInv'
    BY <1>1, <1>3 DEF HalfInv, LateInv
<1> QED
    BY <1>1, <1>2, <1>4 DEF HalfInv, Progressed

(* The calls of a persist, one by one.                                     *)
LEMMA HalfPersist ==
    ASSUME TypeInv, Calm, HalfInv, Persist
    PROVE  HalfInv'
<1> USE DEF log, run, history, counts
<1>1. /\ at \in Persisting /\ Execute(at, page, file[page]) /\ at' = AfterPersist(at)
      /\ UNCHANGED <<file, late, page, faults, cancels>>
    BY DEF Persist
<1>2. page \in Page /\ file[page] \in Content /\ IndexTypeOK
    BY <1>1 DEF TypeInv, TypeOK, IndexTypeOK, Handling
<1>3. at \in Writing
    BY <1>1 DEF Writing
<1>4. /\ \A q \in Page \ {page} : /\ hash'[q] = hash[q] /\ part'[q] = part[q]
                                  /\ q \in active' <=> q \in active
      /\ hash'[page] = IF at = "upsert" THEN file[page] ELSE hash[page]
      /\ \A d \in Part : part'[page][d] = IF at = d THEN file[page] ELSE part[page][d]
      /\ active' \subseteq Page
    BY <1>1, <1>2, <1>3, Effects DEF Persisting
<1>5. late' = {}
    BY <1>1 DEF HalfInv, LateInv, Persisting
<1>6. ASSUME NEW p \in active', p # page PROVE Whole(p)'
    BY <1>4, <1>6 DEF HalfInv, Unsettled, Whole
<1>7. /\ at = "upsert" => at' = "chunks"
      /\ at = "chunks" => at' = "vectors"
      /\ at = "vectors" => at' = "links"
      /\ at = "links" => at' = "sources"
      /\ at = "sources" => at' = "persisted"
    BY <1>1 DEF AfterPersist
<1>8. Progressed'
    BY <1>1, <1>4, <1>7 DEF HalfInv, Progressed, Part, Persisting
<1>9. at' = "persisted" => Whole(page)'
    <2> SUFFICES ASSUME at' = "persisted" PROVE Whole(page)'
        OBVIOUS
    <2>1. at = "sources"
        BY <1>1, <1>7 DEF Persisting
    <2> QED
        BY <1>1, <1>4, <2>1 DEF HalfInv, Progressed, Part, Whole
<1>10. at' \in {"chunks", "vectors", "links", "sources", "persisted"}
    BY <1>1, <1>7 DEF Persisting
<1>11. \A p \in active' : Whole(p)' \/ Unsettled(p)'
    BY <1>1, <1>6, <1>9, <1>10 DEF Unsettled
<1> QED
    BY <1>5, <1>8, <1>10, <1>11 DEF HalfInv, LateInv

LEMMA HalfHide ==
    ASSUME TypeInv, Calm, HalfInv, Hide
    PROVE  HalfInv'
<1> USE DEF log, run, history, counts
<1>1. /\ at \in {"hide", "abort"} /\ Execute("hide", page, 0)
      /\ at' = IF at = "hide" THEN "report" ELSE "invalidate"
      /\ UNCHANGED <<file, late, page>>
    BY DEF Hide
<1>2. page \in Page /\ 0 \in Content /\ IndexTypeOK /\ "hide" \in Writing
    BY <1>1, PageAssumption DEF TypeInv, TypeOK, Handling, Content, Writing
<1>3. /\ \A q \in Page \ {page} : /\ hash'[q] = hash[q] /\ part'[q] = part[q]
                                  /\ q \in active' <=> q \in active
      /\ page \notin active' /\ active' \subseteq Page
    BY <1>1, <1>2, Effects
<1>4. \A p \in active' : Whole(p)'
    BY <1>3 DEF HalfInv, Unsettled, Whole
<1>5. LateInv'
    BY <1>1, <1>3 DEF HalfInv, LateInv
<1> QED
    BY <1>1, <1>4, <1>5 DEF HalfInv, Progressed

LEMMA HalfMishap ==
    ASSUME TypeInv, Calm, HalfInv, Raise \/ Cancel, Calm'
    PROVE  HalfInv'
<1> USE DEF log, run, history, counts, index
<1>1. faults \in Nat /\ cancels \in Nat
    BY SynthAssumption DEF TypeInv, TypeOK
<1>2. faults + cancels = 0 /\ (faults + cancels)' = 1
    BY <1>1 DEF Raise, Cancel, Calm
<1>3. at \notin {"hide", "abort"}
    BY <1>2 DEF HalfInv
<1>4. UNCHANGED <<hash, active, part, page, file>>
    BY DEF Raise, Cancel
<1>5. /\ at \in Persisting => at' \in {"hide", "abort"}
      /\ at \notin Persisting => at' = "close"
    BY <1>3 DEF Raise, Cancel, AfterError, AfterCancel
<1>6. \A p \in active' : Whole(p)' \/ Unsettled(p)'
    BY <1>3, <1>4, <1>5 DEF HalfInv, Unsettled, Whole, Persisting
<1>7. LateInv'
    <2>1. CASE at \in Persisting
        <3>1. late = {}
            BY <2>1 DEF HalfInv, LateInv, Persisting
        <3>2. CASE Raise
            BY <3>1, <3>2 DEF Raise, LateInv
        <3>3. CASE Cancel
            <4>1. at' = "abort"
                BY <2>1, <3>3 DEF Cancel, AfterCancel
            <4>2. late' = {[call |-> at, page |-> page, ver |-> file[page]]}
                BY <1>3, <2>1, <3>1, <3>3 DEF Cancel
            <4> QED
                BY <4>1, <4>2, <2>1, <1>4 DEF LateInv
        <3> QED
            BY <3>2, <3>3
    <2>2. CASE at \notin Persisting
        <3>1. late' = late /\ at' = "close"
            BY <1>3, <1>5, <2>2 DEF Raise, Cancel
        <3> QED
            BY <1>3, <1>4, <3>1 DEF HalfInv, LateInv
    <2> QED
        BY <2>1, <2>2
<1>8. at' \in {"hide", "abort", "close"}
    BY <1>5
<1> QED
    BY <1>2, <1>6, <1>7, <1>8 DEF HalfInv, Progressed

LEMMA HalfLate ==
    ASSUME TypeInv, Calm, HalfInv, LateLands, Calm'
    PROVE  HalfInv'
<1> USE DEF log, run, history, counts, index
<1>1. PICK k \in late :
          /\ late' = late \ {k}
          /\ overtaken' = (overtaken \/ (k.call = "upsert" /\ at # "abort"))
          /\ Execute(k.call, k.page, k.ver) \/ UNCHANGED <<hash, active, part>>
    BY DEF LateLands
<1>2. UNCHANGED <<file, at, page, faults, cancels>>
    BY DEF LateLands
<1>3. /\ at \in {"abort", "invalidate", "close"}
      /\ k.page = page /\ k.call \in Persisting
      /\ at # "abort" => page \notin active /\ k.call # "upsert"
    BY <1>1 DEF HalfInv, LateInv, Calm
<1>4. k.page \in Page /\ k.ver \in Content /\ IndexTypeOK /\ k.call \in Writing
    BY DEF TypeInv, TypeOK
<1>5. /\ \A q \in active' \ {page} :
             q \in active /\ hash'[q] = hash[q] /\ part'[q] = part[q]
      /\ at # "abort" => page \notin active'
    <2>1. CASE Execute(k.call, k.page, k.ver)
        BY <1>3, <1>4, <2>1, Effects DEF Persisting
    <2>2. CASE UNCHANGED <<hash, active, part>>
        BY <1>3, <2>2
    <2> QED
        BY <1>1, <2>1, <2>2
<1>6. \A p \in active' : Whole(p)' \/ Unsettled(p)'
    BY <1>2, <1>3, <1>5 DEF HalfInv, Unsettled, Whole
<1>7. LateInv'
    BY <1>1, <1>2, <1>3, <1>5 DEF HalfInv, LateInv
<1> QED
    BY <1>2, <1>3, <1>6, <1>7 DEF HalfInv, Progressed

LEMMA HalfKept == TypeInv /\ HalfInv /\ [Next]_vars => HalfInv'
<1> SUFFICES ASSUME TypeInv, HalfInv, [Next]_vars, Calm' PROVE HalfInv'
    BY DEF HalfInv
<1>1. Calm
    BY CalmBefore
<1>2. ~Crash
    BY <1>1, SynthAssumption DEF Calm, Crash, TypeInv, TypeOK
<1>3. CASE Idle \/ UNCHANGED vars
    BY <1>3 DEF Idle, vars, HalfInv, Calm, Unsettled, Progressed, LateInv, Whole,
       index, history, counts, run
<1> QED
    BY <1>1, <1>2, <1>3, HalfElsewhere, HalfPersist, HalfHide, HalfMishap, HalfLate DEF Next

(* Between runs, after at most one error or one cancel, every active page  *)
(* is whole, unless an abandoned upsert overtook the hide.                 *)
THEOREM NoHalfWritten == Spec => []HalfWrittenHidden
<1>1. Init => HalfInv
    BY DEF Init, HalfInv, Progressed, LateInv
<1>2. HalfInv => HalfWrittenHidden
    BY DEF HalfInv, HalfWrittenHidden, Calm, Unsettled
<1> QED
    BY <1>1, <1>2, HalfKept, Typed, PTL DEF Spec

-----------------------------------------------------------------------------
(* A page a failure took down is made again.                               *)

Mishaps == faults + cancels + crashes

(* A page that is down although the LLM still wants it.                    *)
Down(p) == Exists(p) /\ p \notin active /\ p \in emitted[owner[p]]

Doing(s) ==
    s = src /\ at \in {"page", "persisted", "hide", "report"} \cup Persisting

(* The run that has its source in hand will write it, or will mark the     *)
(* source as failed; no other run may pass by that source.                 *)
Remade(p) ==
    IF Doing(owner[p])
      THEN p \in pages \/ persistFailed \/ (p = page /\ at = "upsert")
      ELSE \/ owner[p] \in failed \ done
           \/ p = page /\ at = "invalidate"

StrandInv ==
    /\ \A p \in Page : Exists(p) => owner[p] \in Source
    /\ Mishaps <= 1 =>
         /\ Mishaps = 0 \/ at \in {"hide", "abort"} =>
                \A p \in Page : Exists(p) => p \in active
         /\ at \in {"hide", "abort", "report", "invalidate"} => Mishaps = 1
         /\ at \in {"hide", "report"} => persistFailed
         /\ at \in {"sentinel", "backfill"} => backfill \cap failed = {}
         /\ late # {} => at \in {"abort", "invalidate", "close"}
         /\ \A k \in late : k.call \in Persisting
         /\ \A p \in Page : Down(p) => Remade(p)

LEMMA MishapsBefore == TypeInv /\ [Next]_vars /\ Mishaps' <= 1 => Mishaps <= 1
<1> SUFFICES ASSUME TypeInv, [Next]_vars, Mishaps' <= 1 PROVE Mishaps <= 1
    OBVIOUS
<1> USE DEF log, run, history, counts
<1>1. faults \in Nat /\ cancels \in Nat /\ crashes \in Nat
    BY SynthAssumption DEF TypeInv, TypeOK
<1>2. Mishaps' \in {Mishaps, Mishaps + 1}
    <2>1. CASE Begin \/ Fold \/ Sentinel \/ Backfill \/ Pass \/ Take \/ Groups \/ WritePage
                 \/ Persist \/ LogPage \/ Mark \/ Hide \/ Report \/ Invalidate \/ Return
                 \/ Close \/ Idle \/ LateLands \/ UNCHANGED vars
        <3>1. UNCHANGED <<faults, cancels, crashes>>
            BY <2>1 DEF Begin, Fold, Sentinel, Backfill, Pass, Take, Groups, WritePage,
               Persist, LogPage, Mark, Hide, Report, Invalidate, Return, Close, LateLands,
               Idle, vars
        <3> QED
            BY <3>1 DEF Mishaps
    <2>2. CASE Raise \/ Cancel \/ Crash
        BY <1>1, <2>2 DEF Raise, Cancel, Crash, Mishaps
    <2> QED
        BY <2>1, <2>2 DEF Next
<1>3. Mishaps \in Nat
    BY <1>1 DEF Mishaps
<1> QED
    BY <1>2, <1>3

(* The steps that leave files and index alone.                             *)
LEMMA StrandLog ==
    ASSUME TypeInv, Mishaps <= 1, StrandInv,
           Begin \/ Fold \/ Sentinel \/ Backfill \/ Pass \/ Take \/ LogPage
             \/ Mark \/ Report \/ Invalidate \/ Return \/ Close
    PROVE  StrandInv'
<1> USE DEF log, run, history, counts, index
<1>1. UNCHANGED <<hash, active, owner, emitted, Mishaps>>
    BY DEF Begin, Fold, Sentinel, Backfill, Pass, Take, LogPage, Mark, Report,
       Invalidate, Return, Close, Mishaps
<1>2. /\ at \notin {"hide", "abort"} /\ at \notin Persisting
      /\ at' \notin {"hide", "abort", "report", "invalidate"} /\ at' \notin Persisting
    BY DEF Begin, Fold, Sentinel, Backfill, Pass, Take, LogPage, Mark, Report,
       Invalidate, Return, Close, Persisting
<1>3. at' \in {"sentinel", "backfill"} => backfill' \cap failed' = {}
    BY DEF Begin, Fold, Sentinel, Backfill, Pass, Take, LogPage, Mark, Report,
       Invalidate, Return, Close, Backfilled, StrandInv
<1>4. /\ late' # {} => at' \in {"abort", "invalidate", "close"}
      /\ late' \subseteq late
    BY DEF Begin, Fold, Sentinel, Backfill, Pass, Take, LogPage, Mark, Report,
       Invalidate, Return, Close, StrandInv
<1>5. ASSUME NEW p \in Page, Down(p)' PROVE Remade(p)'
    <2>1. Down(p) /\ Remade(p) /\ owner' = owner
        BY <1>1, <1>5 DEF Down, Exists, StrandInv
    <2>2. CASE Begin \/ Fold \/ Sentinel \/ Pass \/ Take \/ Return \/ Close
        BY <2>1, <2>2 DEF Remade, Doing, Begin, Fold, Sentinel, Pass, Take,
           Return, Close, Persisting
    <2>3. CASE Backfill
        BY <2>1, <2>3 DEF Remade, Doing, Backfill, Persisting, StrandInv
    <2>4. CASE LogPage \/ Report
        BY <2>1, <2>4 DEF Remade, Doing, LogPage, Report, StrandInv, Persisting
    <2>5. CASE Mark
        BY <2>1, <2>5 DEF Remade, Doing, Mark, Persisting
    <2>6. CASE Invalidate
        <3>1. owner[page] = src
            BY <2>6 DEF Invalidate, TypeInv, Handling
        <3> QED
            BY <2>1, <2>6, <3>1 DEF Remade, Doing, Invalidate, Persisting
    <2> QED
        BY <2>2, <2>3, <2>4, <2>5, <2>6
<1> QED
    BY <1>1, <1>2, <1>3, <1>4, <1>5 DEF StrandInv, Exists

(* The LLM decides anew what it wants of a source.                         *)
LEMMA StrandGroups ==
    ASSUME TypeInv, Mishaps <= 1, StrandInv, Groups
    PROVE  StrandInv'
<1> USE DEF log, run, history, counts, index
<1>1. /\ UNCHANGED <<hash, active, owner, Mishaps, late, src, failed, done>>
      /\ at = "groups" /\ at' = "page"
      /\ src \in Source /\ emitted \in [Source -> SUBSET Page]
      /\ emitted' = [emitted EXCEPT ![src] = pages']
    BY DEF Groups, Mishaps, TypeInv, TypeOK, Working
<1>2. ASSUME NEW p \in Page, Down(p)' PROVE Remade(p)'
    <2>1. owner[p] \in Source
        BY <1>1, <1>2 DEF Down, Exists, StrandInv
    <2>2. CASE owner[p] = src
        <3>1. p \in pages'
            BY <1>1, <1>2, <2>2 DEF Down
        <3> QED
            BY <1>1, <2>2, <3>1 DEF Remade, Doing
    <2>3. CASE owner[p] # src
        <3>1. Down(p)
            BY <1>1, <1>2, <2>1, <2>3 DEF Down, Exists
        <3> QED
            BY <1>1, <2>3, <3>1 DEF StrandInv, Remade, Doing, Persisting
    <2> QED
        BY <2>2, <2>3
<1> QED
    BY <1>1, <1>2 DEF StrandInv, Exists

LEMMA StrandWrite ==
    ASSUME TypeInv, Mishaps <= 1, StrandInv, WritePage
    PROVE  StrandInv'
<1> USE DEF log, run, history, counts, index
<1>1. PICK q \in pages : /\ page' = q /\ pages' = pages \ {q}
                         /\ owner' = [owner EXCEPT ![q] = src]
    BY DEF WritePage
<1>2. /\ UNCHANGED <<hash, active, emitted, Mishaps, late, src, failed, done, persistFailed>>
      /\ at = "page" /\ at' = "upsert" /\ late' = late
      /\ src \in Source /\ owner \in [Page -> Source \cup {None}]
    BY DEF WritePage, Mishaps, TypeInv, TypeOK, Working
<1>3. ASSUME NEW p \in Page, Down(p)' PROVE Remade(p)'
    <2>1. CASE p = q
        BY <1>1, <1>2, <2>1 DEF Remade, Doing, Persisting
    <2>2. CASE p # q
        <3>1. owner'[p] = owner[p]
            BY <1>1, <1>2, <2>2
        <3>2. Down(p)
            BY <1>2, <1>3, <3>1 DEF Down, Exists
        <3>3. Remade(p)
            BY <3>2 DEF StrandInv
        <3> QED
            BY <1>1, <1>2, <2>2, <3>1, <3>3 DEF Remade, Doing, Persisting
    <2> QED
        BY <2>1, <2>2
<1>4. \A p \in Page : Exists(p)' => owner'[p] \in Source
    BY <1>1, <1>2 DEF StrandInv, Exists
<1> QED
    BY <1>2, <1>3, <1>4 DEF StrandInv, Exists

LEMMA StrandPersist ==
    ASSUME TypeInv, Mishaps <= 1, StrandInv, Persist
    PROVE  StrandInv'
<1> USE DEF log, run, history, counts
<1>1. /\ at \in Persisting /\ Execute(at, page, file[page])
      /\ at' \in (Persisting \ {"upsert"}) \cup {"persisted"}
      /\ UNCHANGED <<owner, emitted, Mishaps, late, src, failed, done, persistFailed,
                      page, pages>>
    BY DEF Persist, AfterPersist, Persisting, Mishaps
<1>2. /\ page \in Page /\ file[page] \in Content /\ IndexTypeOK /\ at \in Writing
      /\ owner[page] = src /\ src \in Source
    BY <1>1 DEF TypeInv, TypeOK, IndexTypeOK, Handling, Working, Writing
<1>3. /\ \A q \in Page \ {page} : hash'[q] = hash[q] /\ (q \in active' <=> q \in active)
      /\ hash'[page] = IF at = "upsert" THEN file[page] ELSE hash[page]
      /\ page \in active' <=> at = "upsert" \/ page \in active
    BY <1>1, <1>2, Effects DEF Persisting
<1>4. ASSUME NEW p \in Page, Down(p)' PROVE Remade(p)'
    <2>1. Down(p) /\ ~(p = page /\ at = "upsert")
        BY <1>1, <1>3, <1>4 DEF Down, Exists
    <2>2. Remade(p)
        BY <2>1 DEF StrandInv
    <2>3. (Doing(owner[p]) <=> Doing(owner[p])') /\ at # "invalidate"
        BY <1>1 DEF Doing, Persisting
    <2> QED
        BY <1>1, <2>1, <2>2, <2>3 DEF Remade
<1>5. \A p \in Page : Exists(p)' => owner'[p] \in Source
    BY <1>1, <1>2, <1>3 DEF StrandInv, Exists
<1>6. late = {}
    BY <1>1 DEF StrandInv, Persisting
<1>7. Mishaps' = 0 => \A p \in Page : Exists(p)' => p \in active'
    BY <1>1, <1>3 DEF StrandInv, Exists
<1> QED
    BY <1>1, <1>4, <1>5, <1>6, <1>7 DEF StrandInv, Persisting

LEMMA StrandHide ==
    ASSUME TypeInv, Mishaps <= 1, StrandInv, Hide
    PROVE  StrandInv'
<1> USE DEF log, run, history, counts
<1>1. /\ at \in {"hide", "abort"} /\ Execute("hide", page, 0)
      /\ at' = IF at = "hide" THEN "report" ELSE "invalidate"
      /\ UNCHANGED <<owner, emitted, Mishaps, late, src, failed, done, persistFailed,
                      page, pages>>
    BY DEF Hide, Mishaps
<1>2. /\ page \in Page /\ 0 \in Content /\ IndexTypeOK /\ "hide" \in Writing
      /\ owner[page] = src /\ src \in Source
    BY <1>1, PageAssumption DEF TypeInv, TypeOK, Handling, Working, Content, Writing
<1>3. /\ \A q \in Page \ {page} : hash'[q] = hash[q] /\ (q \in active' <=> q \in active)
      /\ hash'[page] = hash[page]
    BY <1>1, <1>2, Effects
<1>4. ASSUME NEW p \in Page, Down(p)' PROVE Remade(p)'
    <2>1. p = page
        BY <1>1, <1>3, <1>4 DEF StrandInv, Down, Exists
    <2> QED
        BY <1>1, <1>2, <2>1 DEF Remade, Doing, Persisting, StrandInv
<1>5. \A p \in Page : Exists(p)' => owner'[p] \in Source
    BY <1>1, <1>3 DEF StrandInv, Exists
<1>6. Mishaps' = 1 /\ (late' # {} => at' = "invalidate")
    BY <1>1 DEF StrandInv
<1> QED
    BY <1>1, <1>4, <1>5, <1>6 DEF StrandInv

(* The first mishap meets an index where nothing is down.                  *)
LEMMA StrandMishap ==
    ASSUME TypeInv, Mishaps <= 1, StrandInv, Raise \/ Cancel \/ Crash, Mishaps' <= 1
    PROVE  StrandInv'
<1> USE DEF log, run, history, counts, index
<1>1. faults \in Nat /\ cancels \in Nat /\ crashes \in Nat
    BY SynthAssumption DEF TypeInv, TypeOK
<1>2. Mishaps = 0 /\ Mishaps' = 1
    <2>1. Mishaps' = Mishaps + 1
        BY <1>1 DEF Raise, Cancel, Crash, Mishaps
    <2> QED
        BY <1>1, <2>1 DEF Mishaps
<1>3. UNCHANGED <<hash, active, owner>>
    BY DEF Raise, Cancel, Crash
<1>4. \A p \in Page : Exists(p)' => p \in active'
    BY <1>2, <1>3 DEF StrandInv, Exists
<1>5. at \notin {"hide", "abort", "report", "invalidate"}
    BY <1>2 DEF StrandInv
<1>6. CASE Raise
    <2>1. /\ at \in Persisting => at' = "hide" /\ persistFailed'
          /\ at \notin Persisting => at' = "close"
          /\ at # "close" /\ late' = late
        BY <1>5, <1>6 DEF Raise, AfterError, Awaits, Persisting
    <2>2. late = {}
        BY <1>5, <2>1 DEF StrandInv
    <2> QED
        BY <1>2, <1>3, <1>4, <2>1, <2>2 DEF StrandInv, Down, Exists
<1>7. CASE Cancel
    <2>1. /\ at \in Persisting => at' = "abort"
          /\ at \notin Persisting => at' = "close" /\ late' = late
          /\ at # "close"
        BY <1>5, <1>7 DEF Cancel, AfterCancel, Awaits, Persisting
    <2>2. late = {}
        BY <1>5, <2>1 DEF StrandInv
    <2>3. at \in Persisting =>
              late' = {[call |-> at, page |-> page, ver |-> file[page]]}
        BY <1>5, <1>7, <2>2 DEF Cancel
    <2>4. \A k \in late' : k.call \in Persisting
        BY <2>1, <2>2, <2>3
    <2> QED
        BY <1>2, <1>3, <1>4, <2>1, <2>2, <2>4 DEF StrandInv, Down, Exists
<1>8. CASE Crash
    <2>1. at' = "idle" /\ late' = {}
        BY <1>8 DEF Crash
    <2> QED
        BY <1>2, <1>3, <1>4, <2>1 DEF StrandInv, Down, Exists
<1> QED
    BY <1>6, <1>7, <1>8

(* A call that lands late can only bring a page back.                      *)
LEMMA StrandLate ==
    ASSUME TypeInv, Mishaps <= 1, StrandInv, LateLands
    PROVE  StrandInv'
<1> USE DEF log, run, history, counts, index
<1>1. PICK k \in late :
          /\ late' = late \ {k}
          /\ Execute(k.call, k.page, k.ver) \/ UNCHANGED <<hash, active, part>>
    BY DEF LateLands
<1>2. UNCHANGED <<at, page, pages, src, done, failed, persistFailed, emitted, owner,
                  Mishaps, backfill>>
    BY DEF LateLands, Mishaps
<1>3. k.page \in Page /\ k.ver \in Content /\ IndexTypeOK /\ k.call \in Writing
      /\ k.call \in Persisting /\ owner[k.page] \in Source
      /\ at \in {"abort", "invalidate", "close"}
    BY <1>1 DEF TypeInv, TypeOK, StrandInv
<1>4. /\ \A p \in Page : Exists(p)' => p \in active' \/ Exists(p)
      /\ \A p \in active : p \in active'
      /\ \A p \in Page : Exists(p)' => Exists(p) \/ p = k.page
    <2>1. CASE Execute(k.call, k.page, k.ver)
        <3>1. /\ \A q \in Page \ {k.page} : hash'[q] = hash[q] /\ (q \in active' <=> q \in active)
              /\ k.call # "upsert" => hash'[k.page] = hash[k.page]
              /\ k.page \in active' <=> k.call = "upsert" \/ k.page \in active
            BY <1>3, <2>1, Effects DEF Persisting
        <3>2. active \subseteq Page
            BY <1>3 DEF IndexTypeOK
        <3> QED
            BY <3>1, <3>2 DEF Exists
    <2>2. CASE UNCHANGED <<hash, active, part>>
        BY <2>2 DEF Exists
    <2> QED
        BY <1>1, <2>1, <2>2
<1>5. ASSUME NEW p \in Page, Down(p)' PROVE Remade(p)'
    <2>1. Down(p)
        BY <1>2, <1>4, <1>5 DEF Down
    <2>2. Remade(p)
        BY <2>1 DEF StrandInv
    <2> QED
        BY <1>2, <2>2 DEF Remade, Doing
<1>6. \A p \in Page : Exists(p)' => owner'[p] \in Source
    BY <1>2, <1>3, <1>4 DEF StrandInv
<1>7. Mishaps' = 0 \/ at' \in {"hide", "abort"} => \A p \in Page : Exists(p)' => p \in active'
    BY <1>2, <1>4 DEF StrandInv
<1> QED
    BY <1>1, <1>2, <1>3, <1>5, <1>6, <1>7 DEF StrandInv

(* Beyond the first mishap only the owners matter.                         *)
LEMMA OwnersKept ==
    ASSUME TypeInv, StrandInv, [Next]_vars, NEW p \in Page, Exists(p)'
    PROVE  owner'[p] \in Source
<1> USE DEF log, run, history, counts, index
<1>1. owner \in [Page -> Source \cup {None}]
    BY DEF TypeInv, TypeOK
<1>2. CASE Begin \/ Fold \/ Sentinel \/ Backfill \/ Pass \/ Take \/ Groups \/ LogPage
             \/ Mark \/ Report \/ Invalidate \/ Return \/ Close \/ Raise \/ Cancel \/ Crash
             \/ Idle \/ UNCHANGED vars
    <2>1. UNCHANGED <<hash, owner>>
        BY <1>2 DEF Begin, Fold, Sentinel, Backfill, Pass, Take, Groups, LogPage, Mark,
           Report, Invalidate, Return, Close, Raise, Cancel, Crash, Idle, vars
    <2> QED
        BY <2>1 DEF StrandInv, Exists
<1>3. CASE WritePage
    <2>1. src \in Source
        BY <1>3 DEF WritePage, TypeInv, Working
    <2>2. hash' = hash /\ (owner'[p] = owner[p] \/ owner'[p] = src)
        BY <1>1, <1>3 DEF WritePage
    <2> QED
        BY <2>1, <2>2 DEF StrandInv, Exists
<1>4. CASE Persist \/ Hide
    <2> DEFINE c == IF at \in Persisting THEN at ELSE "hide"
               v == IF at \in Persisting THEN file[page] ELSE 0
    <2>1. /\ Execute(c, page, v) /\ owner' = owner
          /\ at \in Persisting \cup {"hide", "abort"}
        BY <1>4 DEF Persist, Hide, Persisting
    <2>2. /\ page \in Page /\ owner[page] \in Source /\ c \in Writing /\ v \in Content
          /\ IndexTypeOK
        BY <2>1, PageAssumption
        DEF TypeInv, TypeOK, IndexTypeOK, Handling, Working, Writing, Content
    <2>3. p # page => hash'[p] = hash[p]
        BY <2>1, <2>2, Effects
    <2> QED
        BY <2>1, <2>2, <2>3 DEF StrandInv, Exists
<1>5. CASE LateLands
    <2>1. PICK k \in late : Execute(k.call, k.page, k.ver) \/ hash' = hash
        BY <1>5 DEF LateLands
    <2>2. /\ k.page \in Page /\ k.ver \in Content /\ k.call \in Writing
          /\ IndexTypeOK /\ owner[k.page] \in Source /\ owner' = owner
        BY <1>5 DEF TypeInv, TypeOK, LateLands
    <2>3. p # k.page => hash'[p] = hash[p]
        BY <2>1, <2>2, Effects
    <2> QED
        BY <2>2, <2>3 DEF StrandInv, Exists
<1> QED
    BY <1>2, <1>3, <1>4, <1>5 DEF Next

LEMMA StrandKept == TypeInv /\ StrandInv /\ [Next]_vars => StrandInv'
<1> SUFFICES ASSUME TypeInv, StrandInv, [Next]_vars PROVE StrandInv'
    OBVIOUS
<1>1. CASE ~(Mishaps' <= 1)
    BY <1>1, OwnersKept DEF StrandInv
<1>2. CASE Mishaps' <= 1
    <2>1. Mishaps <= 1
        BY <1>2, MishapsBefore
    <2>2. CASE Idle \/ UNCHANGED vars
        BY <2>2 DEF Idle, vars, StrandInv, Mishaps, Down, Exists, Remade, Doing,
           index, log, history, counts, run
    <2> QED
        BY <1>2, <2>1, <2>2, StrandLog, StrandGroups, StrandWrite, StrandPersist, StrandHide,
           StrandMishap, StrandLate DEF Next
<1> QED
    BY <1>1, <1>2

(* With one error, cancel or death, a default run does not pass by the     *)
(* source of a page that was taken down and that the LLM still wants.      *)
THEOREM Unstranded == Spec => []NoPageStranded
<1>1. Init => StrandInv
    BY DEF Init, StrandInv, Exists, Down
<1>2. StrandInv => NoPageStranded
    BY DEF StrandInv, NoPageStranded, Mishaps, Down, Remade, Doing, Skipped, Backfilled,
       Persisting
<1> QED
    BY <1>1, <1>2, StrandKept, Typed, PTL DEF Spec
===============================================================================

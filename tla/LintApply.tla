----------------------------- MODULE LintApply -----------------------------
(***************************************************************************)
(* One lint pass: run_lint_propose computes fixes of drifted pages, and    *)
(* later, as a task of its own, run_lint_apply carries them out            *)
(* (lint_fix.py, lint_fixers/).                                            *)
(*                                                                         *)
(* A proposal is a list of operations.  Apply checks all proposals before  *)
(* it touches anything (the preflight), then takes operation by operation: *)
(* it checks again, and writes, trashes or purges.  Once an operation is   *)
(* skipped the rest of its proposal is as well.  Then it indexes what it   *)
(* wrote (phase 1) and the files it was to reindex (1b), and reconciles    *)
(* the links of the pages the issues were about (phase 2), all against one *)
(* title index, brought up to date with what the pass removed and added.   *)
(*                                                                         *)
(* Between the two tasks, and while apply awaits, files are edited by      *)
(* their owner; before apply holds ingest_lock other tasks may rewrite or  *)
(* delete pages.                                                           *)
(*                                                                         *)
(* Abstractions: a page keeps its title, a body mentions titles, and links *)
(* resolve by exact title (the fuzzy matches are in Wikilinks).  The LLM   *)
(* and the heuristics are choices.  The paths of a proposal are distinct,  *)
(* as they are in every fixer.                                             *)
(***************************************************************************)
EXTENDS PageIndex, Sequences, FiniteSets

CONSTANTS
    Wisdom,                 \* the pages under wisdom/; the others are knowledge
    Title, TitleOf,         \* TitleOf[p]: the title of p
    Mentions,               \* Mentions[v]: the titles content v links to
    Drifted,                \* pages that may start out of step with a row
    MaxDrifted,             \* bound: how many of them do at once
    Absent,                 \* paths that start without a file
    Earlier,                \* bound: contents that pages start with
    None,                   \* nobody's title, no page
    MaxProposals,           \* bound: proposals of a pass
    MaxMishaps              \* bound: errors, cancels, edits and other tasks

ASSUME LintAssumption ==
    /\ Wisdom \subseteq Page
    /\ TitleOf \in [Page -> Title]
    /\ Mentions \in [Content -> SUBSET Title] /\ Mentions[0] = {}
    /\ Drifted \subseteq Page /\ Absent \subseteq Page /\ Earlier \subseteq Content
    /\ None \notin Page \cup Content
    /\ {MaxDrifted, MaxProposals, MaxMishaps} \subseteq Nat

VARIABLES
    edges,                  \* edges[p]: the pages p's stored links point to
    at,                     \* where the pass is, or its await
    issues,                 \* the picked proposals' pages and kinds
    ops, next,              \* their operations in order, and the next one
    flagged, aborted,       \* proposals that failed preflight; were broken off
    listed, resolver,       \* the pages listed, of both layers; title_to_path
    changed, deleted, purged, reindex, \* what the operations did
    queue, page, ver,       \* pages to persist; the one, and its content
    referrers,              \* pages to re-link in phase 2
    applied,                \* history: the operations carried out
    begun,                  \* history: pages whose persist began
    theirs, trash,          \* history: owner's content; trashed content
    lost,                   \* history: rows whose file apply did not remove
    late, overtaken,        \* as in Synth
    faults, cancels, edits

plan    == <<issues, ops, flagged, listed>>
effects == <<changed, deleted, purged, reindex, applied>>
work    == <<queue, page, ver, referrers>>
ghost   == <<begun, theirs, trash, lost, late, overtaken>>
counts  == <<faults, cancels, edits>>
vars    == <<file, index, edges, at, plan, next, aborted, resolver, effects,
             work, ghost, counts>>

Op(n, k, p, h, v) == [prop |-> n, kind |-> k, path |-> p, expect |-> h, body |-> v]

-----------------------------------------------------------------------------
(* What a title leads to.                                                  *)

(* First wins: one page for a title that several have.                     *)
TitleIndex(ps) ==
    [t \in Title |-> IF \E p \in ps : TitleOf[p] = t
                       THEN CHOOSE p \in ps : TitleOf[p] = t ELSE None]

(* The resolver's start: knowledge pages first, then wisdom.               *)
KnowledgeFirst(ps) ==
    [t \in Title |-> IF TitleIndex(ps \ Wisdom)[t] # None
                       THEN TitleIndex(ps \ Wisdom)[t] ELSE TitleIndex(ps)[t]]

Resolve(r, v) == {r[t] : t \in Mentions[v]} \ {None}

Init ==
    /\ file \in {f \in [Page -> Earlier] :
                   \A p \in Page : /\ p \in Absent => f[p] = 0
                                   /\ p \notin Absent \cup Drifted => f[p] # 0}
    /\ hash \in {h \in [Page -> Earlier] :
                   LET off == {p \in Page : h[p] # file[p]}
                   IN  off \subseteq Drifted /\ Cardinality(off) <= MaxDrifted}
    /\ active = {p \in Page : Exists(p)}
    /\ part = [p \in Page |-> [c \in Part |-> hash[p]]]
    /\ edges = [p \in Page |-> Resolve(TitleIndex(active), hash[p])]
    /\ at = "propose"
    /\ issues = {} /\ ops = <<>> /\ next = 1 /\ flagged = {} /\ aborted = 0
    /\ listed = {} /\ resolver = TitleIndex({})
    /\ changed = {} /\ deleted = {} /\ purged = {} /\ reindex = {}
    /\ queue = {} /\ page = None /\ ver = 0 /\ referrers = {}
    /\ applied = {}
    /\ begun = {} /\ theirs = [p \in Page |-> None] /\ trash = [p \in Page |-> 0]
    /\ lost = {p \in Page : Exists(p) /\ file[p] = 0}
    /\ late = {} /\ overtaken = FALSE
    /\ faults = 0 /\ cancels = 0 /\ edits = 0

-----------------------------------------------------------------------------
(* The proposals.                                                          *)

Here(p)  == p \in active /\ file[p] # 0
Free(p)  == p \notin active /\ file[p] = 0 /\ p \notin Wisdom

(* A link is broken unless one live page has its title.                    *)
Broken(t) == ~\E p \in Page : {q \in Page : Here(q) /\ TitleOf[q] = t} = {p}

Other(v) == (v % MaxBody) + 1

Create(n, p, v) == Op(n, "create_page", p, 0, v)
Update(n, p)    == Op(n, "update_page", p, file[p], Other(file[p]))
Remove(n, p)    == Op(n, "delete_page", p, file[p], 0)

(* What the fixers propose, as the n-th proposal, for an issue of page p.  *)
(* An issue may be of a wisdom page; an orphan and the pages that are      *)
(* created or linked from are knowledge (FixerContext.all_pages).          *)
MissingFile(n, p) ==
    {<<Op(n, "purge_document", p, 0, 0)>> : x \in {0} \cap {file[p]}}

Reindex(n, p) ==
    {<<Op(n, "reindex_page", p, 0, 0)>> :
        x \in IF file[p] # hash[p] \/ p \notin active THEN {file[p]} \ {0} ELSE {}}

Relink(n, p) == {<<Update(n, p)>>}

Ground(n, p) ==
    {<<Create(n, c, v)>> :
        c \in {d \in Page : /\ Free(d) /\ TitleOf[d] \in Mentions[file[p]]
                            /\ Broken(TitleOf[d])},
        v \in Body}

Split(n, p) ==
    {<<Create(n, c, 1), Create(n, d, 1), Remove(n, p)>> :
        c \in {f \in Page : Free(f)}, d \in {f \in Page : Free(f)}}

Stub(n, p)       == {<<Remove(n, p)>>}
Merge(n, p)      == {<<Update(n, q), Remove(n, p)>> :
                        q \in {r \in Page \ (Wisdom \cup {p}) : Here(r)}}
LinkFrom(n, p)   == {<<Update(n, q)>> : q \in {r \in Page \ (Wisdom \cup {p}) : Here(r)}}
Provenance(n, p) == {<<Op(n, "reconcile_provenance", p, file[p], 0)>>}

Drift(n, p)  == IF p \in active /\ file[p] = 0 THEN MissingFile(n, p) ELSE Reindex(n, p)
Orphan(n, p) == {s \in UNION {Stub(n, p), Merge(n, p), LinkFrom(n, p)} : p \notin Wisdom}

DistinctPaths(s) == \A i, j \in DOMAIN s : i # j => s[i].path # s[j].path

(* Some fix of an issue of each kind; only broken links repeat on a page.  *)
Fixes(n, p, k) ==
    {s \in CASE k = "drift"           -> Drift(n, p)
             [] k = "broken_wikilink" -> Relink(n, p) \cup Ground(n, p)
             [] k = "non_atomic_page" -> Split(n, p)
             [] k = "orphan_page"     -> Orphan(n, p)
             [] k = "provenance"      -> Provenance(n, p) :
        DistinctPaths(s) /\ (k = "drift" \/ Here(p))}

Kind == {"drift", "broken_wikilink", "non_atomic_page", "orphan_page", "provenance"}

(* run_lint and run_lint_propose, one fix at a time, in the order picked.  *)
Propose ==
    /\ at = "propose"
    /\ LET num == IF ops = <<>> THEN 1 ELSE ops[Len(ops)].prop + 1 IN
         /\ num <= MaxProposals
         /\ \E p \in Page, k \in Kind : \E s \in Fixes(num, p, k) :
              /\ <<p, k>> \notin issues \/ k = "broken_wikilink"
              /\ ops' = ops \o s /\ issues' = issues \cup {<<p, k>>}
    /\ UNCHANGED <<file, index, edges, at, next, flagged, aborted, listed, resolver,
                   effects, work, ghost, counts>>

Proposed ==
    /\ at = "propose" /\ ops # <<>> /\ at' = "waiting"
    /\ UNCHANGED <<file, index, edges, plan, next, aborted, resolver, effects,
                   work, ghost, counts>>

-----------------------------------------------------------------------------
(* The operations.                                                         *)

(* Only a row without a file and a file out of step are tended outside     *)
(* knowledge/.                                                             *)
Sandboxed(o) == o.kind \in {"purge_document", "reindex_page"} \/ o.path \notin Wisdom

(* Mutant: the hash the proposal was made from is not compared.            *)
ReadyUnhashed(o) ==
    /\ Sandboxed(o)
    /\ CASE o.kind \in {"purge_document", "create_page"} -> file[o.path] = 0
         [] OTHER                                        -> file[o.path] # 0

(* The checks of the preflight and of _apply_one_op.                       *)
Ready(o) ==
    /\ Sandboxed(o)
    /\ CASE o.kind \in {"purge_document", "create_page"} -> file[o.path] = 0
         [] o.kind = "reindex_page"                      -> file[o.path] # 0
         [] OTHER -> file[o.path] = o.expect /\ o.expect # 0

IssuePaths == {i[1] : i \in issues}

(* path_to_doc_id: the rows of the pages listed that are knowledge.        *)
PathToDocId == listed \ Wisdom

Touched == changed \cup deleted \cup purged \cup reindex

(* Mutant: no preflight.                                                   *)
StartUnchecked ==
    /\ at = "waiting"
    /\ listed' = active /\ resolver' = KnowledgeFirst(active)
    /\ flagged' = {} /\ at' = "op"
    /\ UNCHANGED <<file, index, edges, issues, ops, next, aborted, effects, work,
                   ghost, counts>>

(* Apply has the lock: it lists the documents, then preflights.            *)
Start ==
    /\ at = "waiting"
    /\ listed' = active /\ resolver' = KnowledgeFirst(active)
    /\ flagged' = {ops[i].prop : i \in {j \in DOMAIN ops : ~Ready(ops[j])}}
    /\ at' = "op"
    /\ UNCHANGED <<file, index, edges, issues, ops, next, aborted, effects, work,
                   ghost, counts>>

Mishap == faults + cancels + edits < MaxMishaps

Current    == ops[next]
Turn(kind) == /\ at = "op" /\ next <= Len(ops) /\ Current.kind = kind
              /\ Current.prop \notin flagged \cup {aborted}
              /\ Current.path \notin Touched /\ Ready(Current)

Advance == next' = next + 1 /\ at' = "op"
Applies == Advance /\ applied' = applied \cup {next} /\ UNCHANGED aborted
Breaks  == Advance /\ aborted' = Current.prop /\ UNCHANGED applied

(* A proposal that is out goes by; one that cannot go on is broken off.    *)
SkipOp ==
    /\ at = "op" /\ next <= Len(ops)
    /\ \/ Current.prop \in flagged \cup {aborted} /\ Advance /\ UNCHANGED aborted
       \/ /\ Current.prop \notin flagged \cup {aborted}
          /\ Current.path \in Touched \/ ~Ready(Current)
          /\ Advance /\ aborted' = Current.prop
    /\ UNCHANGED <<file, index, edges, plan, resolver, effects, work, ghost, counts>>

(* write_page, or an OSError of it.                                        *)
WriteOp ==
    /\ Turn("create_page") \/ Turn("update_page")
    /\ \/ /\ file' = [file EXCEPT ![Current.path] = Current.body]
          /\ changed' = changed \cup {Current.path}
          /\ Applies /\ UNCHANGED counts
       \/ /\ Mishap /\ faults' = faults + 1
          /\ Breaks /\ UNCHANGED <<file, changed, cancels, edits>>
    /\ UNCHANGED <<index, edges, plan, resolver, deleted, purged, reindex, work,
                   ghost>>

ReindexOp ==
    /\ Turn("reindex_page")
    /\ reindex' = reindex \cup {Current.path} /\ Applies
    /\ UNCHANGED <<file, index, edges, plan, resolver, changed, deleted, purged,
                   work, ghost, counts>>

(* Mutant: delete_page trashes the file, then purges the row.              *)
AwaitOpTrashFirst ==
    /\ \/ Turn("purge_document") /\ at' = "probe" /\ UNCHANGED file
       \/ /\ Turn("delete_page") /\ at' = "purge"
          /\ file' = [file EXCEPT ![Current.path] = 0]
       \/ /\ Turn("reconcile_provenance") /\ Current.path \in PathToDocId
          /\ at' = "reconcile" /\ UNCHANGED file
    /\ UNCHANGED <<index, edges, plan, next, aborted, resolver, effects,
                   work, ghost, counts>>

(* The operations that await the storage.  A page without an active row    *)
(* is trashed at once, and its provenance is not reconciled.               *)
AwaitOp ==
    /\ \/ Turn("purge_document") /\ at' = "probe"
       \/ Turn("delete_page")    /\ at' = "delete"
       \/ Turn("reconcile_provenance") /\ Current.path \in PathToDocId /\ at' = "reconcile"
    /\ UNCHANGED <<file, index, edges, plan, next, aborted, resolver, effects,
                   work, ghost, counts>>

NoRowOp ==
    /\ \/ Turn("reconcile_provenance") /\ Current.path \notin PathToDocId
       \/ at = "probe" /\ ~Exists(Current.path)
    /\ Breaks
    /\ UNCHANGED <<file, index, edges, plan, resolver, changed, deleted, purged,
                   reindex, work, ghost, counts>>

Probe ==
    /\ at = "probe" /\ Exists(Current.path) /\ at' = "purge"
    /\ UNCHANGED <<file, index, edges, plan, next, aborted, resolver, effects,
                   work, ghost, counts>>

Purge ==
    /\ at = "purge"
    /\ Execute("purge", Current.path, 0)
    /\ edges' = [edges EXCEPT ![Current.path] = {}]
    /\ purged' = purged \cup {Current.path} /\ Applies
    /\ UNCHANGED <<file, plan, resolver, changed, deleted, reindex, work, ghost, counts>>

(* The row goes first, then, without an await, the file to the trash.      *)
DeleteOp ==
    /\ at = "delete"
    /\ IF Current.path \in PathToDocId
         THEN /\ Execute("purge", Current.path, 0)
              /\ edges' = [edges EXCEPT ![Current.path] = {}]
         ELSE UNCHANGED <<index, edges>>
    /\ \/ /\ file' = [file EXCEPT ![Current.path] = 0]
          /\ trash' = [trash EXCEPT ![Current.path] = file[Current.path]]
          /\ deleted' = deleted \cup {Current.path}
          /\ Applies /\ UNCHANGED counts
       \/ /\ Mishap /\ faults' = faults + 1
          /\ Breaks /\ UNCHANGED <<file, trash, deleted, cancels, edits>>
    /\ UNCHANGED <<plan, resolver, changed, purged, reindex, work, begun, theirs, lost,
                   late, overtaken>>

ReconcileOp ==
    /\ at = "reconcile"
    /\ Execute("sources", Current.path, Current.expect) /\ Applies
    /\ UNCHANGED <<file, edges, plan, resolver, changed, deleted, purged, reindex,
                   work, ghost, counts>>

-----------------------------------------------------------------------------
(* The phases.                                                             *)

(* Mutant: the reindexed pages are not seeded.                             *)
SeededWrites(r) ==
    [t \in Title |->
        IF r[t] \notin deleted \cup purged \cup {None} THEN r[t]
        ELSE TitleIndex(changed)[t]]

(* Phase 0: without what the pass removed, with what it added.             *)
Seeded(r) ==
    [t \in Title |->
        IF r[t] \notin deleted \cup purged \cup {None} THEN r[t]
        ELSE IF TitleIndex(changed)[t] # None THEN TitleIndex(changed)[t]
        ELSE TitleIndex({p \in reindex : file[p] # 0})[t]]

Seed ==
    /\ at = "op" /\ next > Len(ops)
    /\ resolver' = Seeded(resolver)
    /\ queue' = changed /\ at' = "phase1"
    /\ referrers' = IssuePaths \ Touched
    /\ UNCHANGED <<file, index, edges, plan, next, aborted, effects, page, ver,
                   ghost, counts>>

(* In some fixed order, which is that of the paths.                        *)
First(ps) == CHOOSE p \in ps : TRUE

(* The next page of the phase whose file is still there.                   *)
Take ==
    /\ at \in {"phase1", "phase1b"}
    /\ queue # {}
    /\ LET p == First(queue) IN
         /\ queue' = queue \ {p}
         /\ page' = p /\ ver' = file[p]
         /\ IF file[p] # 0 THEN at' = "upsert" /\ begun' = begun \cup {p}
                           ELSE UNCHANGED <<at, begun>>
    /\ UNCHANGED <<file, index, edges, plan, next, aborted, resolver, effects,
                   referrers, theirs, trash, lost, late, overtaken, counts>>

PhaseOver ==
    /\ at \in {"phase1", "phase1b"} /\ queue = {}
    /\ IF at = "phase1" THEN at' = "phase1b" /\ queue' = reindex
                        ELSE at' = "phase2" /\ UNCHANGED queue
    /\ UNCHANGED <<file, index, edges, plan, next, aborted, resolver, effects,
                   page, ver, referrers, ghost, counts>>

Phase == IF page \in changed THEN "phase1" ELSE "phase1b"

Persist ==
    /\ at \in Persisting
    /\ Execute(at, page, ver)
    /\ edges' = IF at = "links" THEN [edges EXCEPT ![page] = Resolve(resolver, ver)]
                                ELSE edges
    /\ at' = IF AfterPersist(at) = "persisted" THEN Phase ELSE AfterPersist(at)
    /\ UNCHANGED <<file, plan, next, aborted, resolver, effects, work, ghost, counts>>

Hide ==
    /\ at \in {"hide", "abort"}
    /\ Execute("hide", page, 0)
    /\ at' = IF at = "hide" THEN Phase ELSE "close"
    /\ UNCHANGED <<file, edges, plan, next, aborted, resolver, effects, work, ghost,
                   counts>>

(* Phase 2: the links, and only them, of a knowledge page with a file.     *)
Referrer ==
    /\ at = "phase2" /\ referrers # {}
    /\ LET p == First(referrers) IN
         /\ referrers' = referrers \ {p}
         /\ IF p \in PathToDocId /\ file[p] # 0
              THEN /\ Execute("links", p, file[p])
                   /\ edges' = [edges EXCEPT ![p] = Resolve(resolver, file[p])]
              ELSE UNCHANGED <<index, edges>>
    /\ UNCHANGED <<file, at, plan, next, aborted, resolver, effects, queue, page,
                   ver, ghost, counts>>

Applied ==
    /\ at = "phase2" /\ referrers = {} /\ at' = "close"
    /\ UNCHANGED <<file, index, edges, plan, next, aborted, resolver, effects,
                   work, ghost, counts>>

Close ==
    /\ at = "close" /\ at' = "closed" /\ late' = {}
    /\ UNCHANGED <<file, index, edges, plan, next, aborted, resolver, effects,
                   work, begun, theirs, trash, lost, overtaken, counts>>

-----------------------------------------------------------------------------
(* What goes wrong, and what others do.                                    *)

Awaits == {"op", "probe", "purge", "delete", "reconcile", "hide", "abort",
           "phase2"} \cup Persisting

(* Mutant: a hard error of the persist is only recorded.                   *)
AfterErrorRecorded(p) ==
    CASE p \in {"hide"} \cup Persisting -> Phase
      [] OTHER                          -> "close"

AfterError(p) ==
    CASE p \in Persisting -> "hide"
      [] p = "hide"       -> Phase
      [] OTHER            -> "close"

Raise ==
    /\ at \in Awaits /\ Mishap /\ faults' = faults + 1
    /\ at' = AfterError(at)
    /\ UNCHANGED <<file, index, edges, plan, next, aborted, resolver, effects,
                   work, ghost, cancels, edits>>

Cancel ==
    /\ at \in Awaits /\ Mishap /\ cancels' = cancels + 1
    /\ at' = IF at \in Persisting THEN "abort" ELSE "close"
    /\ late' = CASE at \in Persisting ->
                      {[call |-> at, page |-> page, ver |-> ver]}
                 [] at \in {"purge", "delete"} ->
                      {[call |-> "purge", page |-> Current.path, ver |-> 0]}
                 [] OTHER -> late
    /\ UNCHANGED <<file, index, edges, plan, next, aborted, resolver, effects,
                   work, begun, theirs, trash, lost, overtaken, faults, edits>>

LateLands ==
    /\ \E k \in late :
         /\ late' = late \ {k}
         /\ overtaken' = (overtaken \/ (k.call = "upsert" /\ at # "abort"))
         /\ \/ Execute(k.call, k.page, k.ver)
            \/ Refused(k.call, k.page) /\ UNCHANGED index
         /\ edges' = CASE k.call = "links" ->
                            [edges EXCEPT ![k.page] = Resolve(resolver, k.ver)]
                       [] k.call = "purge" -> [edges EXCEPT ![k.page] = {}]
                       [] OTHER            -> edges
    /\ UNCHANGED <<file, at, plan, next, aborted, resolver, effects, work, begun,
                   theirs, trash, lost, counts>>

(* The owner of the vault edits, restores or removes a file.               *)
Edit ==
    /\ at \notin {"propose", "closed"} /\ Mishap /\ edits' = edits + 1
    /\ \E p \in Page, v \in Content :
         /\ v # file[p]
         /\ file' = [file EXCEPT ![p] = v] /\ theirs' = [theirs EXCEPT ![p] = v]
         /\ lost' = IF v = 0 THEN lost \cup {p} ELSE lost
    /\ UNCHANGED <<index, edges, at, plan, next, aborted, resolver, effects, work,
                   begun, trash, late, overtaken, faults, cancels>>

(* Another task, before apply has the lock: a page is written and indexed, *)
(* written and taken down, or deleted.  What the owner wrote there is no   *)
(* longer for apply to keep.                                               *)
OtherTask ==
    /\ at = "waiting" /\ Mishap /\ edits' = edits + 1
    /\ \E p \in Page, v \in Content, up \in BOOLEAN :
         /\ v = 0 => up
         /\ file'   = [file EXCEPT ![p] = v]
         /\ hash'   = [hash EXCEPT ![p] = v]
         /\ active' = IF v # 0 /\ up THEN active \cup {p} ELSE active \ {p}
         /\ part'   = [part EXCEPT ![p] = [c \in Part |-> v]]
         /\ edges'  = [edges EXCEPT ![p] = Resolve(TitleIndex(active), v)]
         /\ theirs' = [theirs EXCEPT ![p] = None]
    /\ UNCHANGED <<at, plan, next, aborted, resolver, effects, work, begun, trash,
                   lost, late, overtaken, faults, cancels>>

Closed == at = "closed" /\ UNCHANGED vars

Next ==
    \/ Propose \/ Proposed \/ Start
    \/ SkipOp \/ WriteOp \/ ReindexOp \/ AwaitOp \/ NoRowOp
    \/ Probe \/ Purge \/ DeleteOp \/ ReconcileOp
    \/ Seed \/ Take \/ PhaseOver \/ Persist \/ Hide \/ Referrer
    \/ Applied \/ Close
    \/ Raise \/ Cancel \/ LateLands \/ Edit \/ OtherTask
    \/ Closed

Spec == Init /\ [][Next]_vars

-----------------------------------------------------------------------------
(* Properties.                                                             *)

TypeOK ==
    /\ IndexTypeOK
    /\ edges \in [Page -> SUBSET Page]
    /\ at \in Awaits \cup {"propose", "waiting", "phase1", "phase1b", "close",
                           "closed"}
    /\ issues \subseteq Page \X Kind /\ listed \subseteq Page
    /\ \A i \in DOMAIN ops : ops[i].path \in Page /\ ops[i].prop \in 1..MaxProposals
    /\ next \in 1..Len(ops) + 1 /\ applied \subseteq DOMAIN ops
    /\ at \in {"probe", "purge", "delete", "reconcile"} => next \in DOMAIN ops
    /\ flagged \subseteq 1..MaxProposals /\ aborted \in 0..MaxProposals
    /\ resolver \in [Title -> Page \cup {None}]
    /\ UNION {changed, deleted, purged, reindex, queue, referrers, lost, begun} \subseteq Page
    /\ page \in Page \cup {None} /\ ver \in Content
    /\ theirs \in [Page -> Content \cup {None}] /\ trash \in [Page -> Content]
    /\ late \subseteq [call : Writing, page : Page, ver : Content]
    /\ faults + cancels + edits \in 0..MaxMishaps

(* An undisturbed pass.                                                    *)
Clean == faults + cancels + edits = 0

(* What the fixes of p were computed from.                                 *)
Origins(p) == {ops[i].expect : i \in {j \in DOMAIN ops : ops[j].path = p}}

(* What the owner of a file writes after the proposals were made is never  *)
(* overwritten: it is in its file, or, when it came while the row was      *)
(* being purged for a delete, in the trash; unless the owner put back the  *)
(* very content that the fix replaces.                                     *)
EditsSurvive ==
    \A p \in Page : theirs[p] \in Body =>
        theirs[p] \in {file[p], trash[p]} \cup Origins(p)

(* A pass leaves no visible page half written, with one error or cancel    *)
(* anywhere, whatever was edited meanwhile.                                *)
HalfWrittenHidden ==
    at = "closed" /\ ~overtaken /\ faults + cancels <= 1 =>
        \A p \in active : /\ part[p]["chunks"] = hash[p]
                          /\ p \in begun => Whole(p)

(* A pass takes no file from an active row; it removes the row first.  A   *)
(* row without a file was there before, or its file was removed by its     *)
(* owner.                                                                  *)
RowsKeepFiles ==
    \A p \in active : file[p] = 0 => p \in lost

(* A page that had its title in common with one the pass removed: the      *)
(* resolver knew only one of the two (lint_fix.py:707-710, 884-886).       *)
Outlived(q) ==
    q \in listed /\ \E r \in listed \cap (deleted \cup purged) : TitleOf[r] = TitleOf[q]

(* The stored links of p are what its body says: a link to every page,     *)
(* also one the pass has just created or reindexed, none to a page that it *)
(* removed, and a title that moved to another page leads there.  Outlived  *)
(* is the exception.                                                       *)
Fresh(p) ==
    file[p] # 0 =>
        /\ edges[p] \subseteq active
        /\ \A q \in active :
               TitleOf[q] \in Mentions[file[p]] /\ ~Outlived(q) =>
                   \E r \in edges[p] : TitleOf[r] = TitleOf[q]

(* The pages a pass relinks: those it wrote, those it reindexed, and the   *)
(* knowledge pages the issues were about.                                  *)
Relinked == (changed \cup reindex \cup (IssuePaths \ Wisdom)) \cap active

(* After an undisturbed pass the stored links of the pages it relinks are  *)
(* fresh (lint_fix.py:871-925, 1012-1046).                                 *)
LinksCurrent ==
    at = "closed" /\ Clean => \A p \in Relinked : Fresh(p)

(* "Without this, a broken_wikilink -> create_page proposal leaves the     *)
(* source page's storage links stale": of every page an issue was about    *)
(* whose row is in step.  The code does not provide it for a wisdom page:  *)
(* it has no doc_id here.                                                  *)
ReferrersRelinked ==
    at = "closed" /\ Clean =>
        \A p \in IssuePaths \cap active : hash[p] = file[p] => Fresh(p)

(* "So referrers resolve to the live replacement instead of staying        *)
(* falsely orphaned": also without the exception.  The code does not       *)
(* provide it when the replacement was there all the time.                 *)
TitlesLive ==
    at = "closed" /\ Clean =>
        \A p \in Relinked :
            \A q \in active :
                file[p] # 0 /\ TitleOf[q] \in Mentions[file[p]] =>
                    \E r \in edges[p] : TitleOf[r] = TitleOf[q]

PathsOf(n) == {ops[i].path : i \in {j \in DOMAIN ops : ops[j].prop = n}}
OpsOf(n)   == {i \in DOMAIN ops : ops[i].prop = n}
AllOrNothing(n) == OpsOf(n) \subseteq applied \/ OpsOf(n) \cap applied = {}

(* Undisturbed, a proposal whose paths no other one has is carried out as  *)
(* a whole or not at all, also when the tree has changed since it was      *)
(* made.                                                                   *)
ProposalAtomic ==
    at = "closed" /\ faults + cancels = 0 /\ theirs = [p \in Page |-> None] =>
        \A n \in 1..MaxProposals :
            (\A m \in 1..MaxProposals \ {n} : PathsOf(n) \cap PathsOf(m) = {}) =>
                AllOrNothing(n)

(* "This preflight exists so that a multi-op proposal whose 2nd op cannot  *)
(* succeed never lets its 1st op land on disk", "any path mutated by a     *)
(* prior proposal in the same apply pass causes immediate failure here".   *)
(* The code does not provide it: the paths are still empty then.           *)
SiblingsAtomic ==
    at = "closed" /\ Clean => \A n \in 1..MaxProposals : AllOrNothing(n)
=============================================================================

-------------------------- MODULE LintApply_proofs --------------------------
(***************************************************************************)
(* What TLAPS proves of a lint pass, for any pages, titles, contents and   *)
(* fixes, and any number of proposals and mishaps.                         *)
(***************************************************************************)
EXTENDS LintApply, SequenceTheorems, TLAPS

-----------------------------------------------------------------------------
(* What a call does to the index, page by page.                            *)
LEMMA Effects ==
    ASSUME IndexTypeOK, NEW c \in Writing, NEW p \in Page, NEW v \in Content,
           Execute(c, p, v)
    PROVE  /\ hash' \in [Page -> Content] /\ part' \in [Page -> [Part -> Content]]
           /\ active' \subseteq Page
           /\ \A q \in Page \ {p} : /\ hash'[q] = hash[q] /\ part'[q] = part[q]
                                    /\ q \in active' <=> q \in active
           /\ hash'[p] = CASE c = "upsert" -> v [] c = "purge" -> 0 [] OTHER -> hash[p]
           /\ p \in active' <=>
                  c = "upsert" \/ (p \in active /\ c \notin {"hide", "purge"})
           /\ \A d \in Part :
                  part'[p][d] = IF c = "purge" THEN 0
                                ELSE IF c = d THEN v ELSE part[p][d]
<1>1. /\ hash \in [Page -> Content] /\ part \in [Page -> [Part -> Content]]
      /\ active \subseteq Page
    BY DEF IndexTypeOK
<1>2. 0 \in Content
    BY PageAssumption DEF Content
<1>3. /\ hash' \in [Page -> Content]
      /\ \A q \in Page \ {p} : hash'[q] = hash[q]
      /\ hash'[p] = CASE c = "upsert" -> v [] c = "purge" -> 0 [] OTHER -> hash[p]
    BY <1>1, <1>2 DEF Execute
<1>4. /\ active' \subseteq Page
      /\ \A q \in Page \ {p} : q \in active' <=> q \in active
      /\ p \in active' <=>
             c = "upsert" \/ (p \in active /\ c \notin {"hide", "purge"})
    BY <1>1 DEF Execute
<1>5. /\ part' \in [Page -> [Part -> Content]]
      /\ \A q \in Page \ {p} : part'[q] = part[q]
      /\ \A d \in Part :
             part'[p][d] = IF c = "purge" THEN 0
                           ELSE IF c = d THEN v ELSE part[p][d]
    <2>1. Nothing \in [Part -> Content] /\ \A d \in Part : Nothing[d] = 0
        BY <1>2 DEF Nothing
    <2>2. "purge" \notin Part
        BY DEF Part
    <2>3. CASE c \in Part
        BY <1>1, <2>2, <2>3 DEF Execute
    <2>4. CASE c = "purge"
        BY <1>1, <2>1, <2>2, <2>4 DEF Execute
    <2>5. CASE c \notin Part /\ c # "purge"
        BY <1>1, <2>5 DEF Execute
    <2> QED
        BY <2>3, <2>4, <2>5
<1> QED
    BY <1>3, <1>4, <1>5

(* An active row exists, when no row is written with the hash of nothing.  *)
LEMMA IndexTyped ==
    ASSUME IndexTypeOK, NEW c \in Writing, NEW p \in Page, NEW v \in Content,
           Execute(c, p, v), c = "upsert" => v # 0, file' = file
    PROVE  IndexTypeOK'
<1>1. \A q \in active' : hash'[q] # 0
    BY Effects DEF IndexTypeOK, Exists
<1> QED
    BY <1>1, Effects DEF IndexTypeOK, Exists

-----------------------------------------------------------------------------
(* Types, and what is set when.                                            *)

OpKind == {"create_page", "update_page", "delete_page", "purge_document",
           "reindex_page", "reconcile_provenance"}

Operation == {o \in [prop : 1..MaxProposals, kind : OpKind, path : Page,
                     expect : Content, body : Content] :
                 o.kind \in {"create_page", "update_page"} => o.body \in Body}

Before  == {"propose", "waiting"}
Ops     == {"op", "probe", "purge", "delete", "reconcile"}
Busy    == Persisting \cup {"hide", "abort"}
Loop    == {"phase1", "phase1b"}
Over    == {"close", "closed"}

TypeInv ==
    /\ IndexTypeOK
    /\ edges \in [Page -> SUBSET Page]
    /\ at \in Before \cup Ops \cup Busy \cup Loop \cup {"phase2"} \cup Over
    /\ issues \subseteq Page \X Kind /\ listed \subseteq Page
    /\ ops \in Seq(Operation)
    /\ next \in 1..Len(ops) + 1 /\ applied \subseteq DOMAIN ops
    /\ at \in Ops \ {"op"} => next \in DOMAIN ops
    /\ flagged \subseteq 1..MaxProposals /\ aborted \in 0..MaxProposals
    /\ resolver \in [Title -> Page \cup {None}]
    /\ changed \subseteq Page /\ deleted \subseteq Page /\ purged \subseteq Page
    /\ reindex \subseteq Page /\ queue \subseteq Page /\ referrers \subseteq Page
    /\ lost \subseteq Page /\ begun \subseteq Page
    /\ page \in Page \cup {None} /\ ver \in Content
    /\ at \in Busy => page \in Page /\ ver # 0
    /\ theirs \in [Page -> Content \cup {None}] /\ trash \in [Page -> Content]
    /\ late \subseteq [call : Persisting \cup {"purge"}, page : Page, ver : Content]
    /\ \A k \in late : k.call \in Persisting => k.ver # 0
    /\ overtaken \in BOOLEAN
    /\ faults \in Nat /\ cancels \in Nat /\ edits \in Nat
    /\ faults + cancels + edits \in 0..MaxMishaps

(* The stages of apply: nothing is done before the first operation, and    *)
(* nothing persisted before the last.  Only a cancel leaves late calls,    *)
(* and the pass ends on it.                                                *)
StageInv ==
    /\ at \in Before => /\ next = 1 /\ aborted = 0 /\ applied = {}
                        /\ changed = {} /\ deleted = {} /\ purged = {} /\ reindex = {}
    /\ at \in Before \cup Ops => begun = {} /\ queue = {} /\ referrers = {}
    /\ late # {} => at \in {"abort", "close"} /\ cancels > 0
    /\ at = "hide" => faults > 0
    /\ at = "abort" => cancels > 0
    /\ at \in Ops => active \subseteq listed
    /\ queue \cup begun \subseteq changed \cup reindex
    /\ referrers \cap Touched = {}
    /\ at \in Ops \ {"op"} => Current.path \notin Touched
    /\ at = "delete" => Current.path \notin Wisdom
    /\ at \in Busy => page \in begun

-----------------------------------------------------------------------------
(* RowsKeepFiles.                                                          *)

(* A row that is about to become active has a file, or its owner has taken *)
(* the file away.                                                          *)
Backed(p) == file[p] # 0 \/ p \in lost

RowInv ==
    /\ RowsKeepFiles
    /\ at = "upsert" => Backed(page)
    /\ \A k \in late : k.call = "upsert" => Backed(k.page)

-----------------------------------------------------------------------------
(* EditsSurvive.                                                           *)

(* What the owner wrote is in the trash only of a page that the pass has   *)
(* deleted, and such a page is not touched again.                          *)
EditInv ==
    \A p \in Page : theirs[p] \in Body =>
        \/ theirs[p] = file[p]
        \/ theirs[p] \in Origins(p)
        \/ theirs[p] = trash[p] /\ p \in deleted

-----------------------------------------------------------------------------
(* HalfWrittenHidden.                                                      *)

Sound(p) == part[p]["chunks"] = hash[p] /\ (p \in begun => Whole(p))

Calm == faults + cancels <= 1 /\ ~overtaken

HalfInv ==
    /\ Calm => \A p \in active : Sound(p) \/ (at \in Busy /\ p = page)
    /\ at \in Persisting \ {"upsert"} => hash[page] = ver
    /\ at \in {"vectors", "links", "sources"} => part[page]["chunks"] = ver
    /\ at = "sources" => part[page]["links"] = ver
    /\ \A k \in late : k.call \in Persisting =>
          k.page = page /\ (at = "close" /\ Calm => page \notin active)

-----------------------------------------------------------------------------
(* LinksCurrent.                                                           *)

Renewed == changed \cup reindex
Removed == deleted \cup purged
Final   == (listed \ Removed) \cup Renewed

(* Pages of phases 1 and 1b whose turn is still to come.                   *)
FirstPhase == at = "phase1" \/ (at \in Busy /\ page \in changed)
Source     == IF FirstPhase THEN changed ELSE reindex
Waiting    == queue \cup (IF FirstPhase THEN reindex ELSE {})

(* What the resolver knows is a page that will be active, and of every     *)
(* title some page, but for Outlived.                                      *)
Resolves ==
    /\ \A t \in Title : resolver[t] # None =>
          resolver[t] \in Final /\ TitleOf[resolver[t]] = t
    /\ \A q \in Final : resolver[TitleOf[q]] # None \/ Outlived(q)

Linked(p) == edges[p] = Resolve(resolver, file[p])
Referring == IssuePaths \ (Removed \cup Renewed)

Phased  == Busy \cup Loop
Settled == {"phase2"} \cup Over

EffectsApart == /\ Removed \cap Renewed = {} /\ changed \cap reindex = {}
                /\ \A p \in Renewed : file[p] # 0
Listed    == resolver = KnowledgeFirst(listed) /\ active = listed \ Removed
Complete  == Resolves /\ active \subseteq Final /\ listed \ Removed \subseteq active
InTurn    == /\ queue \subseteq Source /\ Referring \subseteq referrers
             /\ \A p \in Renewed \ Waiting : \/ p \in active /\ Linked(p)
                                             \/ at \in Persisting /\ p = page
AtPage    == /\ ver = file[page] /\ page \in Source \ Waiting
             /\ at # "upsert" => page \in active
             /\ at = "sources" => Linked(page)
Rewritten == /\ \A p \in Renewed : p \in active /\ Linked(p)
             /\ \A p \in Referring \cap PathToDocId :
                   p \in referrers \/ file[p] = 0 \/ Linked(p)

LinkInv ==
    Clean => /\ EffectsApart
             /\ at \in Ops => Listed
             /\ at \in Phased \cup Settled => Complete
             /\ at \in Phased => InTurn
             /\ at \in Persisting => AtPage
             /\ at \in Settled => Rewritten
             /\ at \in Over => referrers = {}

-----------------------------------------------------------------------------
(* ProposalAtomic.                                                         *)

Lone(n) == \A m \in 1..MaxProposals \ {n} : PathsOf(n) \cap PathsOf(m) = {}

Undisturbed == faults + cancels = 0 /\ theirs = [p \in Page |-> None]

(* The operations of a proposal have distinct paths, and a purge or a      *)
(* reconciliation stands alone; proposals come in order, and one that was  *)
(* flagged does nothing.                                                   *)
OrderInv ==
    /\ \A i, j \in DOMAIN ops : ops[i].prop = ops[j].prop =>
          /\ ops[i].path = ops[j].path => i = j
          /\ ops[i].kind \in {"purge_document", "reconcile_provenance"} => i = j
    /\ \A i \in DOMAIN ops : ops[i].prop <= ops[Len(ops)].prop
    /\ at \in {"probe", "purge"} => Current.kind = "purge_document"
    /\ at = "reconcile" => Current.kind = "reconcile_provenance"
    /\ at \in Ops \ {"op"} => Current.prop \notin flagged \cup {aborted}
    /\ \A i \in applied : i < next /\ ops[i].prop \notin flagged

(* How far a proposal has come: it was flagged, or given up before it did  *)
(* anything; or what it has come to is done, and the rest can be.          *)
Steady(n) ==
    \/ n \in flagged
    \/ OpsOf(n) \cap applied = {} /\ \A i \in OpsOf(n) : i < next
    \/ /\ n # aborted
       /\ \A i \in OpsOf(n) : /\ i < next => i \in applied
                              /\ i >= next => Ready(ops[i]) /\ ops[i].path \notin Touched

AtomInv ==
    /\ Undisturbed /\ at \in Ops =>
          \A n \in 1..MaxProposals : Lone(n) => Steady(n)
    /\ Undisturbed /\ at \notin Before \cup Ops =>
          \A n \in 1..MaxProposals : Lone(n) => AllOrNothing(n)

-----------------------------------------------------------------------------
(* The fixes.                                                              *)

(* A fix in itself: its operations are of one proposal and of distinct     *)
(* paths, and a purge or a reconciliation stands alone.                    *)
Shaped(s, n) ==
    /\ s \in Seq(Operation) /\ s # <<>>
    /\ \A i \in DOMAIN s : s[i].prop = n
    /\ \A i, j \in DOMAIN s :
          /\ s[i].path = s[j].path => i = j
          /\ s[i].kind \in {"purge_document", "reconcile_provenance"} => i = j

LEMMA FixesShaped ==
    ASSUME file \in [Page -> Content], NEW n \in 1..MaxProposals,
           NEW p \in Page, NEW k \in Kind, NEW s \in Fixes(n, p, k)
    PROVE  Shaped(s, n)
<1>1. DistinctPaths(s)
    BY DEF Fixes
<1>2. 0 \in Content /\ 1 \in Body /\ Body \subseteq Content
    BY PageAssumption DEF Content, Body
<1>3. \A q \in Page : Update(n, q) \in Operation /\ Remove(n, q) \in Operation
    <2> TAKE q \in Page
    <2>1. file[q] \in Nat /\ file[q] \in Content /\ MaxBody \in Nat \ {0}
        BY PageAssumption DEF Content
    <2>2. Other(file[q]) \in Body
        BY <2>1 DEF Other, Body
    <2> QED
        BY <1>2, <2>1, <2>2 DEF Update, Remove, Op, Operation, OpKind
<1>4. \A q \in Page, v \in Body : Create(n, q, v) \in Operation
    BY <1>2 DEF Create, Op, Operation, OpKind
<1>5. /\ Op(n, "purge_document", p, 0, 0) \in Operation
      /\ Op(n, "reindex_page", p, 0, 0) \in Operation
      /\ Op(n, "reconcile_provenance", p, file[p], 0) \in Operation
    BY <1>2 DEF Op, Operation, OpKind
<1>6. \/ \E o \in Operation : s = <<o>> /\ o.prop = n
      \/ \E o, u \in Operation :
             /\ s = <<o, u>> /\ o.prop = n /\ u.prop = n
             /\ {o.kind, u.kind} \subseteq {"create_page", "update_page", "delete_page"}
      \/ \E o, u, w \in Operation :
             /\ s = <<o, u, w>> /\ o.prop = n /\ u.prop = n /\ w.prop = n
             /\ {o.kind, u.kind, w.kind}
                  \subseteq {"create_page", "update_page", "delete_page"}
    <2>1. CASE k = "drift"
        <3>1. \/ s = <<Op(n, "purge_document", p, 0, 0)>>
              \/ s = <<Op(n, "reindex_page", p, 0, 0)>>
            BY <2>1 DEF Fixes, Drift, MissingFile, Reindex
        <3> QED
            BY <1>5, <3>1 DEF Op
    <2>2. CASE k = "broken_wikilink"
        <3>1. s = <<Update(n, p)>> \/ \E c \in Page, v \in Body : s = <<Create(n, c, v)>>
            BY <2>2 DEF Fixes, Relink, Ground
        <3> QED
            BY <1>3, <1>4, <3>1 DEF Update, Create, Op
    <2>3. CASE k = "non_atomic_page"
        <3>1. PICK c \in Page, d \in Page : s = <<Create(n, c, 1), Create(n, d, 1), Remove(n, p)>>
            BY <2>3 DEF Fixes, Split
        <3> QED
            BY <1>2, <1>3, <1>4, <3>1 DEF Create, Remove, Op
    <2>4. CASE k = "orphan_page"
        <3>1. \/ s = <<Remove(n, p)>>
              \/ \E q \in Page : s = <<Update(n, q), Remove(n, p)>>
              \/ \E q \in Page : s = <<Update(n, q)>>
            BY <2>4 DEF Fixes, Orphan, Stub, Merge, LinkFrom
        <3>2. \A q \in Page : /\ Update(n, q).prop = n /\ Update(n, q).kind = "update_page"
                              /\ Remove(n, q).prop = n /\ Remove(n, q).kind = "delete_page"
            BY DEF Update, Remove, Op
        <3> QED
            BY <1>3, <3>1, <3>2
    <2>5. CASE k = "provenance"
        <3>1. s = <<Op(n, "reconcile_provenance", p, file[p], 0)>>
            BY <2>5 DEF Fixes, Provenance
        <3> QED
            BY <1>5, <3>1 DEF Op
    <2> QED
        BY <2>1, <2>2, <2>3, <2>4, <2>5 DEF Kind
<1>7. s \in Seq(Operation) /\ s # <<>>
    <2>1. CASE \E o \in Operation : s = <<o>>
        BY <2>1
    <2>2. CASE \E o, u \in Operation : s = <<o, u>>
        BY <2>2
    <2>3. CASE \E o, u, w \in Operation : s = <<o, u, w>>
        BY <2>3
    <2> QED
        BY <1>6, <2>1, <2>2, <2>3
<1>8. /\ \A i \in DOMAIN s : s[i].prop = n
      /\ \A i, j \in DOMAIN s :
            s[i].kind \in {"purge_document", "reconcile_provenance"} => i = j
    BY <1>6
<1> QED
    BY <1>1, <1>7, <1>8 DEF Shaped, DistinctPaths

-----------------------------------------------------------------------------
(* A title index leads to a page of that title, and to some page whenever  *)
(* there is one.                                                           *)
LEMMA Titles ==
    ASSUME NEW ps \in SUBSET Page
    PROVE  /\ TitleIndex(ps) \in [Title -> Page \cup {None}]
           /\ \A t \in Title : TitleIndex(ps)[t] # None =>
                 TitleIndex(ps)[t] \in ps /\ TitleOf[TitleIndex(ps)[t]] = t
           /\ \A p \in ps : TitleIndex(ps)[TitleOf[p]] # None
<1>1. TitleOf \in [Page -> Title] /\ None \notin Page
    BY LintAssumption
<1>2. ASSUME NEW t \in Title, NEW q \in ps, TitleOf[q] = t
      PROVE  TitleIndex(ps)[t] \in ps /\ TitleOf[TitleIndex(ps)[t]] = t
    <2>1. TitleIndex(ps)[t] = CHOOSE p \in ps : TitleOf[p] = t
        BY <1>2 DEF TitleIndex
    <2> QED
        BY <2>1, <1>2
<1>3. ASSUME NEW t \in Title, ~\E q \in ps : TitleOf[q] = t
      PROVE  TitleIndex(ps)[t] = None
    BY <1>3 DEF TitleIndex
<1>4. TitleIndex(ps) \in [Title -> Page \cup {None}]
    <2>1. \A t \in Title : TitleIndex(ps)[t] \in Page \cup {None}
        BY <1>2, <1>3
    <2> QED
        BY <2>1 DEF TitleIndex
<1>5. \A p \in ps : TitleOf[p] \in Title
    BY <1>1
<1> QED
    BY <1>1, <1>2, <1>3, <1>4, <1>5

(* So does the resolver's start.                                           *)
LEMMA KnownTitles ==
    ASSUME NEW ps \in SUBSET Page
    PROVE  /\ KnowledgeFirst(ps) \in [Title -> Page \cup {None}]
           /\ \A t \in Title : KnowledgeFirst(ps)[t] # None =>
                 KnowledgeFirst(ps)[t] \in ps /\ TitleOf[KnowledgeFirst(ps)[t]] = t
           /\ \A p \in ps : KnowledgeFirst(ps)[TitleOf[p]] # None
<1>1. TitleOf \in [Page -> Title] /\ None \notin Page /\ ps \ Wisdom \in SUBSET Page
    BY LintAssumption
<1>2. /\ TitleIndex(ps) \in [Title -> Page \cup {None}]
      /\ \A t \in Title : TitleIndex(ps)[t] # None =>
            TitleIndex(ps)[t] \in ps /\ TitleOf[TitleIndex(ps)[t]] = t
      /\ \A p \in ps : TitleIndex(ps)[TitleOf[p]] # None
    BY Titles
<1>3. /\ TitleIndex(ps \ Wisdom) \in [Title -> Page \cup {None}]
      /\ \A t \in Title : TitleIndex(ps \ Wisdom)[t] # None =>
            /\ TitleIndex(ps \ Wisdom)[t] \in ps \ Wisdom
            /\ TitleOf[TitleIndex(ps \ Wisdom)[t]] = t
    BY <1>1, Titles
<1>4. \A t \in Title : KnowledgeFirst(ps)[t] = IF TitleIndex(ps \ Wisdom)[t] # None
                                               THEN TitleIndex(ps \ Wisdom)[t]
                                               ELSE TitleIndex(ps)[t]
    BY DEF KnowledgeFirst
<1>5. KnowledgeFirst(ps) \in [Title -> Page \cup {None}]
    BY <1>2, <1>3 DEF KnowledgeFirst
<1> QED
    BY <1>1, <1>2, <1>3, <1>4, <1>5

LEMMA ResolvesToPages ==
    ASSUME NEW r \in [Title -> Page \cup {None}], NEW v \in Content
    PROVE  Resolve(r, v) \in SUBSET Page
BY LintAssumption DEF Resolve

LEMMA SeededTyped ==
    ASSUME NEW r \in [Title -> Page \cup {None}], changed \in SUBSET Page,
           reindex \in SUBSET Page
    PROVE  Seeded(r) \in [Title -> Page \cup {None}]
<1> DEFINE shown == {p \in reindex : file[p] # 0}
<1>1. TitleIndex(changed) \in [Title -> Page \cup {None}]
    BY Titles
<1>2. shown \in SUBSET Page
    OBVIOUS
<1>3. TitleIndex(shown) \in [Title -> Page \cup {None}]
    BY <1>2, Titles
<1> QED
    BY <1>1, <1>3 DEF Seeded

(* Init is of the types and in the first stage; nothing has happened yet.  *)
LEMMA InitTyped == Init => TypeInv
<1> SUFFICES ASSUME Init PROVE TypeInv
    OBVIOUS
<1>1. 0 \in Content /\ Body \subseteq Content /\ MaxMishaps \in Nat /\ MaxProposals \in Nat
    BY PageAssumption, LintAssumption DEF Content, Body
<1>2. file \in [Page -> Content] /\ hash \in [Page -> Content]
    <2>1. file \in [Page -> Earlier] /\ hash \in [Page -> Earlier] /\ Earlier \subseteq Content
        BY LintAssumption DEF Init
    <2> QED
        BY <2>1
<1>3. active \in SUBSET Page
    BY DEF Init
<1>4. IndexTypeOK
    BY <1>2 DEF Init, IndexTypeOK
<1>5. TitleIndex(active) \in [Title -> Page \cup {None}]
    BY <1>3, Titles
<1>6. \A p \in Page : Resolve(TitleIndex(active), hash[p]) \in SUBSET Page
    BY <1>2, <1>5, ResolvesToPages
<1>7. edges \in [Page -> SUBSET Page]
    BY <1>6 DEF Init
<1>8. resolver \in [Title -> Page \cup {None}]
    BY Titles DEF Init
<1>9. /\ issues = {} /\ ops = <<>> /\ next = 1 /\ flagged = {} /\ aborted = 0 /\ listed = {}
      /\ changed = {} /\ deleted = {} /\ purged = {} /\ reindex = {} /\ queue = {}
      /\ page = None /\ ver = 0 /\ referrers = {} /\ applied = {} /\ begun = {}
      /\ late = {} /\ overtaken = FALSE /\ faults = 0 /\ cancels = 0 /\ edits = 0
      /\ at = "propose"
    BY DEF Init
<1>10. /\ theirs \in [Page -> Content \cup {None}] /\ trash \in [Page -> Content]
       /\ lost \subseteq Page
    BY <1>1 DEF Init
<1>11. ops \in Seq(Operation) /\ Len(ops) = 0 /\ DOMAIN ops = {}
    BY <1>9
<1>12. /\ at \in Before \cup Ops \cup Busy \cup Loop \cup {"phase2"} \cup Over
       /\ at \notin Ops /\ at \notin Busy
    BY <1>9 DEF Before, Ops, Busy, Persisting
<1>13. /\ changed \subseteq Page /\ deleted \subseteq Page /\ purged \subseteq Page
       /\ reindex \subseteq Page /\ queue \subseteq Page /\ referrers \subseteq Page
       /\ lost \subseteq Page /\ begun \subseteq Page
       /\ issues \subseteq Page \X Kind /\ listed \subseteq Page
       /\ applied \subseteq DOMAIN ops /\ flagged \subseteq 1..MaxProposals
       /\ late \subseteq [call : Persisting \cup {"purge"}, page : Page, ver : Content]
       /\ \A k \in late : k.call \in Persisting => k.ver # 0
    BY <1>9, <1>10
<1>14. /\ next \in 1..Len(ops) + 1 /\ aborted \in 0..MaxProposals
       /\ faults + cancels + edits \in 0..MaxMishaps
    BY <1>1, <1>9, <1>11
<1> QED
    BY <1>1, <1>4, <1>7, <1>8, <1>9, <1>10, <1>11, <1>12, <1>13, <1>14 DEF TypeInv

LEMMA InitInv ==
    ASSUME Init
    PROVE  StageInv /\ RowInv /\ EditInv /\ HalfInv /\ LinkInv /\ OrderInv /\ AtomInv
<1>1. StageInv /\ RowInv
    BY DEF Init, StageInv, RowInv, RowsKeepFiles, Touched, Before, Ops, Busy, Over, Persisting
<1>2. EditInv
    <2>1. None \notin Body
        BY PageAssumption, LintAssumption DEF Body, Content
    <2> QED
        BY <2>1 DEF Init, EditInv
<1>3. \A p \in Page : \A c \in Part : part[p][c] = hash[p]
    BY DEF Init
<1>4. HalfInv
    BY <1>3 DEF Init, HalfInv, Sound, Whole, Persisting, Part, Busy
<1>5. LinkInv
    BY DEF Init, LinkInv, EffectsApart, Removed, Renewed, Ops, Phased, Settled, Busy, Loop,
           Over, Persisting
<1>6. OrderInv /\ AtomInv
    <2>1. ops = <<>> /\ applied = {} /\ at = "propose"
        BY DEF Init
    <2>2. DOMAIN ops = {} /\ at \in Before /\ at \notin Ops
        BY <2>1 DEF Before, Ops
    <2> QED
        BY <2>1, <2>2 DEF OrderInv, AtomInv, Ops
<1> QED
    BY <1>1, <1>2, <1>4, <1>5, <1>6

-----------------------------------------------------------------------------
(* Types are kept.                                                         *)

(* A fix is put behind the others, as a proposal of its own.               *)
LEMMA Proposes ==
    ASSUME TypeInv, Propose
    PROVE  \E n \in 1..MaxProposals : \E s \in Seq(Operation) :
              /\ ops' = ops \o s /\ Shaped(s, n)
              /\ ops # <<>> => n = ops[Len(ops)].prop + 1
<1> DEFINE num == IF ops = <<>> THEN 1 ELSE ops[Len(ops)].prop + 1
<1>1. PICK p \in Page, k \in Kind : \E s \in Fixes(num, p, k) :
          ops' = ops \o s /\ num <= MaxProposals
    BY DEF Propose
<1>2. PICK s \in Fixes(num, p, k) : ops' = ops \o s /\ num <= MaxProposals
    BY <1>1
<1>3. ops \in Seq(Operation) /\ file \in [Page -> Content]
    BY DEF TypeInv, IndexTypeOK
<1>4. num \in 1..MaxProposals
    <2>1. CASE ops = <<>>
        BY <1>2, <2>1, LintAssumption
    <2>2. CASE ops # <<>>
        <3>1. ops[Len(ops)] \in Operation
            BY <1>3, <2>2
        <3>2. ops[Len(ops)].prop \in 1..MaxProposals
            BY <3>1 DEF Operation
        <3> QED
            BY <1>2, <2>2, <3>2, LintAssumption
    <2> QED
        BY <2>1, <2>2
<1>5. Shaped(s, num) /\ s \in Seq(Operation)
    BY <1>3, <1>4, FixesShaped DEF Shaped
<1> QED
    BY <1>2, <1>4, <1>5

LEMMA ProposeTyped ==
    ASSUME TypeInv, Propose
    PROVE  TypeInv'
<1>1. PICK s \in Seq(Operation) : ops' = ops \o s
    BY Proposes
<1>2. ops \in Seq(Operation)
    BY DEF TypeInv
<1>5. ops' \in Seq(Operation) /\ Len(ops') >= Len(ops) /\ DOMAIN ops \subseteq DOMAIN ops'
    BY <1>1, <1>2
<1>6. issues' \subseteq Page \X Kind
    <2>1. \E p \in Page, k \in Kind : issues' = issues \cup {<<p, k>>}
        BY DEF Propose
    <2> QED
        BY <2>1 DEF TypeInv
<1>7. UNCHANGED <<file, hash, active, part, edges, at, next, flagged, aborted, listed,
                  resolver, changed, deleted, purged, reindex, applied, queue, page, ver,
                  referrers, begun, theirs, trash, lost, late, overtaken, faults, cancels,
                  edits>>
    BY DEF Propose, index, effects, work, ghost, counts
<1>8. at = "propose"
    BY DEF Propose
<1>9. next' \in 1..Len(ops') + 1
    BY <1>2, <1>5, <1>7 DEF TypeInv
<1> QED
    BY <1>5, <1>6, <1>7, <1>8, <1>9 DEF TypeInv, IndexTypeOK, Exists, Ops, Busy, Persisting

(* The steps that neither write a file nor call the index.                 *)
LEMMA PlanTyped ==
    ASSUME TypeInv,
           \/ Proposed \/ Start \/ SkipOp \/ ReindexOp \/ AwaitOp \/ NoRowOp \/ Probe
           \/ Seed \/ Take \/ PhaseOver \/ Applied \/ Close \/ Raise \/ Cancel \/ Closed
    PROVE  TypeInv'
<1> USE DEF plan, effects, work, ghost, counts, index, Breaks, Applies, Advance
<1> DEFINE Kept == /\ UNCHANGED <<file, hash, active, part, edges, ops, issues, theirs,
                                  trash, lost, overtaken>>
           Plan == /\ listed' \subseteq Page /\ flagged' \subseteq 1..MaxProposals
                   /\ aborted' \in 0..MaxProposals
                   /\ resolver' \in [Title -> Page \cup {None}]
           Where == /\ next' \in 1..Len(ops) + 1 /\ applied' \subseteq DOMAIN ops
                    /\ at' \in Ops \ {"op"} => next' \in DOMAIN ops
                    /\ at' \in Before \cup Ops \cup Busy \cup Loop \cup {"phase2"} \cup Over
                    /\ at' \in Busy => page' \in Page /\ ver' # 0
                    /\ page' \in Page \cup {None} /\ ver' \in Content
           Sets == /\ changed' \subseteq Page /\ deleted' \subseteq Page
                   /\ purged' \subseteq Page /\ reindex' \subseteq Page
                   /\ queue' \subseteq Page /\ referrers' \subseteq Page
                   /\ begun' \subseteq Page
           Late == /\ late' \subseteq [call : Persisting \cup {"purge"}, page : Page,
                                       ver : Content]
                   /\ \A k \in late' : k.call \in Persisting => k.ver # 0
           Mishaps == /\ faults' \in Nat /\ cancels' \in Nat /\ edits' \in Nat
                      /\ faults' + cancels' + edits' \in 0..MaxMishaps
<1>1. /\ Len(ops) \in Nat /\ DOMAIN ops = 1..Len(ops) /\ MaxProposals \in Nat
      /\ MaxMishaps \in Nat
      /\ \A i \in DOMAIN ops : ops[i] \in Operation /\ ops[i].path \in Page
                               /\ ops[i].prop \in 1..MaxProposals
    BY LintAssumption DEF TypeInv, Operation
<1>2. ASSUME Kept, Plan, Where, Sets, Late, Mishaps
      PROVE  TypeInv'
    BY <1>2 DEF TypeInv, IndexTypeOK, Exists
<1>3. ASSUME UNCHANGED <<listed, flagged, aborted, resolver>>
      PROVE  Plan
    BY <1>3 DEF TypeInv
<1>4. ASSUME UNCHANGED <<changed, deleted, purged, reindex, queue, referrers, begun>>
      PROVE  Sets
    BY <1>4 DEF TypeInv
<1>5. (UNCHANGED late => Late) /\ (UNCHANGED <<faults, cancels, edits>> => Mishaps)
    BY DEF TypeInv
<1>6. ASSUME UNCHANGED <<next, applied, page, ver>>,
             at' \in {at} \cup Before \cup {"op"} \cup Loop \cup {"phase2"} \cup Over
      PROVE  Where
    <2>1. at' \in Busy => at \in Busy
        BY <1>6 DEF Busy, Before, Loop, Over, Persisting
    <2>2. at' \in Ops \ {"op"} => at \in Ops \ {"op"}
        BY <1>6 DEF Ops, Before, Loop, Over
    <2> QED
        BY <1>6, <2>1, <2>2 DEF TypeInv, Before, Ops
<1>7. at \in Ops \ {"op"} => Current \in Operation
    BY <1>1 DEF TypeInv, Current
<1> HIDE DEF Kept, Plan, Where, Sets, Late, Mishaps
<1>8. CASE Proposed
    <2>1. Kept
        BY <1>8 DEF Proposed, Kept
    <2>2. Plan /\ Sets /\ Late /\ Mishaps /\ Where
        BY <1>3, <1>4, <1>5, <1>6, <1>8 DEF Proposed, Before
    <2> QED
        BY <1>2, <2>1, <2>2
<1>9. CASE Start
    <2>1. Kept
        BY <1>9 DEF Start, Kept
    <2>2. Sets /\ Late /\ Mishaps /\ Where
        BY <1>4, <1>5, <1>6, <1>9 DEF Start
    <2>3. active \subseteq Page
        BY DEF TypeInv, IndexTypeOK
    <2>4. Plan
        <3>1. KnowledgeFirst(active) \in [Title -> Page \cup {None}]
            BY <2>3, KnownTitles
        <3>2. flagged' \subseteq 1..MaxProposals
            BY <1>1, <1>9 DEF Start
        <3>3. listed' = active /\ resolver' = KnowledgeFirst(active) /\ aborted' = aborted
            BY <1>9 DEF Start
        <3>4. aborted \in 0..MaxProposals
            BY DEF TypeInv
        <3> QED
            BY <2>3, <3>1, <3>2, <3>3, <3>4 DEF Plan
    <2> QED
        BY <1>2, <2>1, <2>2, <2>4
<1>10. CASE SkipOp
    <2>1. Kept
        BY <1>10 DEF SkipOp, Kept
    <2>2. Sets /\ Late /\ Mishaps
        BY <1>4, <1>5, <1>10 DEF SkipOp
    <2>3. next \in DOMAIN ops /\ next' = next + 1 /\ at' = "op"
          /\ UNCHANGED <<applied, page, ver>>
        BY <1>1, <1>10 DEF SkipOp, TypeInv
    <2>4. Where
        BY <1>1, <2>3 DEF Where, TypeInv, Ops, Busy, Persisting
    <2>5. Plan
        <3>1. /\ UNCHANGED <<listed, flagged, resolver>>
              /\ aborted' \in {aborted, Current.prop}
            BY <1>10 DEF SkipOp
        <3>2. Current.prop \in 1..MaxProposals
            BY <1>1, <2>3 DEF Current
        <3>3. aborted' \in 0..MaxProposals
            BY <1>1, <3>1, <3>2 DEF TypeInv
        <3> QED
            BY <3>1, <3>3 DEF Plan, TypeInv
    <2> QED
        BY <1>2, <2>1, <2>2, <2>4, <2>5
<1>11. CASE ReindexOp
    <2>1. Kept
        BY <1>11 DEF ReindexOp, Kept
    <2>2. Plan /\ Late /\ Mishaps
        BY <1>3, <1>5, <1>11 DEF ReindexOp
    <2>3. next \in DOMAIN ops /\ next' = next + 1 /\ at' = "op"
          /\ applied' = applied \cup {next} /\ UNCHANGED <<page, ver>>
        BY <1>1, <1>11 DEF ReindexOp, Turn, TypeInv
    <2>4. Where
        BY <1>1, <2>3 DEF Where, TypeInv, Ops, Busy, Persisting
    <2>5. Sets
        BY <1>1, <1>11, <2>3 DEF ReindexOp, Sets, Current, TypeInv
    <2> QED
        BY <1>2, <2>1, <2>2, <2>4, <2>5
<1>12. CASE AwaitOp \/ Probe
    <2>1. Kept
        BY <1>12 DEF AwaitOp, Probe, Kept
    <2>2. Plan /\ Sets /\ Late /\ Mishaps
        BY <1>3, <1>4, <1>5, <1>12 DEF AwaitOp, Probe
    <2>3. next \in DOMAIN ops /\ at' \in {"probe", "delete", "reconcile", "purge"}
          /\ UNCHANGED <<next, applied, page, ver>>
        BY <1>1, <1>12 DEF AwaitOp, Probe, Turn, TypeInv, Ops
    <2>4. Where
        BY <1>1, <2>3 DEF Where, TypeInv, Ops, Busy, Persisting
    <2> QED
        BY <1>2, <2>1, <2>2, <2>4
<1>13. CASE NoRowOp
    <2>1. Kept
        BY <1>13 DEF NoRowOp, Kept
    <2>2. Sets /\ Late /\ Mishaps
        BY <1>4, <1>5, <1>13 DEF NoRowOp
    <2>3. next \in DOMAIN ops /\ next' = next + 1 /\ at' = "op"
          /\ UNCHANGED <<applied, page, ver>>
        BY <1>1, <1>13 DEF NoRowOp, Turn, TypeInv, Ops
    <2>4. Where
        BY <1>1, <2>3 DEF Where, TypeInv, Ops, Busy, Persisting
    <2>5. Plan
        <3>1. /\ UNCHANGED <<listed, flagged, resolver>>
              /\ aborted' = Current.prop
            BY <1>13 DEF NoRowOp
        <3>2. Current.prop \in 1..MaxProposals
            BY <1>1, <2>3 DEF Current
        <3> QED
            BY <1>1, <3>1, <3>2 DEF Plan, TypeInv
    <2> QED
        BY <1>2, <2>1, <2>2, <2>4, <2>5
<1>14. CASE Seed
    <2>1. Kept
        BY <1>14 DEF Seed, Kept
    <2>2. Late /\ Mishaps /\ Where
        BY <1>5, <1>6, <1>14 DEF Seed, Loop
    <2>3. Seeded(resolver) \in [Title -> Page \cup {None}]
        BY SeededTyped DEF TypeInv
    <2>4. Plan
        BY <1>14, <2>3 DEF Seed, Plan, TypeInv
    <2>5. Sets
        BY <1>14 DEF Seed, Sets, IssuePaths, TypeInv
    <2> QED
        BY <1>2, <2>1, <2>2, <2>4, <2>5
<1>15. CASE Take
    <2>1. Kept
        BY <1>15 DEF Take, Kept
    <2>2. Plan /\ Late /\ Mishaps
        BY <1>3, <1>5, <1>15 DEF Take
    <2>3. First(queue) \in queue
        BY <1>15 DEF Take, First
    <2>4. /\ First(queue) \in Page /\ queue' \subseteq queue
          /\ page' = First(queue) /\ ver' = file[page'] /\ ver' \in Content
          /\ \/ file[page'] # 0 /\ at' = "upsert" /\ begun' = begun \cup {page'}
             \/ UNCHANGED <<at, begun>> /\ at \in Loop
          /\ UNCHANGED <<next, applied, changed, deleted, purged, reindex, referrers>>
        BY <1>15, <2>3 DEF Take, TypeInv, IndexTypeOK, Loop
    <2>5. Where
        BY <2>4 DEF Where, TypeInv, Ops, Busy, Loop, Persisting
    <2>6. Sets
        BY <2>4 DEF Sets, TypeInv
    <2> QED
        BY <1>2, <2>1, <2>2, <2>5, <2>6
<1>16. CASE PhaseOver
    <2>1. Kept
        BY <1>16 DEF PhaseOver, Kept
    <2>2. Plan /\ Late /\ Mishaps /\ Where
        BY <1>3, <1>5, <1>6, <1>16 DEF PhaseOver, Loop
    <2>3. Sets
        BY <1>16 DEF PhaseOver, Sets, TypeInv
    <2> QED
        BY <1>2, <2>1, <2>2, <2>3
<1>17. CASE Applied \/ Close \/ Closed
    <2>1. Kept
        BY <1>17 DEF Applied, Close, Closed, vars, Kept
    <2>2. Plan /\ Sets /\ Mishaps /\ Where
        BY <1>3, <1>4, <1>5, <1>6, <1>17 DEF Applied, Close, Closed, vars, Over
    <2>3. Late
        BY <1>5, <1>17 DEF Applied, Close, Closed, vars, Late
    <2> QED
        BY <1>2, <2>1, <2>2, <2>3
<1>18. CASE Raise
    <2>1. Kept
        BY <1>18 DEF Raise, Kept
    <2>2. Plan /\ Sets /\ Late
        BY <1>3, <1>4, <1>5, <1>18 DEF Raise
    <2>3. /\ UNCHANGED <<next, applied, page, ver>>
          /\ \/ at \in Busy /\ at' \in {"hide", "phase1", "phase1b"}
             \/ at' = "close"
        BY <1>18 DEF Raise, AfterError, Phase, Busy
    <2>4. Where
        BY <2>3 DEF Where, TypeInv, Ops, Busy, Loop, Over, Persisting
    <2>5. Mishaps
        BY <1>1, <1>18 DEF Raise, Mishap, Mishaps, TypeInv
    <2> QED
        BY <1>2, <2>1, <2>2, <2>4, <2>5
<1>19. CASE Cancel
    <2>1. Kept
        BY <1>19 DEF Cancel, Kept
    <2>2. Plan /\ Sets
        BY <1>3, <1>4, <1>19 DEF Cancel
    <2>3. /\ UNCHANGED <<next, applied, page, ver>>
          /\ \/ at \in Busy /\ at' = "abort"
             \/ at' = "close"
        BY <1>19 DEF Cancel, Busy
    <2>4. Where
        BY <2>3 DEF Where, TypeInv, Ops, Busy, Loop, Over, Persisting
    <2>5. Mishaps
        <3>1. faults' = faults /\ cancels' = cancels + 1 /\ edits' = edits
            BY <1>19 DEF Cancel
        <3>2. faults + cancels + edits < MaxMishaps
            BY <1>19 DEF Cancel, Mishap
        <3>3. faults \in Nat /\ cancels \in Nat /\ edits \in Nat /\ MaxMishaps \in Nat
            BY <1>1 DEF TypeInv
        <3> QED
            BY <3>1, <3>2, <3>3 DEF Mishaps
    <2>6. ASSUME at \in Persisting PROVE Late
        <3>1. late' = {[call |-> at, page |-> page, ver |-> ver]}
            BY <1>19, <2>6 DEF Cancel, Persisting
        <3>2. page \in Page /\ ver # 0 /\ ver \in Content
            BY <2>6 DEF TypeInv, Busy
        <3> QED
            BY <2>6, <3>1, <3>2 DEF Late
    <2>7. ASSUME at \in {"purge", "delete"} PROVE Late
        <3>1. late' = {[call |-> "purge", page |-> Current.path, ver |-> 0]}
            BY <1>19, <2>7 DEF Cancel, Persisting
        <3>2. Current.path \in Page /\ 0 \in Content /\ "purge" \notin Persisting
            BY <1>7, <2>7, PageAssumption DEF Operation, Ops, Content, Persisting
        <3> QED
            BY <3>1, <3>2 DEF Late
    <2>8. ASSUME at \notin Persisting \cup {"purge", "delete"} PROVE Late
        BY <1>5, <1>19, <2>8 DEF Cancel
    <2> QED
        BY <1>2, <2>1, <2>2, <2>4, <2>5, <2>6, <2>7, <2>8
<1> QED
    BY <1>8, <1>9, <1>10, <1>11, <1>12, <1>13, <1>14, <1>15, <1>16, <1>17, <1>18, <1>19

(* The steps that write a file and leave the index alone.                  *)
LEMMA FileTyped ==
    ASSUME TypeInv, WriteOp \/ Edit
    PROVE  TypeInv'
<1> USE DEF plan, effects, work, ghost, counts, index, Breaks, Applies, Advance
<1>1. /\ DOMAIN ops = 1..Len(ops) /\ Len(ops) \in Nat /\ MaxProposals \in Nat
      /\ MaxMishaps \in Nat
      /\ \A i \in DOMAIN ops : ops[i] \in Operation
    BY LintAssumption DEF TypeInv
<1>2. CASE WriteOp
    <2>1. /\ next \in DOMAIN ops /\ next' = next + 1 /\ at' = "op"
          /\ Current.kind \in {"create_page", "update_page"}
          /\ applied' \subseteq applied \cup {next} /\ aborted' \in {aborted, Current.prop}
          /\ changed' \subseteq changed \cup {Current.path}
          /\ file' = file \/ file' = [file EXCEPT ![Current.path] = Current.body]
        BY <1>1, <1>2 DEF WriteOp, Turn, TypeInv
    <2>2. /\ Current \in Operation /\ Current.path \in Page /\ Current.body \in Content
          /\ Current.prop \in 1..MaxProposals
        BY <1>1, <2>1 DEF Current, Operation
    <2>3. UNCHANGED <<hash, active, part, edges, ops, issues, listed, flagged, resolver,
                      deleted, purged, reindex, queue, page, ver, referrers, begun, theirs,
                      trash, lost, late, overtaken>>
        BY <1>2 DEF WriteOp
    <2>4. /\ faults' \in Nat /\ cancels' \in Nat /\ edits' \in Nat
          /\ faults' + cancels' + edits' \in 0..MaxMishaps
        <3>1. \/ UNCHANGED <<faults, cancels, edits>>
              \/ Mishap /\ faults' = faults + 1 /\ UNCHANGED <<cancels, edits>>
            BY <1>2 DEF WriteOp
        <3> QED
            BY <1>1, <3>1 DEF Mishap, TypeInv
    <2>5. IndexTypeOK'
        BY <2>1, <2>2, <2>3 DEF TypeInv, IndexTypeOK, Exists
    <2>6. /\ next' \in 1..Len(ops) + 1 /\ applied' \subseteq DOMAIN ops
          /\ aborted' \in 0..MaxProposals /\ changed' \subseteq Page
          /\ at' \notin Busy /\ at' \notin Ops \ {"op"} /\ at' \in Ops
        BY <1>1, <2>1, <2>2 DEF TypeInv, Busy, Ops, Persisting
    <2> QED
        BY <2>3, <2>4, <2>5, <2>6 DEF TypeInv
<1>3. CASE Edit
    <2>1. PICK p \in Page, v \in Content :
              /\ file' = [file EXCEPT ![p] = v] /\ theirs' = [theirs EXCEPT ![p] = v]
              /\ lost' = IF v = 0 THEN lost \cup {p} ELSE lost
        BY <1>3 DEF Edit
    <2>2. UNCHANGED <<hash, active, part, edges, at, ops, issues, listed, flagged, next,
                      aborted, resolver, changed, deleted, purged, reindex, applied, queue,
                      page, ver, referrers, begun, trash, late, overtaken, faults, cancels>>
        BY <1>3 DEF Edit
    <2>3. edits' \in Nat /\ faults' + cancels' + edits' \in 0..MaxMishaps
        BY <1>1, <1>3 DEF Edit, Mishap, TypeInv
    <2>4. IndexTypeOK'
        BY <2>1, <2>2 DEF TypeInv, IndexTypeOK, Exists
    <2>5. theirs' \in [Page -> Content \cup {None}] /\ lost' \subseteq Page
        BY <2>1 DEF TypeInv
    <2> QED
        BY <2>2, <2>3, <2>4, <2>5 DEF TypeInv
<1> QED
    BY <1>2, <1>3

(* The steps that call the index.                                          *)
LEMMA CallTyped ==
    ASSUME TypeInv, NEW c \in Writing, NEW p \in Page, NEW v \in Content,
           Execute(c, p, v), c = "upsert" => v # 0, file' = file
    PROVE  IndexTypeOK'
BY IndexTyped DEF TypeInv

LEMMA OperationTyped ==
    ASSUME TypeInv, Purge \/ DeleteOp \/ ReconcileOp
    PROVE  TypeInv'
<1> USE DEF plan, effects, work, ghost, counts, index, Breaks, Applies, Advance
<1>1. /\ DOMAIN ops = 1..Len(ops) /\ Len(ops) \in Nat /\ MaxProposals \in Nat
      /\ MaxMishaps \in Nat /\ 0 \in Content
      /\ next \in DOMAIN ops /\ Current \in Operation
    BY LintAssumption, PageAssumption
    DEF TypeInv, Purge, DeleteOp, ReconcileOp, Ops, Current, Content
<1>2. /\ Current.path \in Page /\ Current.expect \in Content
      /\ Current.prop \in 1..MaxProposals
    BY <1>1 DEF Operation
<1>3. /\ next' = next + 1 /\ at' = "op"
      /\ applied' \subseteq applied \cup {next} /\ aborted' \in {aborted, Current.prop}
      /\ deleted' \subseteq deleted \cup {Current.path}
      /\ purged' \subseteq purged \cup {Current.path}
      /\ UNCHANGED <<ops, issues, listed, flagged, resolver, changed, reindex, queue, page,
                     ver, referrers, begun, theirs, lost, late, overtaken>>
    BY DEF Purge, DeleteOp, ReconcileOp
<1>4. /\ faults' \in Nat /\ cancels' \in Nat /\ edits' \in Nat
      /\ faults' + cancels' + edits' \in 0..MaxMishaps
    <2>1. /\ cancels' = cancels /\ edits' = edits
          /\ \/ faults' = faults
             \/ faults' = faults + 1 /\ faults + cancels + edits < MaxMishaps
        BY DEF Purge, DeleteOp, ReconcileOp, Mishap
    <2> QED
        BY <1>1, <2>1 DEF TypeInv
<1>5. edges' \in [Page -> SUBSET Page] /\ trash' \in [Page -> Content]
    BY <1>2 DEF Purge, DeleteOp, ReconcileOp, TypeInv, IndexTypeOK
<1>6. IndexTypeOK'
    <2>1. CASE Purge
        BY <1>1, <1>2, <2>1, CallTyped DEF Purge, Writing
    <2>2. CASE ReconcileOp
        BY <1>2, <2>2, CallTyped DEF ReconcileOp, Writing, Persisting
    <2>3. CASE DeleteOp
        <3>1. file' \in [Page -> Content]
            BY <1>1, <2>3 DEF DeleteOp, TypeInv, IndexTypeOK
        <3>2. CASE Execute("purge", Current.path, 0)
            <4>1. /\ hash' \in [Page -> Content] /\ part' \in [Page -> [Part -> Content]]
                  /\ active' \subseteq active /\ Current.path \notin active'
                  /\ \A q \in Page \ {Current.path} : hash'[q] = hash[q]
                <5>1. IndexTypeOK /\ "purge" \in Writing /\ "purge" # "upsert"
                    BY DEF TypeInv, Writing
                <5> QED
                    BY <1>1, <1>2, <3>2, <5>1, Effects
            <4> QED
                BY <3>1, <4>1 DEF TypeInv, IndexTypeOK, Exists
        <3>3. CASE UNCHANGED index
            BY <3>1, <3>3 DEF TypeInv, IndexTypeOK, Exists
        <3> QED
            BY <2>3, <3>2, <3>3 DEF DeleteOp
    <2> QED
        BY <2>1, <2>2, <2>3
<1>7. /\ next' \in 1..Len(ops) + 1 /\ applied' \subseteq DOMAIN ops
      /\ aborted' \in 0..MaxProposals /\ deleted' \subseteq Page /\ purged' \subseteq Page
      /\ at' \notin Busy /\ at' \notin Ops \ {"op"} /\ at' \in Ops
    BY <1>1, <1>2, <1>3 DEF TypeInv, Busy, Ops, Persisting
<1> QED
    BY <1>3, <1>4, <1>5, <1>6, <1>7 DEF TypeInv

LEMMA PhaseTyped ==
    ASSUME TypeInv, Persist \/ Hide \/ Referrer \/ LateLands
    PROVE  TypeInv'
<1> USE DEF plan, effects, work, ghost, counts, index
<1>1. /\ UNCHANGED <<file, ops, issues, listed, flagged, next, aborted, resolver, changed,
                     deleted, purged, reindex, applied, queue, page, ver, begun, theirs,
                     trash, lost, faults, cancels, edits>>
      /\ referrers' \subseteq referrers /\ late' \subseteq late /\ overtaken' \in BOOLEAN
    BY DEF Persist, Hide, Referrer, LateLands, TypeInv
<1>2. 0 \in Content /\ \A p \in Page : file[p] \in Content
    BY PageAssumption DEF Content, TypeInv, IndexTypeOK
<1>3. \A v \in Content : Resolve(resolver, v) \in SUBSET Page
    BY ResolvesToPages DEF TypeInv
<1>4. IndexTypeOK' /\ edges' \in [Page -> SUBSET Page]
    <2>1. CASE Persist
        <3>1. page \in Page /\ ver # 0 /\ ver \in Content /\ at \in Writing
            BY <2>1 DEF Persist, TypeInv, Busy, Writing
        <3> QED
            BY <1>1, <1>3, <2>1, <3>1, CallTyped DEF Persist, TypeInv
    <2>2. CASE Hide
        <3>1. page \in Page /\ "hide" \in Writing
            BY <2>2 DEF Hide, TypeInv, Busy, Writing
        <3> QED
            BY <1>1, <1>2, <2>2, <3>1, CallTyped DEF Hide, TypeInv
    <2>3. CASE Referrer
        <3>1. First(referrers) \in Page
            BY <2>3 DEF Referrer, First, TypeInv
        <3>2. "links" \in Writing
            BY DEF Writing, Persisting
        <3>3. CASE UNCHANGED <<index, edges>>
            BY <1>1, <3>3 DEF TypeInv, IndexTypeOK, Exists
        <3>4. CASE /\ Execute("links", First(referrers), file[First(referrers)])
                   /\ edges' = [edges EXCEPT ![First(referrers)] =
                                    Resolve(resolver, file[First(referrers)])]
            BY <1>1, <1>2, <1>3, <3>1, <3>2, <3>4, CallTyped DEF TypeInv
        <3> QED
            BY <2>3, <3>3, <3>4 DEF Referrer
    <2>4. CASE LateLands
        <3>1. PICK k \in late :
                  /\ \/ Execute(k.call, k.page, k.ver)
                     \/ UNCHANGED index
                  /\ edges' = CASE k.call = "links" ->
                                     [edges EXCEPT ![k.page] = Resolve(resolver, k.ver)]
                                [] k.call = "purge" -> [edges EXCEPT ![k.page] = {}]
                                [] OTHER            -> edges
            BY <2>4 DEF LateLands
        <3>2. /\ k.page \in Page /\ k.ver \in Content /\ k.call \in Writing
              /\ k.call = "upsert" => k.ver # 0
            BY DEF TypeInv, Writing, Persisting
        <3>3. edges' \in [Page -> SUBSET Page]
            BY <1>3, <3>1, <3>2 DEF TypeInv
        <3>4. CASE UNCHANGED index
            BY <1>1, <3>3, <3>4 DEF TypeInv, IndexTypeOK, Exists
        <3> QED
            BY <1>1, <3>1, <3>2, <3>3, <3>4, CallTyped
    <2> QED
        BY <2>1, <2>2, <2>3, <2>4
<1>5. /\ at' \in Before \cup Ops \cup Busy \cup Loop \cup {"phase2"} \cup Over
      /\ at' \notin Ops \/ at' = at
      /\ at' \in Busy => at \in Busy
    BY DEF Persist, Hide, Referrer, LateLands, AfterPersist, Phase, Persisting, TypeInv, Busy,
           Loop, Over, Ops, Before
<1> QED
    BY <1>1, <1>4, <1>5 DEF TypeInv

LEMMA OtherTyped ==
    ASSUME TypeInv, OtherTask
    PROVE  TypeInv'
<1>1. PICK p \in Page, v \in Content, up \in BOOLEAN :
          /\ v = 0 => up
          /\ file'   = [file EXCEPT ![p] = v]
          /\ hash'   = [hash EXCEPT ![p] = v]
          /\ active' = IF v # 0 /\ up THEN active \cup {p} ELSE active \ {p}
          /\ part'   = [part EXCEPT ![p] = [c \in Part |-> v]]
          /\ edges'  = [edges EXCEPT ![p] = Resolve(TitleIndex(active), v)]
          /\ theirs' = [theirs EXCEPT ![p] = None]
    BY DEF OtherTask
<1>2. /\ UNCHANGED <<ops, issues, listed, flagged, next, aborted, resolver, changed, deleted,
                     purged, reindex, applied, queue, page, ver, referrers, begun, trash,
                     lost, late, overtaken, faults, cancels, at>>
      /\ at = "waiting"
    BY DEF OtherTask, plan, effects, work
<1>3. MaxMishaps \in Nat
    BY LintAssumption
<1>4. edits' \in Nat /\ faults' + cancels' + edits' \in 0..MaxMishaps
    BY <1>3 DEF OtherTask, Mishap, TypeInv
<1>5. IndexTypeOK'
    BY <1>1 DEF TypeInv, IndexTypeOK, Exists
<1>6. edges' \in [Page -> SUBSET Page] /\ theirs' \in [Page -> Content \cup {None}]
    <2>1. active \in SUBSET Page
        BY DEF TypeInv, IndexTypeOK
    <2>2. Resolve(TitleIndex(active), v) \in SUBSET Page
        BY <2>1, Titles, ResolvesToPages
    <2> QED
        BY <1>1, <2>2 DEF TypeInv
<1> QED
    BY <1>2, <1>4, <1>5, <1>6 DEF TypeInv, Busy, Ops, Persisting

LEMMA TypesKept == TypeInv /\ [Next]_vars => TypeInv'
<1> SUFFICES ASSUME TypeInv, [Next]_vars PROVE TypeInv'
    OBVIOUS
<1>1. CASE UNCHANGED vars
    BY <1>1 DEF vars, TypeInv, IndexTypeOK, Exists, Current, plan, effects, work, ghost,
                counts, index
<1> QED
    BY <1>1, ProposeTyped, PlanTyped, FileTyped, OperationTyped, PhaseTyped, OtherTyped
    DEF Next

-----------------------------------------------------------------------------
(* The stages follow one another.                                          *)
LEMMA StagesKept ==
    ASSUME TypeInv, StageInv, [Next]_vars
    PROVE  StageInv'
<1> USE DEF plan, effects, work, ghost, counts, index, Breaks, Applies, Advance, Touched,
            Before, Ops, Over
<1>1. CASE UNCHANGED vars
    BY <1>1 DEF vars, StageInv, Current
<1>2. CASE Propose \/ Proposed
    BY <1>2 DEF Propose, Proposed, StageInv, Busy, Persisting
<1>3. CASE Start
    BY <1>3 DEF Start, StageInv, Busy, Persisting
<1>4. CASE SkipOp \/ NoRowOp \/ ReindexOp \/ WriteOp
    <2>1. /\ at \in Ops /\ at' = "op"
          /\ UNCHANGED <<active, listed, begun, queue, referrers, late>>
          /\ changed \subseteq changed' /\ reindex \subseteq reindex'
        BY <1>4 DEF SkipOp, NoRowOp, ReindexOp, WriteOp, Turn
    <2> QED
        BY <2>1 DEF StageInv, Busy, Persisting
<1>5. CASE AwaitOp \/ Probe
    <2>1. /\ at \in Ops /\ at' \in Ops /\ Current.path \notin Touched
          /\ at' = "delete" => Current.path \notin Wisdom
          /\ UNCHANGED <<active, listed, begun, queue, referrers, late, ops, next, changed,
                         reindex, deleted, purged>>
        BY <1>5 DEF AwaitOp, Probe, Turn, StageInv, Ready, Sandboxed
    <2> QED
        BY <2>1 DEF StageInv, Busy, Persisting, Current
<1>6. CASE Purge \/ DeleteOp \/ ReconcileOp
    <2>1. /\ at \in Ops /\ at' = "op"
          /\ UNCHANGED <<listed, begun, queue, referrers, late, changed, reindex>>
        BY <1>6 DEF Purge, DeleteOp, ReconcileOp
    <2>2. active' \subseteq active
        BY <1>6 DEF Purge, DeleteOp, ReconcileOp, Execute
    <2> QED
        BY <2>1, <2>2 DEF StageInv, Busy, Persisting
<1>7. CASE Seed
    BY <1>7 DEF Seed, StageInv, Busy, Persisting
<1>8. CASE Take
    <2>1. First(queue) \in queue
        BY <1>8 DEF Take, First
    <2>2. /\ queue' \subseteq queue /\ at \in {"phase1", "phase1b"}
          /\ \/ at' = "upsert" /\ begun' = begun \cup {page'} /\ page' \in queue
             \/ UNCHANGED <<at, begun>>
          /\ UNCHANGED <<late, referrers, changed, reindex, deleted, purged>>
        BY <1>8, <2>1 DEF Take
    <2> QED
        BY <2>2 DEF StageInv, Busy, Persisting
<1>9. CASE PhaseOver \/ Applied \/ Referrer
    <2>1. /\ at \in {"phase1", "phase1b", "phase2"}
          /\ at' \in {"phase1b", "phase2", "close"}
          /\ queue' \in {queue, reindex} /\ referrers' \subseteq referrers
          /\ UNCHANGED <<late, begun, changed, reindex, deleted, purged>>
        BY <1>9 DEF PhaseOver, Applied, Referrer
    <2> QED
        BY <2>1 DEF StageInv, Busy, Persisting
<1>10. CASE Persist \/ Hide
    <2>1. /\ at \in Busy /\ at' \in Persisting \cup {"phase1", "phase1b", "close"}
          /\ at = "abort" => at' = "close"
          /\ UNCHANGED <<queue, referrers, late, begun, page, changed, reindex, deleted,
                         purged, cancels>>
        BY <1>10 DEF Persist, Hide, AfterPersist, Phase, Busy, Persisting
    <2> QED
        BY <2>1 DEF StageInv, Busy, Persisting
<1>11. CASE Close
    BY <1>11 DEF Close, StageInv, Busy, Persisting
<1>12. CASE Raise
    <2>1. /\ UNCHANGED <<queue, referrers, late, begun, page, changed, reindex, deleted,
                         purged, cancels>>
          /\ faults' > 0
          /\ \/ at' = "close"
             \/ at \in Persisting /\ at' = "hide"
             \/ at = "hide" /\ at' \in {"phase1", "phase1b"}
        BY <1>12 DEF Raise, AfterError, Phase, TypeInv
    <2> QED
        BY <2>1 DEF StageInv, Busy, Persisting
<1>13. CASE Cancel
    <2>1. /\ UNCHANGED <<queue, referrers, begun, page, changed, reindex, deleted, purged>>
          /\ cancels' > 0
          /\ \/ at' = "close"
             \/ at \in Persisting /\ at' = "abort"
        BY <1>13 DEF Cancel, TypeInv
    <2> QED
        BY <2>1 DEF StageInv, Busy, Persisting
<1>14. CASE LateLands
    <2>1. /\ UNCHANGED <<at, queue, referrers, begun, page, changed, reindex, deleted, purged,
                         cancels, faults>>
          /\ late # {}
        BY <1>14 DEF LateLands
    <2> QED
        BY <2>1 DEF StageInv, Busy, Persisting
<1>15. CASE Edit \/ OtherTask
    <2>1. /\ UNCHANGED <<at, queue, referrers, begun, page, changed, reindex, deleted, purged,
                         cancels, faults, late, listed, ops, next, aborted, applied>>
          /\ UNCHANGED active \/ at = "waiting"
        BY <1>15 DEF Edit, OtherTask
    <2> QED
        BY <2>1 DEF StageInv, Busy, Persisting, Current
<1> QED
    BY <1>1, <1>2, <1>3, <1>4, <1>5, <1>6, <1>7, <1>8, <1>9, <1>10, <1>11, <1>12, <1>13,
       <1>14, <1>15 DEF Next, Closed

-----------------------------------------------------------------------------
(* Rows keep their files.                                                  *)
LEMMA RowsKept ==
    ASSUME TypeInv, StageInv, RowInv, [Next]_vars
    PROVE  RowInv'
<1> USE DEF plan, effects, work, ghost, counts, index, Breaks, Applies, Advance
<1>1. active \subseteq Page /\ file \in [Page -> Content] /\ lost \subseteq Page
    BY DEF TypeInv, IndexTypeOK
(* The files and the rows stay as they are.                                *)
<1>2. ASSUME UNCHANGED <<file, active, lost>>,
             \A k \in late' : k.call = "upsert" => k \in late \/ Backed(k.page),
             at' = "upsert" => Backed(page')
      PROVE  RowInv'
    BY <1>2 DEF RowInv, RowsKeepFiles, Backed
<1>3. CASE \/ UNCHANGED vars \/ Propose \/ Proposed \/ Start \/ SkipOp \/ ReindexOp \/ AwaitOp
           \/ NoRowOp \/ Probe \/ Seed \/ PhaseOver \/ Applied \/ Close \/ Closed \/ Raise
    <2>1. /\ UNCHANGED <<file, active, lost>> /\ late' \subseteq late
          /\ at' = "upsert" => at = "upsert" /\ page' = page
        BY <1>3 DEF Propose, Proposed, Start, SkipOp, ReindexOp, AwaitOp, NoRowOp, Probe,
                    Seed, PhaseOver, Applied, Close, Closed, Raise, AfterError, Phase, vars
    <2> QED
        BY <1>2, <2>1 DEF RowInv
<1>4. CASE Take
    <2>1. /\ UNCHANGED <<file, active, lost, late>>
          /\ at' = "upsert" => file[page'] # 0
        BY <1>4 DEF Take
    <2> QED
        BY <1>2, <2>1 DEF Backed
<1>5. CASE Cancel
    <2>1. /\ UNCHANGED <<file, active, lost>> /\ at' # "upsert"
          /\ \A k \in late' : k \in late \/ (k.page = page /\ k.call = at) \/ k.call = "purge"
        BY <1>5 DEF Cancel, Persisting
    <2> QED
        BY <1>2, <2>1 DEF RowInv
<1>6. CASE WriteOp
    <2>1. /\ UNCHANGED <<active, lost, late>> /\ at' = "op"
          /\ \/ UNCHANGED file
             \/ file' = [file EXCEPT ![Current.path] = Current.body] /\ Current.body # 0
        <3>1. /\ Current \in Operation /\ Current.kind \in {"create_page", "update_page"}
            BY <1>6 DEF WriteOp, Turn, TypeInv, Current
        <3>2. Current.body # 0
            BY <3>1, PageAssumption DEF Operation, Body
        <3> QED
            BY <1>6, <3>2 DEF WriteOp
    <2>2. late = {}
        BY <1>6 DEF WriteOp, Turn, StageInv
    <2> QED
        BY <1>1, <2>1, <2>2 DEF RowInv, RowsKeepFiles
<1>7. CASE Purge \/ ReconcileOp \/ Hide
    <2>1. /\ UNCHANGED <<file, lost, late>> /\ active' \subseteq active
          /\ at' # "upsert"
        BY <1>7 DEF Purge, ReconcileOp, Hide, Execute, Phase
    <2> QED
        BY <2>1 DEF RowInv, RowsKeepFiles, Backed
<1>8. CASE DeleteOp
    <2>1. /\ UNCHANGED <<lost, late>> /\ at' = "op" /\ late = {}
          /\ \/ UNCHANGED file \/ file' = [file EXCEPT ![Current.path] = 0]
        BY <1>8 DEF DeleteOp, StageInv
    <2>2. active' \subseteq active /\ Current.path \notin active'
        <3>1. active \subseteq listed /\ Current.path \notin Wisdom
            BY <1>8 DEF DeleteOp, StageInv, Ops
        <3>2. CASE Current.path \in PathToDocId
            BY <1>8, <3>2 DEF DeleteOp, Execute
        <3>3. CASE Current.path \notin PathToDocId
            BY <1>8, <3>1, <3>3 DEF DeleteOp, PathToDocId
        <3> QED
            BY <3>2, <3>3
    <2> QED
        BY <1>1, <2>1, <2>2 DEF RowInv, RowsKeepFiles
<1>9. CASE Persist
    <2>1. /\ UNCHANGED <<file, lost, late>> /\ at' # "upsert"
          /\ active' = IF at = "upsert" THEN active \cup {page} ELSE active
        BY <1>9 DEF Persist, Execute, AfterPersist, Phase, Persisting
    <2> QED
        BY <2>1 DEF RowInv, RowsKeepFiles, Backed
<1>10. CASE Referrer
    <2>1. UNCHANGED <<file, active, lost, late>> /\ at' # "upsert"
        BY <1>10 DEF Referrer, Execute
    <2> QED
        BY <1>2, <2>1
<1>11. CASE LateLands
    <2>1. PICK k \in late :
              /\ late' = late \ {k}
              /\ Execute(k.call, k.page, k.ver) \/ UNCHANGED index
        BY <1>11 DEF LateLands
    <2>2. /\ UNCHANGED <<file, lost, at, page>>
          /\ active' \subseteq active \/ (k.call = "upsert" /\ active' = active \cup {k.page})
        BY <1>11, <2>1 DEF LateLands, Execute
    <2> QED
        BY <2>1, <2>2 DEF RowInv, RowsKeepFiles, Backed
<1>12. CASE Edit
    <2>1. PICK p \in Page, v \in Content :
              /\ file' = [file EXCEPT ![p] = v]
              /\ lost' = IF v = 0 THEN lost \cup {p} ELSE lost
        BY <1>12 DEF Edit
    <2>2. UNCHANGED <<active, at, page, late>>
        BY <1>12 DEF Edit
    <2>3. \A q \in Page : Backed(q) => Backed(q)'
        BY <1>1, <2>1 DEF Backed
    <2>4. /\ \A k \in late : k.page \in Page
          /\ at = "upsert" => page \in Page
        BY DEF TypeInv, Busy, Persisting
    <2> QED
        BY <1>1, <2>1, <2>2, <2>3, <2>4 DEF RowInv, RowsKeepFiles, Backed
<1>13. CASE OtherTask
    <2>1. PICK p \in Page, v \in Content :
              /\ file' = [file EXCEPT ![p] = v]
              /\ active' = active \ {p} \/ (v # 0 /\ active' = active \cup {p})
        BY <1>13 DEF OtherTask
    <2>2. UNCHANGED <<lost, at, page, late>> /\ at = "waiting"
        BY <1>13 DEF OtherTask
    <2>3. late = {}
        BY <2>2 DEF StageInv
    <2> QED
        BY <1>1, <2>1, <2>2, <2>3 DEF RowInv, RowsKeepFiles
<1> QED
    BY <1>3, <1>4, <1>5, <1>6, <1>7, <1>8, <1>9, <1>10, <1>11, <1>12, <1>13 DEF Next

-----------------------------------------------------------------------------
(* Edits survive.                                                          *)
LEMMA EditsKept ==
    ASSUME TypeInv, StageInv, EditInv, [Next]_vars
    PROVE  EditInv'
<1> USE DEF plan, effects, work, ghost, counts, index, Breaks, Applies, Advance
<1>1. /\ file \in [Page -> Content] /\ trash \in [Page -> Content]
      /\ theirs \in [Page -> Content \cup {None}] /\ 0 \notin Body /\ None \notin Body
    BY PageAssumption, LintAssumption DEF TypeInv, IndexTypeOK, Body, Content
(* Nobody writes.                                                          *)
<1>2. ASSUME UNCHANGED <<file, theirs, trash, ops, deleted>> PROVE EditInv'
    BY <1>2 DEF EditInv, Origins
<1>3. CASE Propose
    <2>1. PICK s \in Seq(Operation) : ops' = ops \o s
        BY <1>3, Proposes
    <2>2. ops \in Seq(Operation)
        BY DEF TypeInv
    <2>3. \A i \in DOMAIN ops : i \in DOMAIN ops' /\ ops'[i] = ops[i]
        BY <2>1, <2>2
    <2>4. \A p \in Page : Origins(p) \subseteq Origins(p)'
        BY <2>3 DEF Origins
    <2> QED
        BY <1>3, <2>4 DEF EditInv, Propose
<1>4. CASE WriteOp
    <2>1. UNCHANGED <<theirs, trash, ops, deleted>>
        BY <1>4 DEF WriteOp
    <2>2. /\ next \in DOMAIN ops /\ Current.path \notin deleted /\ Current \in Operation
          /\ Current.kind \in {"create_page", "update_page"} /\ Ready(Current)
        <3>1. /\ next <= Len(ops) /\ Current.path \notin Touched /\ Ready(Current)
              /\ Current.kind \in {"create_page", "update_page"}
            BY <1>4 DEF WriteOp, Turn
        <3>2. next \in DOMAIN ops
            BY <3>1 DEF TypeInv
        <3> QED
            BY <3>1, <3>2 DEF Touched, TypeInv, Current
    <2>3. file[Current.path] = 0 \/ file[Current.path] = Current.expect
        BY <2>2 DEF Ready
    <2>4. file[Current.path] \in Body => file[Current.path] \in Origins(Current.path)
        BY <1>1, <2>2, <2>3 DEF Origins, Current
    <2>5. \/ UNCHANGED file
          \/ file' = [file EXCEPT ![Current.path] = Current.body]
        BY <1>4 DEF WriteOp
    <2>6. ASSUME NEW p \in Page
          PROVE  /\ Origins(p)' = Origins(p)
                 /\ file'[p] = file[p] \/ p = Current.path
        BY <1>1, <2>1, <2>5 DEF Origins
    <2> QED
        BY <2>1, <2>2, <2>4, <2>6 DEF EditInv
<1>5. CASE DeleteOp
    <2>1. UNCHANGED <<theirs, ops>>
        BY <1>5 DEF DeleteOp
    <2>2. Current.path \notin deleted
        BY <1>5 DEF DeleteOp, StageInv, Ops, Touched
    <2>3. \/ UNCHANGED <<file, trash, deleted>>
          \/ /\ file' = [file EXCEPT ![Current.path] = 0]
             /\ trash' = [trash EXCEPT ![Current.path] = file[Current.path]]
             /\ deleted' = deleted \cup {Current.path}
        BY <1>5 DEF DeleteOp
    <2>4. \A p \in Page : Origins(p)' = Origins(p)
        BY <2>1 DEF Origins
    <2> QED
        BY <1>1, <2>1, <2>2, <2>3, <2>4 DEF EditInv
<1>6. CASE Edit
    <2>1. PICK p \in Page, v \in Content :
              file' = [file EXCEPT ![p] = v] /\ theirs' = [theirs EXCEPT ![p] = v]
        BY <1>6 DEF Edit
    <2>2. UNCHANGED <<trash, ops, deleted>>
        BY <1>6 DEF Edit
    <2>3. \A q \in Page : Origins(q)' = Origins(q)
        BY <2>2 DEF Origins
    <2> QED
        BY <1>1, <2>1, <2>2, <2>3 DEF EditInv
<1>7. CASE OtherTask
    <2>1. PICK p \in Page, v \in Content :
              file' = [file EXCEPT ![p] = v] /\ theirs' = [theirs EXCEPT ![p] = None]
        BY <1>7 DEF OtherTask
    <2>2. UNCHANGED <<trash, ops, deleted>>
        BY <1>7 DEF OtherTask
    <2>3. \A q \in Page : Origins(q)' = Origins(q)
        BY <2>2 DEF Origins
    <2> QED
        BY <1>1, <2>1, <2>2, <2>3 DEF EditInv
<1>8. CASE \/ UNCHANGED vars \/ Proposed \/ Start \/ SkipOp \/ ReindexOp \/ AwaitOp \/ NoRowOp
           \/ Probe \/ Purge \/ ReconcileOp \/ Seed \/ Take \/ PhaseOver \/ Persist \/ Hide
           \/ Referrer \/ Applied \/ Close \/ Closed \/ Raise \/ Cancel \/ LateLands
    BY <1>2, <1>8 DEF Proposed, Start, SkipOp, ReindexOp, AwaitOp, NoRowOp, Probe, Purge,
        ReconcileOp, Seed, Take, PhaseOver, Persist, Hide, Referrer, Applied, Close, Closed,
        Raise, Cancel, LateLands, vars
<1> QED
    BY <1>3, <1>4, <1>5, <1>6, <1>7, <1>8 DEF Next

-----------------------------------------------------------------------------
(* Half-written pages are hidden.                                          *)
LEMMA HalvesKept ==
    ASSUME TypeInv, StageInv, HalfInv, [Next]_vars
    PROVE  HalfInv'
<1> USE DEF plan, effects, work, ghost, counts, index, Breaks, Applies, Advance
<1>1. /\ active \subseteq Page /\ IndexTypeOK /\ faults \in Nat /\ cancels \in Nat
      /\ overtaken \in BOOLEAN
    BY DEF TypeInv, IndexTypeOK
(* Nothing calls the index, and whoever is at a page stays there.          *)
<1>2. ASSUME UNCHANGED <<index, begun, overtaken, faults, cancels, late, page, ver>>,
             at' = at \/ (at \notin Busy /\ at' \notin Busy /\ late = {})
      PROVE  HalfInv'
    <2>1. \A p \in Page : Sound(p)' = Sound(p)
        BY <1>2 DEF Sound, Whole
    <2>2. Calm' = Calm
        BY <1>2 DEF Calm
    <2>3. CASE at' = at
        BY <1>1, <1>2, <2>1, <2>2, <2>3 DEF HalfInv
    <2>4. CASE at \notin Busy /\ at' \notin Busy /\ late = {}
        BY <1>1, <1>2, <2>1, <2>2, <2>4 DEF HalfInv, Busy, Persisting
    <2> QED
        BY <1>2, <2>3, <2>4
<1>3. CASE \/ UNCHANGED vars \/ Propose \/ Proposed \/ Start \/ SkipOp \/ ReindexOp \/ AwaitOp
           \/ NoRowOp \/ Probe \/ Seed \/ PhaseOver \/ Applied \/ Closed \/ Edit \/ WriteOp
    <2>1. CASE UNCHANGED vars \/ Propose \/ Closed \/ Edit
        BY <1>2, <2>1 DEF vars, Propose, Closed, Edit
    <2>2. CASE \/ Proposed \/ Start \/ SkipOp \/ ReindexOp \/ AwaitOp \/ NoRowOp \/ Probe
               \/ Seed \/ PhaseOver \/ Applied
        <3>1. /\ UNCHANGED <<index, begun, overtaken, faults, cancels, late, page, ver>>
              /\ at \in {"propose", "waiting", "op", "probe", "phase1", "phase1b", "phase2"}
              /\ at' \in {"waiting", "op", "probe", "delete", "reconcile", "purge", "phase1",
                          "phase1b", "phase2", "close"}
            BY <2>2 DEF Proposed, Start, SkipOp, ReindexOp, AwaitOp, NoRowOp, Probe, Seed,
                        PhaseOver, Applied, Turn
        <3>2. late = {} /\ at \notin Busy /\ at' \notin Busy
            BY <3>1 DEF StageInv, Busy, Persisting
        <3> QED
            BY <1>2, <3>1, <3>2
    <2>3. CASE WriteOp
        <3>1. /\ UNCHANGED <<index, begun, overtaken, cancels, late, page, ver>>
              /\ at = "op" /\ at' = "op" /\ late = {}
              /\ faults' = faults \/ faults' = faults + 1
            BY <2>3 DEF WriteOp, Turn, StageInv
        <3>2. \A p \in Page : Sound(p)' = Sound(p)
            BY <3>1 DEF Sound, Whole
        <3> QED
            BY <1>1, <3>1, <3>2 DEF HalfInv, Calm, Busy, Persisting
    <2> QED
        BY <1>3, <2>1, <2>2, <2>3
(* A page goes down, or a part of an index entry that nobody has begun is  *)
(* replaced.                                                               *)
<1>4. CASE Purge \/ DeleteOp \/ ReconcileOp
    <2>1. /\ at \in Ops \ {"op"} /\ at' = "op" /\ late' = late /\ late = {} /\ begun' = begun
          /\ begun = {} /\ overtaken' = overtaken
          /\ faults' = faults \/ faults' = faults + 1
          /\ cancels' = cancels
        BY <1>1, <1>4 DEF Purge, DeleteOp, ReconcileOp, StageInv, Ops
    <2>2. Current.path \in Page /\ Current.expect \in Content /\ 0 \in Content
        <3>1. next \in DOMAIN ops /\ ops \in Seq(Operation)
            BY <2>1 DEF TypeInv
        <3>2. Current \in Operation
            BY <3>1 DEF Current
        <3>3. 0 \in Content
            BY PageAssumption DEF Content
        <3> QED
            BY <3>2, <3>3 DEF Operation
    <2>3. \A p \in active' : p \in active /\ part'[p]["chunks"] = part[p]["chunks"]
                             /\ hash'[p] = hash[p]
        <3>1. CASE UNCHANGED index
            BY <3>1
        <3>2. CASE Execute("purge", Current.path, 0)
            BY <1>1, <2>2, <3>2, Effects DEF Writing, Part
        <3>3. CASE Execute("sources", Current.path, Current.expect)
            BY <1>1, <2>2, <3>3, Effects DEF Writing, Persisting, Part
        <3> QED
            BY <1>4, <3>1, <3>2, <3>3 DEF Purge, DeleteOp, ReconcileOp
    <2>4. Calm' => Calm
        <3>1. faults' + cancels' <= 1 => faults + cancels <= 1
            BY <1>1, <2>1
        <3> QED
            BY <2>1, <3>1 DEF Calm
    <2>5. at \notin Busy /\ at' \notin Busy
        BY <2>1 DEF Ops, Busy, Persisting
    <2> QED
        BY <2>1, <2>3, <2>4, <2>5 DEF HalfInv, Sound, Busy
<1>5. CASE Take
    <2>1. UNCHANGED <<index, overtaken, faults, cancels, late>> /\ late = {}
        BY <1>5 DEF Take, StageInv
    <2>2. Calm' = Calm /\ at \notin Busy
        BY <1>5, <2>1 DEF Calm, Take, Busy, Persisting
    <2>3. \/ at' = "upsert" /\ begun' = begun \cup {page'}
          \/ at' = at /\ begun' = begun
        BY <1>5 DEF Take
    <2>4. \A p \in Page : Sound(p) /\ (p = page' => begun' = begun) => Sound(p)'
        BY <2>1, <2>3 DEF Sound, Whole
    <2> QED
        BY <1>1, <2>1, <2>2, <2>3, <2>4 DEF HalfInv, Busy, Persisting
<1>6. CASE Persist
    <2>1. /\ Execute(at, page, ver) /\ at \in Persisting /\ at \in Writing
          /\ UNCHANGED <<begun, overtaken, faults, cancels, late, page, ver>> /\ late = {}
          /\ page \in Page /\ ver \in Content /\ page \in begun
        BY <1>6 DEF Persist, TypeInv, StageInv, Busy, Writing, Persisting
    <2>2. Calm' = Calm
        BY <2>1 DEF Calm
    <2>3. /\ \A q \in Page \ {page} : /\ hash'[q] = hash[q] /\ part'[q] = part[q]
                                      /\ q \in active' <=> q \in active
          /\ hash'[page] = IF at = "upsert" THEN ver ELSE hash[page]
          /\ \A d \in Part : part'[page][d] = IF at = d THEN ver ELSE part[page][d]
          /\ active' \subseteq Page
        BY <1>1, <2>1, Effects DEF Persisting
    <2>4. \A q \in Page \ {page} : Sound(q)' = Sound(q)
        BY <2>1, <2>3 DEF Sound, Whole
    <2>5. CASE at \in {"upsert", "chunks", "vectors", "links"}
        <3>1. at' \in Persisting /\ at' = AfterPersist(at)
            BY <1>6, <2>5 DEF Persist, AfterPersist, Persisting
        <3>2. /\ hash'[page] = ver
              /\ at' \in {"vectors", "links", "sources"} => part'[page]["chunks"] = ver
              /\ at' = "sources" => part'[page]["links"] = ver
              /\ at' # "upsert"
            BY <2>3, <2>5, <3>1 DEF HalfInv, AfterPersist, Persisting, Part
        <3> QED
            BY <2>1, <2>2, <2>3, <2>4, <3>1, <3>2 DEF HalfInv, Busy
    <2>6. CASE at = "sources"
        <3>1. at' \in {"phase1", "phase1b"}
            BY <1>6, <2>6 DEF Persist, AfterPersist, Phase
        <3>2. \A d \in Part : part'[page][d] = ver
            BY <2>3, <2>6 DEF HalfInv, Part
        <3>3. hash'[page] = ver
            BY <2>3, <2>6 DEF HalfInv, Persisting
        <3>4. Sound(page)'
            BY <2>1, <3>2, <3>3 DEF Sound, Whole, Part
        <3>5. at' \notin Busy
            BY <3>1 DEF Busy, Persisting
        <3>6. ASSUME Calm', NEW q \in active' PROVE Sound(q)'
            BY <2>1, <2>2, <2>3, <2>4, <3>4, <3>6 DEF HalfInv
        <3>7. at' \notin Persisting
            BY <3>5 DEF Busy
        <3> QED
            BY <2>1, <3>6, <3>7 DEF HalfInv, Persisting
    <2> QED
        BY <2>1, <2>5, <2>6 DEF Persisting
<1>7. CASE Hide
    <2>1. /\ Execute("hide", page, 0) /\ page \in Page /\ 0 \in Content /\ "hide" \in Writing
          /\ UNCHANGED <<begun, overtaken, faults, cancels, late, page, ver>>
          /\ at \in {"hide", "abort"} /\ at' \notin Busy
        BY <1>7, PageAssumption DEF Hide, TypeInv, Busy, Writing, Phase, Persisting, Content
    <2>2. Calm' = Calm
        BY <2>1 DEF Calm
    <2>3. /\ \A q \in active' : q \in active /\ q # page
          /\ \A q \in Page : hash'[q] = hash[q] /\ part'[q] = part[q]
        BY <1>1, <2>1 DEF Execute, IndexTypeOK, Part
    <2>4. \A q \in Page : Sound(q)' = Sound(q)
        BY <2>1, <2>3 DEF Sound, Whole
    <2>5. ASSUME Calm', NEW q \in active' PROVE Sound(q)'
        BY <1>1, <2>2, <2>3, <2>4, <2>5 DEF HalfInv
    <2>6. ASSUME NEW k \in late', k.call \in Persisting
          PROVE  k.page = page' /\ page' \notin active'
        BY <2>1, <2>3, <2>6 DEF HalfInv
    <2>7. at' \notin Persisting
        BY <2>1 DEF Busy
    <2> QED
        BY <2>5, <2>6, <2>7 DEF HalfInv, Persisting
<1>8. CASE Referrer
    <2>1. /\ UNCHANGED <<begun, overtaken, faults, cancels, late, page, ver, at>>
          /\ at = "phase2" /\ First(referrers) \in referrers
        BY <1>8 DEF Referrer, First
    <2>2. First(referrers) \in Page /\ First(referrers) \notin begun
        BY <2>1 DEF StageInv, Touched, TypeInv
    <2>3. CASE UNCHANGED index
        BY <1>2, <2>1, <2>3
    <2>4. CASE Execute("links", First(referrers), file[First(referrers)])
        <3>1. /\ hash' = hash /\ active' = active
              /\ \A q \in Page : part'[q]["chunks"] = part[q]["chunks"]
              /\ \A q \in Page \ {First(referrers)} : part'[q] = part[q]
            BY <1>1, <2>2, <2>4 DEF Execute, IndexTypeOK, Part
        <3>2. \A q \in Page : Sound(q) => Sound(q)'
            BY <2>1, <2>2, <3>1 DEF Sound, Whole
        <3>3. Calm' = Calm /\ at \notin Busy
            BY <2>1 DEF Calm, Busy, Persisting
        <3>4. ASSUME Calm', NEW q \in active' PROVE Sound(q)'
            BY <1>1, <3>1, <3>2, <3>3, <3>4 DEF HalfInv
        <3>5. at' \notin Persisting /\ late' = {}
            BY <2>1 DEF Persisting, StageInv
        <3> QED
            BY <3>4, <3>5 DEF HalfInv, Persisting
    <2> QED
        BY <1>8, <2>3, <2>4 DEF Referrer
<1>9. CASE Close
    <2>1. UNCHANGED <<index, begun, overtaken, faults, cancels, page, ver>> /\ late' = {}
          /\ at \notin Busy /\ at' \notin Busy
        BY <1>9 DEF Close, Busy, Persisting
    <2>2. Calm' = Calm /\ \A q \in Page : Sound(q)' = Sound(q)
        BY <2>1 DEF Calm, Sound, Whole
    <2>3. ASSUME Calm', NEW q \in active' PROVE Sound(q)'
        BY <1>1, <2>1, <2>2, <2>3 DEF HalfInv
    <2>4. at' \notin Persisting
        BY <2>1 DEF Busy
    <2> QED
        BY <2>1, <2>3, <2>4 DEF HalfInv, Persisting
(* The first mishap takes the page to its handler; a second is not Calm.   *)
<1>10. CASE Raise
    <2>1. UNCHANGED <<index, begun, overtaken, cancels, late, page, ver>> /\ faults' = faults + 1
        BY <1>10 DEF Raise
    <2>2. /\ at \in Persisting => at' = "hide"
          /\ at \notin Persisting => at' \notin Persisting \cup {"hide"} /\ at' # "abort"
        BY <1>10 DEF Raise, AfterError, Phase, Persisting
    <2>3. at \in {"hide", "abort"} => ~Calm'
        BY <1>1, <2>1 DEF Calm, StageInv
    <2>4. Calm' => Calm /\ \A q \in Page : Sound(q)' = Sound(q)
        BY <1>1, <2>1 DEF Calm, Sound, Whole
    <2>5. late # {} => ~Calm'
        BY <1>1, <2>1 DEF Calm, StageInv
    <2>6. ASSUME Calm', NEW q \in active' PROVE Sound(q)' \/ (at' \in Busy /\ q = page')
        <3>1. at \in Busy => at \in Persisting /\ at' = "hide"
            BY <2>2, <2>3, <2>6 DEF Busy
        <3> QED
            BY <1>1, <2>1, <2>4, <2>6, <3>1 DEF HalfInv, Busy
    <2>7. at' \notin Persisting
        BY <2>2 DEF Persisting
    <2>8. ASSUME NEW k \in late', k.call \in Persisting
          PROVE  k.page = page' /\ ~Calm'
        BY <2>1, <2>5, <2>8 DEF HalfInv
    <2> HIDE DEF counts, ghost, plan, effects, work, index
    <2> QED
        BY <2>6, <2>7, <2>8 DEF HalfInv, Persisting
<1>11. CASE Cancel
    <2>1. UNCHANGED <<index, begun, overtaken, faults, page, ver>> /\ cancels' = cancels + 1
        BY <1>11 DEF Cancel
    <2>2. /\ at \in Persisting => at' = "abort"
                                  /\ late' = {[call |-> at, page |-> page, ver |-> ver]}
          /\ at \notin Persisting => at' = "close"
                                     /\ \A k \in late' : k \in late \/ k.call = "purge"
        BY <1>11 DEF Cancel, Persisting
    <2>3. at \in {"hide", "abort"} => ~Calm'
        BY <1>1, <2>1 DEF Calm, StageInv
    <2>4. Calm' => Calm /\ \A q \in Page : Sound(q)' = Sound(q)
        BY <1>1, <2>1 DEF Calm, Sound, Whole
    <2>5. late # {} => ~Calm'
        BY <1>1, <2>1 DEF Calm, StageInv
    <2>6. \A k \in late' : k.call \in Persisting => k.page = page /\ (at' = "close" => k \in late)
        BY <2>2 DEF HalfInv, Persisting
    <2> QED
        BY <1>1, <2>1, <2>2, <2>3, <2>4, <2>5, <2>6 DEF HalfInv, Busy, Persisting
<1>12. CASE LateLands
    <2>1. PICK k \in late :
              /\ late' = late \ {k}
              /\ overtaken' = (overtaken \/ (k.call = "upsert" /\ at # "abort"))
              /\ Execute(k.call, k.page, k.ver) \/ UNCHANGED index
        BY <1>12 DEF LateLands
    <2>2. UNCHANGED <<begun, faults, cancels, page, ver, at>> /\ at \in {"abort", "close"}
        BY <1>12 DEF LateLands, StageInv
    <2>3. k.page \in Page /\ k.ver \in Content /\ k.call \in Writing
          /\ k.call \in Persisting \cup {"purge"}
        BY DEF TypeInv, Writing
    <2>4. Calm' => Calm /\ (k.call = "upsert" => at = "abort")
        BY <1>1, <2>1, <2>2 DEF Calm
    <2>5. CASE UNCHANGED index
        <3>1. \A q \in Page : Sound(q)' = Sound(q)
            BY <2>2, <2>5 DEF Sound, Whole
        <3> QED
            BY <1>1, <2>1, <2>2, <2>4, <2>5, <3>1 DEF HalfInv, Busy, Persisting
    <2>6. CASE Execute(k.call, k.page, k.ver)
        <3>1. /\ \A q \in Page \ {k.page} : /\ hash'[q] = hash[q] /\ part'[q] = part[q]
                                            /\ q \in active' <=> q \in active
              /\ k.page \in active' =>
                    k.call = "upsert" \/ (k.page \in active /\ k.call # "purge")
              /\ active' \subseteq Page
            BY <1>1, <2>3, <2>6, Effects
        <3>2. \A q \in Page \ {k.page} : Sound(q)' = Sound(q)
            BY <2>2, <3>1 DEF Sound, Whole
        <3>3. Calm' /\ k.page \in active' => at = "abort" /\ k.page = page
            BY <2>2, <2>3, <2>4, <3>1 DEF HalfInv
        <3>4. Calm' /\ at = "close" => \A j \in late' : j.call \in Persisting => page \notin active'
            BY <2>1, <2>4, <3>1, <3>3 DEF HalfInv
        <3> QED
            BY <1>1, <2>1, <2>2, <2>4, <3>1, <3>2, <3>3, <3>4 DEF HalfInv, Busy, Persisting
    <2> QED
        BY <2>1, <2>5, <2>6
<1>13. CASE OtherTask
    <2>1. PICK p \in Page, v \in Content :
              /\ hash' = [hash EXCEPT ![p] = v]
              /\ active' \subseteq active \cup {p}
              /\ part' = [part EXCEPT ![p] = [c \in Part |-> v]]
        BY <1>13 DEF OtherTask
    <2>2. UNCHANGED <<begun, overtaken, faults, cancels, late, page, ver, at>> /\ late = {}
          /\ at \notin Busy
        BY <1>13 DEF OtherTask, StageInv, Busy, Persisting
    <2>3. \A q \in Page : q = p \/ Sound(q) => Sound(q)'
        BY <1>1, <2>1, <2>2 DEF Sound, Whole, IndexTypeOK, Part
    <2>4. Calm' = Calm
        BY <2>2 DEF Calm
    <2>5. ASSUME Calm', NEW q \in active' PROVE Sound(q)'
        BY <1>1, <2>1, <2>2, <2>3, <2>4, <2>5 DEF HalfInv
    <2>6. at' \notin Persisting /\ late' = {}
        BY <2>2 DEF Busy
    <2> QED
        BY <2>5, <2>6 DEF HalfInv, Persisting
<1> QED
    BY <1>3, <1>4, <1>5, <1>6, <1>7, <1>8, <1>9, <1>10, <1>11, <1>12, <1>13 DEF Next

-----------------------------------------------------------------------------
(* Proposals in order.                                                     *)
LEMMA OrderKept ==
    ASSUME TypeInv, StageInv, OrderInv, [Next]_vars
    PROVE  OrderInv'
<1> USE DEF plan, effects, work, ghost, counts, index, Breaks, Applies, Advance
<1>1. /\ ops \in Seq(Operation) /\ next \in Nat /\ DOMAIN ops = 1..Len(ops)
      /\ applied \subseteq DOMAIN ops
    BY DEF TypeInv
(* No operation is added, none is done, and the pass goes on to a state in *)
(* which none awaits.                                                      *)
<1>2. ASSUME UNCHANGED <<ops, applied>>, next' >= next, next' \in Nat,
             flagged' = flagged \/ applied = {}, at' \notin Ops \ {"op"}
      PROVE  OrderInv'
    <2>1. \A i \in applied' : i < next' /\ ops'[i].prop \notin flagged'
        BY <1>1, <1>2 DEF OrderInv
    <2>2. at' \notin {"probe", "purge", "reconcile"}
        BY <1>2 DEF Ops
    <2> QED
        BY <1>2, <2>1, <2>2 DEF OrderInv
<1>3. CASE Propose
    <2>1. PICK n \in 1..MaxProposals, s \in Seq(Operation) :
              /\ ops' = ops \o s /\ Shaped(s, n)
              /\ ops # <<>> => n = ops[Len(ops)].prop + 1
        BY <1>3, Proposes
    <2>2. at = "propose" /\ at' = at /\ applied' = {}
        BY <1>3 DEF Propose, StageInv, Before
    <2>3. /\ \A i \in DOMAIN ops : ops'[i] = ops[i] /\ ops'[i].prop < n
          /\ \A i \in DOMAIN ops' : i \notin DOMAIN ops =>
                i - Len(ops) \in DOMAIN s /\ ops'[i] = s[i - Len(ops)] /\ ops'[i].prop = n
          /\ ops'[Len(ops')].prop = n /\ DOMAIN ops' = 1..Len(ops') /\ Len(ops') \in Nat
        <3>1. ASSUME NEW i \in DOMAIN ops PROVE ops[i].prop < n
            <4>1. ops[i].prop <= ops[Len(ops)].prop /\ ops # <<>>
                BY <1>1 DEF OrderInv
            <4>2. ops[Len(ops)] \in Operation /\ ops[i] \in Operation
                BY <1>1, <4>1
            <4> QED
                BY <2>1, <4>1, <4>2 DEF Operation
        <3>2. /\ s # <<>> /\ Len(s) \in Nat /\ Len(s) > 0 /\ Len(ops) \in Nat
              /\ \A i \in DOMAIN s : s[i].prop = n
            BY <1>1, <2>1 DEF Shaped
        <3>3. /\ Len(ops') = Len(ops) + Len(s) /\ DOMAIN ops' = 1..Len(ops')
              /\ \A i \in DOMAIN ops' :
                    ops'[i] = IF i <= Len(ops) THEN ops[i] ELSE s[i - Len(ops)]
            BY <1>1, <2>1
        <3>4. \A i \in DOMAIN ops' : i \notin DOMAIN ops =>
                  i - Len(ops) \in DOMAIN s /\ ops'[i] = s[i - Len(ops)] /\ ops'[i].prop = n
            BY <1>1, <2>1, <3>2, <3>3
        <3>5. Len(ops') \in DOMAIN ops' /\ Len(ops') \notin DOMAIN ops
            BY <1>1, <3>2, <3>3
        <3> QED
            BY <1>1, <3>1, <3>2, <3>3, <3>4, <3>5
    <2>4. ASSUME NEW i \in DOMAIN ops', NEW j \in DOMAIN ops', ops'[i].prop = ops'[j].prop
          PROVE  /\ ops'[i].path = ops'[j].path => i = j
                 /\ ops'[i].kind \in {"purge_document", "reconcile_provenance"} => i = j
        <3>1. CASE i \in DOMAIN ops /\ j \in DOMAIN ops
            BY <2>3, <2>4, <3>1 DEF OrderInv
        <3>2. CASE i \notin DOMAIN ops /\ j \notin DOMAIN ops
            <4> DEFINE a == i - Len(ops)
                       b == j - Len(ops)
            <4>1. /\ ops'[i].path = ops'[j].path => a = b
                  /\ ops'[i].kind \in {"purge_document", "reconcile_provenance"} => a = b
                <5>1. /\ a \in DOMAIN s /\ ops'[i] = s[a]
                      /\ b \in DOMAIN s /\ ops'[j] = s[b]
                    BY <2>3, <3>2
                <5> HIDE DEF a, b
                <5> QED
                    BY <2>1, <5>1 DEF Shaped
            <4> QED
                BY <1>1, <2>3, <4>1
        <3>3. i \in DOMAIN ops <=> j \in DOMAIN ops
            <4>1. ops'[i].prop # ops'[j].prop \/ i \in DOMAIN ops \/ j \notin DOMAIN ops
                BY <1>1, <2>1, <2>3 DEF Operation
            <4>2. ops'[i].prop # ops'[j].prop \/ j \in DOMAIN ops \/ i \notin DOMAIN ops
                BY <1>1, <2>1, <2>3 DEF Operation
            <4> QED
                BY <2>4, <4>1, <4>2
        <3> QED
            BY <3>1, <3>2, <3>3
    <2>5. \A i \in DOMAIN ops' : ops'[i].prop <= ops'[Len(ops')].prop
        <3> TAKE i \in DOMAIN ops'
        <3>1. CASE i \in DOMAIN ops
            <4>1. ops[i] \in Operation /\ ops'[i].prop < n /\ ops'[i] = ops[i]
                BY <1>1, <2>3, <3>1
            <4> QED
                BY <2>3, <4>1 DEF Operation
        <3>2. CASE i \notin DOMAIN ops
            BY <2>1, <2>3, <3>2
        <3> QED
            BY <3>1, <3>2
    <2> QED
        BY <2>2, <2>4, <2>5 DEF OrderInv, Ops
<1>4. CASE \/ UNCHANGED vars \/ Edit \/ OtherTask \/ LateLands \/ Closed
    <2>1. UNCHANGED <<ops, applied, next, flagged, at, aborted>>
        BY <1>4 DEF vars, Edit, OtherTask, LateLands, Closed
    <2> QED
        BY <2>1 DEF OrderInv, Current
<1>5. CASE \/ Proposed \/ Start \/ Seed \/ Take \/ PhaseOver \/ Persist \/ Hide \/ Referrer
           \/ Applied \/ Close \/ Raise \/ Cancel
    <2>1. UNCHANGED <<ops, applied, next>>
        BY <1>5 DEF Proposed, Start, Seed, Take, PhaseOver, Persist, Hide, Referrer, Applied,
                    Close, Raise, Cancel
    <2>2. flagged' = flagged \/ applied = {}
        BY <1>5 DEF Proposed, Start, Seed, Take, PhaseOver, Persist, Hide, Referrer, Applied,
                    Close, Raise, Cancel, StageInv, Before
    <2>3. at' \notin Ops \ {"op"}
        <3>1. CASE Proposed \/ Start \/ Seed \/ Take \/ PhaseOver
            BY <3>1 DEF Proposed, Start, Seed, Take, PhaseOver, Ops
        <3>2. CASE Persist \/ Hide
            BY <3>2 DEF Persist, Hide, AfterPersist, Phase, Persisting, Ops
        <3>3. CASE Referrer \/ Applied \/ Close
            BY <3>3 DEF Referrer, Applied, Close, Ops
        <3>4. CASE Raise
            BY <3>4 DEF Raise, AfterError, Phase, Ops
        <3>5. CASE Cancel
            BY <3>5 DEF Cancel, Ops
        <3> QED
            BY <1>5, <3>1, <3>2, <3>3, <3>4, <3>5
    <2> QED
        BY <1>1, <1>2, <2>1, <2>2, <2>3
<1>6. CASE SkipOp \/ NoRowOp
    <2>1. UNCHANGED <<ops, applied, flagged>> /\ next' = next + 1 /\ at' = "op"
        BY <1>6 DEF SkipOp, NoRowOp
    <2> QED
        BY <1>1, <1>2, <2>1
<1>7. CASE AwaitOp \/ Probe
    <2>1. /\ UNCHANGED <<ops, applied, flagged, next, aborted>>
          /\ at' \in {"probe", "purge"} => Current.kind = "purge_document"
          /\ at' = "reconcile" => Current.kind = "reconcile_provenance"
          /\ Current.prop \notin flagged \cup {aborted}
        BY <1>7 DEF AwaitOp, Probe, Turn, OrderInv, Ops
    <2> QED
        BY <2>1 DEF OrderInv, Current
(* The operation is done, or fails.                                        *)
<1>8. CASE WriteOp \/ ReindexOp \/ Purge \/ DeleteOp \/ ReconcileOp
    <2>1. /\ UNCHANGED <<ops, flagged>> /\ next' = next + 1 /\ at' = "op"
          /\ applied' = applied \/ applied' = applied \cup {next}
        BY <1>8 DEF WriteOp, ReindexOp, Purge, DeleteOp, ReconcileOp
    <2>2. ops[next].prop \notin flagged
        BY <1>8 DEF WriteOp, ReindexOp, Purge, DeleteOp, ReconcileOp, Turn, OrderInv, Ops,
                    Current
    <2>3. \A i \in applied' : i < next' /\ ops'[i].prop \notin flagged'
        BY <1>1, <2>1, <2>2 DEF OrderInv
    <2> QED
        BY <2>1, <2>3 DEF OrderInv
<1> QED
    BY <1>3, <1>4, <1>5, <1>6, <1>7, <1>8 DEF Next

-----------------------------------------------------------------------------
(* A proposal that shares no path with others is all done or not at all.   *)

(* An operation of another proposal passes such a proposal by.             *)
LEMMA Bystander ==
    ASSUME TypeInv, next \in DOMAIN ops, next' = next + 1,
           UNCHANGED <<ops, flagged>>, aborted' \in {aborted, Current.prop},
           applied' \in {applied, applied \cup {next}},
           \A q \in Page \ {Current.path} : file'[q] = file[q] /\ (q \in Touched' => q \in Touched),
           NEW n \in 1..MaxProposals, Lone(n), Steady(n), n # Current.prop
    PROVE  Steady(n)'
<1>1. ops \in Seq(Operation) /\ next \in Nat /\ DOMAIN ops = 1..Len(ops)
    BY DEF TypeInv
<1>2. OpsOf(n)' = OpsOf(n) /\ next \notin OpsOf(n) /\ OpsOf(n) \subseteq DOMAIN ops
    BY DEF OpsOf, Current
<1>3. \A i \in OpsOf(n) : (i < next' <=> i < next) /\ (i \in applied' <=> i \in applied)
                          /\ (i >= next' <=> i >= next)
    BY <1>1, <1>2
<1>4. \A i \in OpsOf(n) : ops[i].path \in Page /\ ops[i].path # Current.path
    <2> TAKE i \in OpsOf(n)
    <2>1. ops[i] \in Operation /\ Current \in Operation
        BY <1>1, <1>2 DEF Current
    <2>2. ops[i].path \in PathsOf(n)
        BY <1>2 DEF PathsOf, OpsOf
    <2>3. Current.path \in PathsOf(Current.prop) /\ Current.prop \in 1..MaxProposals
        BY <2>1 DEF PathsOf, Current, Operation
    <2> QED
        BY <2>1, <2>2, <2>3 DEF Lone, Operation
<1>5. \A i \in OpsOf(n) : Ready(ops[i]) /\ ops[i].path \notin Touched =>
                             Ready(ops[i])' /\ ops[i].path \notin Touched'
    BY <1>4 DEF Ready
<1>6. CASE n \in flagged
    BY <1>6 DEF Steady
<1>7. CASE OpsOf(n) \cap applied = {} /\ \A i \in OpsOf(n) : i < next
    BY <1>2, <1>3, <1>7 DEF Steady
<1>8. CASE /\ n # aborted
           /\ \A i \in OpsOf(n) : /\ i < next => i \in applied
                                  /\ i >= next => Ready(ops[i]) /\ ops[i].path \notin Touched
    BY <1>2, <1>3, <1>5, <1>8 DEF Steady
<1> QED
    BY <1>6, <1>7, <1>8 DEF Steady

(* A proposal whose turn it is takes its next operation.                   *)
LEMMA OwnStep ==
    ASSUME TypeInv, OrderInv, next \in DOMAIN ops, next' = next + 1,
           UNCHANGED <<ops, flagged, aborted>>, applied' = applied \cup {next},
           Current.prop \notin flagged \cup {aborted},
           \A q \in Page \ {Current.path} : file'[q] = file[q] /\ (q \in Touched' => q \in Touched),
           NEW n \in 1..MaxProposals, n = Current.prop, Steady(n)
    PROVE  Steady(n)'
<1>1. ops \in Seq(Operation) /\ next \in Nat /\ DOMAIN ops = 1..Len(ops)
    BY DEF TypeInv
<1>2. /\ OpsOf(n)' = OpsOf(n) /\ next \in OpsOf(n) /\ OpsOf(n) \subseteq DOMAIN ops
      /\ n = Current.prop
    BY DEF OpsOf, Current
<1>3. /\ n # aborted
      /\ \A i \in OpsOf(n) : /\ i < next => i \in applied
                             /\ i >= next => Ready(ops[i]) /\ ops[i].path \notin Touched
    BY <1>1, <1>2 DEF Steady
<1>4. \A i \in OpsOf(n) : i # next => ops[i].path \in Page /\ ops[i].path # Current.path
    <2> TAKE i \in OpsOf(n)
    <2>1. ops[i] \in Operation
        BY <1>1, <1>2
    <2> QED
        BY <1>2, <2>1 DEF OrderInv, OpsOf, Operation, Current
<1>5. ASSUME NEW i \in OpsOf(n)
      PROVE  /\ i < next' => i \in applied'
             /\ i >= next' => Ready(ops[i])' /\ ops[i].path \notin Touched'
    <2>1. CASE i < next
        BY <1>1, <1>2, <1>3, <2>1
    <2>2. CASE i = next
        BY <1>1, <2>2
    <2>3. CASE i > next
        BY <1>1, <1>2, <1>3, <1>4, <2>3 DEF Ready
    <2> QED
        BY <1>1, <1>2, <2>1, <2>2, <2>3
<1> QED
    BY <1>2, <1>3, <1>5 DEF Steady

LEMMA AtomKept ==
    ASSUME TypeInv, StageInv, OrderInv, AtomInv, [Next]_vars
    PROVE  AtomInv'
<1> USE DEF plan, effects, work, ghost, counts, index
<1>1. /\ ops \in Seq(Operation) /\ next \in Nat /\ DOMAIN ops = 1..Len(ops)
      /\ applied \subseteq DOMAIN ops /\ faults \in Nat /\ cancels \in Nat
      /\ theirs \in [Page -> Content \cup {None}]
    BY DEF TypeInv
(* Before apply begins, and after a mishap, there is nothing to show.      *)
<1>2. ASSUME at' \in Before \/ ~Undisturbed' PROVE AtomInv'
    BY <1>2 DEF AtomInv, Before, Ops
(* When the operations are over nothing changes.                           *)
<1>3. ASSUME UNCHANGED <<ops, applied, theirs, faults, cancels>>,
             at \notin Before \cup Ops, at' \notin Before \cup Ops
      PROVE  AtomInv'
    <2>1. Undisturbed' = Undisturbed /\ \A n \in 1..MaxProposals :
             Lone(n)' = Lone(n) /\ AllOrNothing(n)' = AllOrNothing(n)
        BY <1>3 DEF Undisturbed, Lone, PathsOf, AllOrNothing, OpsOf
    <2> QED
        BY <1>3, <2>1 DEF AtomInv
(* What is known of an operation whose turn it is.                         *)
<1>4. ASSUME at \in Ops, at' \in Ops, UNCHANGED <<ops, theirs>>,
             Undisturbed' => Undisturbed,
             ASSUME NEW n \in 1..MaxProposals, Lone(n), Undisturbed', Steady(n) PROVE Steady(n)'
      PROVE  AtomInv'
    <2>1. \A n \in 1..MaxProposals : Lone(n)' = Lone(n)
        BY <1>4 DEF Lone, PathsOf
    <2> QED
        BY <1>4, <2>1 DEF AtomInv
<1>5. CASE Propose \/ Proposed \/ OtherTask
    BY <1>2, <1>5 DEF Propose, Proposed, OtherTask, Before
<1>6. CASE Edit \/ Raise \/ Cancel \/ LateLands
    <2>1. ~Undisturbed'
        <3>1. CASE Edit
            <4>1. PICK p \in Page, v \in Content : theirs' = [theirs EXCEPT ![p] = v]
                BY <3>1 DEF Edit
            <4>2. theirs'[p] # None
                BY <1>1, <4>1, LintAssumption
            <4> QED
                BY <4>2 DEF Undisturbed
        <3>2. CASE Raise \/ Cancel
            <4>1. faults' + cancels' = faults + cancels + 1
                BY <1>1, <3>2 DEF Raise, Cancel
            <4> QED
                BY <1>1, <4>1 DEF Undisturbed
        <3>3. CASE LateLands
            <4>1. late # {} /\ cancels' = cancels /\ faults' = faults
                BY <3>3 DEF LateLands
            <4>2. cancels > 0
                BY <4>1 DEF StageInv
            <4> QED
                BY <1>1, <4>1, <4>2 DEF Undisturbed
        <3> QED
            BY <1>6, <3>1, <3>2, <3>3
    <2> QED
        BY <1>2, <2>1
<1>7. CASE \/ UNCHANGED vars \/ Closed
    <2>1. UNCHANGED <<ops, applied, theirs, faults, cancels, at, flagged, aborted, next, file,
                      changed, deleted, purged, reindex>>
        BY <1>7 DEF vars, Closed
    <2> QED
        BY <2>1 DEF AtomInv, Undisturbed, Lone, PathsOf, AllOrNothing, OpsOf, Steady, Touched, Ready,
                    Sandboxed
<1>8. CASE Take \/ PhaseOver \/ Persist \/ Hide \/ Referrer \/ Applied \/ Close
    <2>1. UNCHANGED <<ops, applied, theirs, faults, cancels>>
        BY <1>8 DEF Take, PhaseOver, Persist, Hide, Referrer, Applied, Close
    <2>2. at \notin Before \cup Ops /\ at' \notin Before \cup Ops
        BY <1>8 DEF Take, PhaseOver, Persist, Hide, Referrer, Applied, Close, AfterPersist, Phase,
                    Persisting, Before, Ops
    <2> QED
        BY <1>3, <2>1, <2>2
(* Every proposal that is not flagged can be carried out.                  *)
<1>9. CASE Start
    <2>1. /\ at' = "op" /\ UNCHANGED <<ops, applied, next, aborted, changed, deleted, purged,
                                       reindex, file>>
          /\ next = 1 /\ aborted = 0 /\ Touched = {}
          /\ flagged' = {ops[i].prop : i \in {j \in DOMAIN ops : ~Ready(ops[j])}}
        BY <1>9 DEF Start, StageInv, Before, Touched
    <2>2. ASSUME NEW n \in 1..MaxProposals PROVE Steady(n)'
        <3>1. CASE n \in flagged'
            BY <3>1 DEF Steady
        <3>2. CASE n \notin flagged'
            <4>1. \A i \in OpsOf(n) : Ready(ops[i])
                BY <2>1, <3>2 DEF OpsOf
            <4>2. OpsOf(n)' = OpsOf(n) /\ Touched' = {}
                BY <2>1 DEF OpsOf, Touched
            <4>3. \A i \in OpsOf(n)' : Ready(ops[i])'
                BY <2>1, <4>1, <4>2 DEF Ready
            <4>4. \A i \in OpsOf(n) : ~(i < next)
                BY <1>1, <2>1 DEF OpsOf
            <4>5. n # aborted'
                BY <2>1
            <4>6. /\ \A i \in OpsOf(n)' : /\ i < next' => i \in applied'
                                          /\ Ready(ops[i])' /\ ops'[i].path \notin Touched'
                BY <2>1, <4>2, <4>3, <4>4
            <4> QED
                BY <4>5, <4>6 DEF Steady
        <3> QED
            BY <3>1, <3>2
    <2> QED
        BY <2>1, <2>2 DEF AtomInv, Ops, Before
<1>10. CASE SkipOp
    <2>1. /\ at = "op" /\ at' = "op" /\ next' = next + 1 /\ next \in DOMAIN ops
          /\ UNCHANGED <<ops, theirs, applied, flagged, faults, cancels, changed, deleted, purged,
                         reindex, file>>
          /\ aborted' \in {aborted, Current.prop}
          /\ \/ Current.prop \in flagged \cup {aborted}
             \/ Current.path \in Touched \/ ~Ready(Current)
        <3>1. next <= Len(ops) /\ next \in 1..Len(ops) + 1
            BY <1>10 DEF SkipOp, TypeInv
        <3>2. next \in DOMAIN ops
            BY <1>1, <3>1
        <3> QED
            BY <1>10, <3>2 DEF SkipOp, Advance
    <2>2. \A q \in Page \ {Current.path} : file'[q] = file[q] /\ (q \in Touched' => q \in Touched)
        BY <2>1 DEF Touched
    <2>3. ASSUME NEW n \in 1..MaxProposals, Lone(n), Steady(n) PROVE Steady(n)'
        <3>1. CASE n # Current.prop
            BY <2>1, <2>2, <2>3, <3>1, Bystander
        <3>2. CASE n = Current.prop
            <4>1. next \in OpsOf(n) /\ ~(next < next) /\ next >= next
                BY <1>1, <2>1, <3>2 DEF OpsOf, Current
            <4>2. n \in flagged
                BY <2>1, <2>3, <3>2, <4>1 DEF Steady, Current
            <4> QED
                BY <2>1, <4>2 DEF Steady
        <3> QED
            BY <3>1, <3>2
    <2>4. Undisturbed' = Undisturbed
        BY <2>1 DEF Undisturbed
    <2> QED
        BY <1>4, <2>1, <2>3, <2>4 DEF Ops
<1>11. CASE AwaitOp \/ Probe
    <2>1. /\ at \in Ops /\ at' \in Ops
          /\ UNCHANGED <<ops, theirs, applied, flagged, faults, cancels, changed, deleted, purged,
                         reindex, file, next, aborted>>
        BY <1>11 DEF AwaitOp, Probe, Turn, Ops
    <2>2. Undisturbed' = Undisturbed
        BY <2>1 DEF Undisturbed
    <2>3. ASSUME NEW n \in 1..MaxProposals, Steady(n) PROVE Steady(n)'
        BY <2>1, <2>3 DEF Steady, OpsOf, Touched, Ready
    <2> QED
        BY <1>4, <2>1, <2>2, <2>3
(* An operation that fails stood alone, or counts as a mishap.             *)
<1>12. CASE NoRowOp
    <2>1. /\ at \in Ops /\ at' \in Ops /\ next' = next + 1 /\ next \in DOMAIN ops
          /\ UNCHANGED <<ops, theirs, applied, flagged, faults, cancels, changed, deleted, purged,
                         reindex, file>>
          /\ aborted' = Current.prop
          /\ Current.kind \in {"purge_document", "reconcile_provenance"}
        BY <1>1, <1>12 DEF NoRowOp, Breaks, Advance, Turn, TypeInv, OrderInv, Ops
    <2>2. \A q \in Page \ {Current.path} : file'[q] = file[q] /\ (q \in Touched' => q \in Touched)
        BY <2>1 DEF Touched
    <2>3. ASSUME NEW n \in 1..MaxProposals, Lone(n), Steady(n) PROVE Steady(n)'
        <3>1. CASE n # Current.prop
            BY <2>1, <2>2, <2>3, <3>1, Bystander
        <3>2. CASE n = Current.prop
            <4>1. OpsOf(n)' = {next} /\ next \notin applied
                BY <1>1, <2>1, <3>2 DEF OpsOf, Current, OrderInv
            <4> QED
                BY <1>1, <2>1, <4>1 DEF Steady
        <3> QED
            BY <3>1, <3>2
    <2>4. Undisturbed' = Undisturbed
        BY <2>1 DEF Undisturbed
    <2> QED
        BY <1>4, <2>1, <2>3, <2>4
<1>13. CASE WriteOp \/ ReindexOp \/ Purge \/ DeleteOp \/ ReconcileOp
    <2>1. CASE faults' = faults + 1
        <3>1. cancels' = cancels
            BY <1>13 DEF WriteOp, ReindexOp, Purge, DeleteOp, ReconcileOp
        <3>2. faults' + cancels' # 0
            BY <1>1, <2>1, <3>1
        <3> QED
            BY <1>2, <3>2 DEF Undisturbed
    <2>2. CASE faults' # faults + 1
        <3>1. /\ at \in Ops /\ at' = "op" /\ next' = next + 1 /\ applied' = applied \cup {next}
              /\ UNCHANGED <<ops, theirs, flagged, aborted, faults, cancels>>
              /\ next \in DOMAIN ops /\ Current.prop \notin flagged \cup {aborted}
            BY <1>1, <1>13, <2>2 DEF WriteOp, ReindexOp, Purge, DeleteOp, ReconcileOp, Applies,
                Advance, Turn, TypeInv, OrderInv, Ops
        <3>2. \A q \in Page \ {Current.path} :
                 file'[q] = file[q] /\ (q \in Touched' => q \in Touched)
            <4>1. file \in [Page -> Content]
                BY DEF TypeInv, IndexTypeOK
            <4>2. /\ \/ UNCHANGED file
                     \/ \E v : file' = [file EXCEPT ![Current.path] = v]
                  /\ changed' \subseteq changed \cup {Current.path}
                  /\ deleted' \subseteq deleted \cup {Current.path}
                  /\ purged' \subseteq purged \cup {Current.path}
                  /\ reindex' \subseteq reindex \cup {Current.path}
                BY <1>13 DEF WriteOp, ReindexOp, Purge, DeleteOp, ReconcileOp
            <4> QED
                BY <4>1, <4>2 DEF Touched
        <3>3. ASSUME NEW n \in 1..MaxProposals, Lone(n), Steady(n) PROVE Steady(n)'
            <4>1. CASE n # Current.prop
                BY <3>1, <3>2, <3>3, <4>1, Bystander
            <4>2. CASE n = Current.prop
                BY <3>1, <3>2, <3>3, <4>2, OwnStep
            <4> QED
                BY <4>1, <4>2
        <3>4. Undisturbed' = Undisturbed
            BY <3>1 DEF Undisturbed
        <3> QED
            BY <1>4, <3>1, <3>3, <3>4 DEF Ops
    <2> QED
        BY <2>1, <2>2
(* The operations are over: nothing of a steady proposal is left.          *)
<1>14. CASE Seed
    <2>1. /\ at = "op" /\ at' = "phase1" /\ next > Len(ops)
          /\ UNCHANGED <<ops, applied, theirs, faults, cancels>>
        BY <1>14 DEF Seed
    <2>2. ASSUME NEW n \in 1..MaxProposals, Steady(n) PROVE AllOrNothing(n)
        <3>1. \A i \in OpsOf(n) : i < next
            BY <1>1, <2>1 DEF OpsOf
        <3>2. n \in flagged => OpsOf(n) \cap applied = {}
            BY DEF OpsOf, OrderInv
        <3> QED
            BY <2>2, <3>1, <3>2 DEF Steady, AllOrNothing
    <2>3. Undisturbed' = Undisturbed /\ \A n \in 1..MaxProposals :
             Lone(n)' = Lone(n) /\ AllOrNothing(n)' = AllOrNothing(n)
        BY <2>1 DEF Undisturbed, Lone, PathsOf, AllOrNothing, OpsOf
    <2> QED
        BY <2>1, <2>2, <2>3 DEF AtomInv, Ops, Before
<1> QED
    BY <1>5, <1>6, <1>7, <1>8, <1>9, <1>10, <1>11, <1>12, <1>13, <1>14 DEF Next

-----------------------------------------------------------------------------
(* Links are current.                                                      *)

(* What decides the links, but for where the pass is.                      *)
LEMMA LinksStay ==
    ASSUME UNCHANGED <<file, active, edges, issues, listed, resolver, changed, deleted, purged,
                       reindex, referrers>>
    PROVE  /\ EffectsApart' = EffectsApart /\ Listed' = Listed /\ Complete' = Complete
           /\ Rewritten' = Rewritten /\ Referring' = Referring
           /\ \A p \in Page : Linked(p)' = Linked(p)
<1>1. Removed' = Removed /\ Renewed' = Renewed /\ Final' = Final /\ Referring' = Referring
    BY DEF Removed, Renewed, Final, Referring, IssuePaths
<1>2. \A p : Linked(p)' = Linked(p)
    BY DEF Linked, Resolve
<1>3. \A q : Outlived(q)' = Outlived(q)
    BY DEF Outlived
<1>4. Resolves' = Resolves
    BY <1>1, <1>3 DEF Resolves
<1> QED
    BY <1>1, <1>2, <1>4 DEF EffectsApart, Listed, Complete, Rewritten, KnowledgeFirst, TitleIndex,
                            PathToDocId

(* One operation is done, of a page that none was done of before.          *)
LEMMA LinksOfOps ==
    ASSUME TypeInv, StageInv, LinkInv, Clean, Clean',
           \/ Start \/ SkipOp \/ WriteOp \/ ReindexOp \/ AwaitOp \/ NoRowOp \/ Probe \/ Purge
           \/ DeleteOp \/ ReconcileOp
    PROVE  LinkInv'
<1> USE DEF plan, effects, work, ghost, counts, index, Breaks, Applies, Advance
<1>1. /\ at \in {"waiting"} \cup Ops /\ at' \in Ops /\ EffectsApart
      /\ file \in [Page -> Content] /\ active \subseteq Page /\ faults \in Nat
    BY DEF TypeInv, IndexTypeOK, LinkInv, Start, SkipOp, WriteOp, ReindexOp, AwaitOp, NoRowOp,
           Probe, Purge, DeleteOp, ReconcileOp, Turn, Ops
<1>2. at' \notin Phased \cup Settled \cup Persisting \cup Over
    BY <1>1 DEF Ops, Phased, Settled, Busy, Loop, Over, Persisting
<1>3. ASSUME EffectsApart', Listed' PROVE LinkInv'
    BY <1>2, <1>3 DEF LinkInv
<1>4. CASE Start
    <2>1. /\ UNCHANGED <<file, active, changed, deleted, purged, reindex>>
          /\ listed' = active /\ resolver' = KnowledgeFirst(active) /\ Touched = {}
        BY <1>4 DEF Start, StageInv, Before, Touched
    <2>2. EffectsApart' /\ Removed' = {}
        BY <1>1, <2>1 DEF EffectsApart, Removed, Renewed, Touched
    <2>3. Listed'
        BY <2>1, <2>2 DEF Listed, KnowledgeFirst, TitleIndex
    <2> QED
        BY <1>3, <2>2, <2>3
<1>5. CASE SkipOp \/ AwaitOp \/ NoRowOp \/ Probe \/ ReconcileOp
    <2>1. UNCHANGED <<file, active, listed, resolver, changed, deleted, purged, reindex>>
        BY <1>5 DEF SkipOp, AwaitOp, NoRowOp, Probe, ReconcileOp, Execute
    <2>2. at \in Ops
        BY <1>5 DEF SkipOp, AwaitOp, NoRowOp, Probe, ReconcileOp, Turn, Ops
    <2>3. EffectsApart' /\ Listed'
        BY <1>1, <2>1, <2>2 DEF LinkInv, EffectsApart, Listed, Removed, Renewed, KnowledgeFirst,
                    TitleIndex
    <2> QED
        BY <1>3, <2>3
<1>6. CASE WriteOp \/ ReindexOp
    <2>1. /\ at = "op" /\ at \in Ops /\ next \in DOMAIN ops /\ Current.path \notin Touched
          /\ Current.kind \in {"create_page", "update_page", "reindex_page"} /\ Ready(Current)
          /\ UNCHANGED <<active, listed, resolver, deleted, purged>>
        <3>1. /\ at = "op" /\ next <= Len(ops) /\ Current.path \notin Touched /\ Ready(Current)
              /\ Current.kind \in {"create_page", "update_page", "reindex_page"}
              /\ UNCHANGED <<active, listed, resolver, deleted, purged>>
            BY <1>6 DEF WriteOp, ReindexOp, Turn
        <3>2. next \in DOMAIN ops
            BY <3>1 DEF TypeInv
        <3> QED
            BY <3>1, <3>2 DEF Ops
    <2>2. Current \in Operation /\ Current.path \in Page
        <3>1. ops \in Seq(Operation)
            BY DEF TypeInv
        <3> QED
            BY <2>1, <3>1 DEF Current, Operation
    <2>3. Listed'
        BY <1>1, <2>1 DEF LinkInv, Listed, Removed, KnowledgeFirst, TitleIndex
    <2>4. CASE WriteOp
        <3>1. faults' = faults /\ reindex' = reindex
            BY <1>1, <2>4 DEF WriteOp, Clean, TypeInv
        <3>2. /\ file' = [file EXCEPT ![Current.path] = Current.body]
              /\ changed' = changed \cup {Current.path}
            BY <1>1, <2>4, <3>1 DEF WriteOp
        <3>3. Current.body # 0
            BY <2>2, <2>4, PageAssumption DEF WriteOp, Turn, Operation, Body
        <3>4. EffectsApart'
            BY <1>1, <2>1, <2>2, <3>1, <3>2, <3>3 DEF EffectsApart, Removed, Renewed, Touched,
                TypeInv
        <3> QED
            BY <1>3, <2>3, <3>4
    <2>5. CASE ReindexOp
        <3>1. /\ file' = file /\ changed' = changed /\ reindex' = reindex \cup {Current.path}
              /\ Current.kind = "reindex_page"
            BY <2>5 DEF ReindexOp, Turn
        <3>2. file[Current.path] # 0
            BY <2>1, <3>1 DEF Ready
        <3>3. EffectsApart'
            BY <1>1, <2>1, <3>1, <3>2 DEF EffectsApart, Removed, Renewed, Touched
        <3> QED
            BY <1>3, <2>3, <3>3
    <2> QED
        BY <1>6, <2>4, <2>5
<1>7. CASE Purge \/ DeleteOp
    <2>1. /\ at \in Ops \ {"op"} /\ Current.path \notin Touched
          /\ UNCHANGED <<listed, resolver, changed, reindex>>
        BY <1>7 DEF Purge, DeleteOp, StageInv, Ops
    <2>2. Listed
        BY <2>1 DEF LinkInv
    <2>3. /\ active' = active \ {Current.path}
          /\ Removed' = Removed \cup {Current.path}
          /\ \/ file' = file
             \/ file' = [file EXCEPT ![Current.path] = 0]
        <3>1. CASE Purge
            BY <3>1 DEF Purge, Execute, Removed
        <3>2. CASE DeleteOp
            <4>1. faults' = faults
                BY <1>1, <3>2 DEF DeleteOp, Clean, TypeInv
            <4>2. /\ file' = [file EXCEPT ![Current.path] = 0]
                  /\ deleted' = deleted \cup {Current.path} /\ purged' = purged
                BY <1>1, <3>2, <4>1 DEF DeleteOp
            <4>3. active' = active \ {Current.path}
                <5>1. Current.path \notin Wisdom
                    BY <3>2 DEF DeleteOp, StageInv
                <5>2. CASE Current.path \in PathToDocId
                    BY <3>2, <5>2 DEF DeleteOp, Execute
                <5>3. CASE Current.path \notin PathToDocId
                    BY <2>2, <3>2, <5>1, <5>3 DEF DeleteOp, Listed, PathToDocId
                <5> QED
                    BY <5>2, <5>3
            <4> QED
                BY <4>2, <4>3 DEF Removed
        <3> QED
            BY <1>7, <3>1, <3>2
    <2>4. Renewed' = Renewed /\ Current.path \notin Renewed
        BY <2>1 DEF Renewed, Touched
    <2>5. Renewed \subseteq Page
        BY DEF Renewed, TypeInv
    <2>6. EffectsApart'
        BY <1>1, <2>1, <2>3, <2>4, <2>5 DEF EffectsApart
    <2>7. Listed'
        BY <2>1, <2>2, <2>3 DEF Listed, KnowledgeFirst, TitleIndex
    <2> QED
        BY <1>3, <2>6, <2>7
<1> QED
    BY <1>4, <1>5, <1>6, <1>7

(* What Seed makes of the resolver: the pages that will be active.         *)
LEMMA SeedResolves ==
    ASSUME TypeInv, EffectsApart, Listed
    PROVE  /\ \A t \in Title : Seeded(resolver)[t] # None =>
                 /\ Seeded(resolver)[t] \in Final
                 /\ TitleOf[Seeded(resolver)[t]] = t
           /\ \A q \in Final : Seeded(resolver)[TitleOf[q]] # None \/ Outlived(q)
<1> DEFINE r == Seeded(resolver)
           shown == {p \in reindex : file[p] # 0}
<1>1. /\ listed \subseteq Page /\ changed \subseteq Page /\ reindex \subseteq Page
      /\ shown = reindex /\ Final \subseteq Page /\ None \notin Page
      /\ TitleOf \in [Page -> Title] /\ resolver = KnowledgeFirst(listed)
    BY LintAssumption DEF TypeInv, EffectsApart, Listed, Final, Renewed
<1>2. \A t \in Title : r[t] = IF resolver[t] \notin Removed \cup {None} THEN resolver[t]
                              ELSE IF TitleIndex(changed)[t] # None THEN TitleIndex(changed)[t]
                              ELSE TitleIndex(reindex)[t]
    BY <1>1 DEF Seeded, Removed
<1>3. ASSUME NEW ps \in {changed, reindex}
      PROVE  /\ \A t \in Title : TitleIndex(ps)[t] # None =>
                    TitleIndex(ps)[t] \in ps /\ TitleOf[TitleIndex(ps)[t]] = t
             /\ \A p \in ps : TitleIndex(ps)[TitleOf[p]] # None
    BY <1>1, Titles
<1>4. /\ \A t \in Title : resolver[t] # None =>
            resolver[t] \in listed /\ TitleOf[resolver[t]] = t
      /\ \A p \in listed : resolver[TitleOf[p]] # None
    BY <1>1, KnownTitles
<1>5. ASSUME NEW t \in Title, r[t] # None
      PROVE  r[t] \in Final /\ TitleOf[r[t]] = t
    <2>1. CASE resolver[t] \notin Removed \cup {None}
        BY <1>1, <1>2, <1>4, <2>1 DEF Final
    <2>2. CASE resolver[t] \in Removed \cup {None}
        BY <1>2, <1>3, <1>5, <2>2 DEF Final, Renewed
    <2> QED
        BY <2>1, <2>2
<1>6. ASSUME NEW q \in Final
      PROVE  r[TitleOf[q]] # None \/ Outlived(q)
    <2> DEFINE t == TitleOf[q]
    <2>1. t \in Title
        BY <1>1
    <2>2. CASE resolver[t] \notin Removed \cup {None}
        BY <1>2, <2>1, <2>2
    <2>3. CASE resolver[t] \in Removed \cup {None}
        <3>1. CASE q \in changed
            <4>1. TitleIndex(changed)[t] # None
                BY <1>3, <3>1
            <4> QED
                BY <1>2, <2>1, <2>3, <4>1
        <3>2. CASE q \in reindex
            <4>1. TitleIndex(reindex)[t] # None
                BY <1>3, <3>2
            <4> QED
                BY <1>2, <2>1, <2>3, <4>1
        <3>3. CASE q \in listed \ Removed
            <4>1. resolver[t] # None
                BY <1>1, <1>4, <3>3
            <4>2. resolver[t] \in listed \cap Removed /\ TitleOf[resolver[t]] = t
                BY <1>1, <1>4, <2>1, <2>3, <4>1
            <4> QED
                BY <3>3, <4>2 DEF Outlived, Removed
        <3> QED
            BY <3>1, <3>2, <3>3 DEF Final, Renewed
    <2> QED
        BY <2>2, <2>3
<1> QED
    BY <1>5, <1>6

LEMMA LinksOfSeed ==
    ASSUME TypeInv, StageInv, LinkInv, Clean, Seed
    PROVE  LinkInv'
<1> USE DEF plan, effects, work, ghost, counts, index
<1>1. /\ UNCHANGED <<file, active, edges, issues, listed, changed, deleted, purged, reindex>>
      /\ resolver' = Seeded(resolver) /\ queue' = changed /\ at = "op" /\ at' = "phase1"
      /\ referrers' = IssuePaths \ Touched
    BY DEF Seed
<1>2. EffectsApart /\ Listed
    BY <1>1 DEF LinkInv, Ops
<1>3. /\ Removed' = Removed /\ Renewed' = Renewed /\ Final' = Final /\ Referring' = Referring
      /\ \A q : Outlived(q)' = Outlived(q)
    BY <1>1 DEF Removed, Renewed, Final, Referring, IssuePaths, Outlived
<1>4. EffectsApart'
    BY <1>1, <1>2, <1>3 DEF EffectsApart
<1>5. Complete'
    <2>1. Resolves'
        BY <1>1, <1>2, <1>3, SeedResolves DEF Resolves
    <2> QED
        BY <1>1, <1>2, <1>3, <2>1 DEF Complete, Listed, Final
<1>6. InTurn'
    <2>1. FirstPhase'
        BY <1>1 DEF FirstPhase
    <2>2. Waiting' = Renewed /\ Source' = changed
        BY <1>1, <2>1 DEF Waiting, Source, Renewed
    <2>3. Referring' \subseteq referrers'
        BY <1>1, <1>3 DEF Referring, Touched, Removed, Renewed
    <2> QED
        BY <1>1, <1>3, <2>2, <2>3 DEF InTurn
<1>7. at' \notin Ops \cup Persisting \cup Settled \cup Over
    BY <1>1 DEF Ops, Persisting, Settled, Over
<1> QED
    BY <1>4, <1>5, <1>6, <1>7 DEF LinkInv

LEMMA LinksOfPhases ==
    ASSUME TypeInv, StageInv, LinkInv, Clean, Take \/ PhaseOver
    PROVE  LinkInv'
<1> USE DEF plan, effects, work, ghost, counts, index
<1>1. /\ UNCHANGED <<file, active, edges, issues, listed, resolver, changed, deleted, purged,
                     reindex, referrers>>
      /\ at \in Loop /\ at' \in {"upsert"} \cup Loop \cup {"phase2"}
    BY DEF Take, PhaseOver, Loop
<1>2. /\ EffectsApart /\ Complete /\ InTurn
      /\ at \notin Busy
    BY <1>1 DEF LinkInv, Phased, Loop, Busy, Persisting
<1>3. /\ EffectsApart' /\ Complete' /\ Referring' \subseteq referrers'
      /\ Renewed' = Renewed /\ \A p \in Page : Linked(p)' = Linked(p)
    <2>1. Renewed' = Renewed
        BY <1>1 DEF Renewed
    <2> QED
        BY <1>1, <1>2, <2>1, LinksStay DEF InTurn
<1>4. CASE Take
    <2>1. First(queue) \in queue
        BY <1>4 DEF Take, First
    <2>2. PICK p \in queue : /\ queue' = queue \ {p} /\ page' = p /\ ver' = file[p]
                             /\ file[p] # 0 => at' = "upsert"
        BY <1>4, <2>1 DEF Take
    <2>3. p \in Source /\ p \in Renewed /\ p \in Page
        BY <1>2, <2>2 DEF InTurn, Source, Renewed, TypeInv
    <2>4. at' = "upsert"
        BY <1>2, <2>2, <2>3 DEF EffectsApart
    <2>5. FirstPhase' = FirstPhase
        <3>1. FirstPhase' <=> p \in changed
            BY <1>1, <2>2, <2>4 DEF FirstPhase, Busy, Persisting
        <3>2. FirstPhase <=> p \in changed
            BY <1>2, <2>3 DEF Source, EffectsApart
        <3>3. FirstPhase \in BOOLEAN
            BY DEF FirstPhase
        <3> QED
            BY <3>1, <3>2, <3>3 DEF FirstPhase
    <2>6. Source' = Source /\ Waiting' = Waiting \ {p}
        <3>1. FirstPhase => p \notin reindex
            BY <1>2, <2>3 DEF Source, EffectsApart
        <3> QED
            BY <1>1, <2>2, <2>5, <3>1 DEF Source, Waiting
    <2>7. InTurn'
        <3>1. queue' \subseteq Source'
            BY <1>2, <2>2, <2>6 DEF InTurn
        <3>2. ASSUME NEW q \in Renewed, q \notin Waiting', q # p
              PROVE  q \in active' /\ Linked(q)'
            BY <1>1, <1>2, <1>3, <2>6, <3>2 DEF InTurn, Busy, Renewed, TypeInv
        <3>3. at' \in Persisting /\ p = page'
            BY <2>2, <2>4 DEF Persisting
        <3> QED
            BY <1>3, <3>1, <3>2, <3>3 DEF InTurn
    <2>8. AtPage'
        BY <1>1, <2>2, <2>3, <2>4, <2>6 DEF AtPage
    <2>9. at' \notin Ops \cup Settled \cup Over
        BY <2>4 DEF Ops, Settled, Over
    <2> QED
        BY <1>3, <2>7, <2>8, <2>9 DEF LinkInv
<1>5. CASE PhaseOver /\ at = "phase1"
    <2>1. at' = "phase1b" /\ queue' = reindex /\ queue = {}
        BY <1>5 DEF PhaseOver
    <2>2. FirstPhase /\ ~FirstPhase'
        BY <1>5, <2>1 DEF FirstPhase, Busy, Persisting
    <2>3. Waiting' = reindex /\ Waiting = reindex /\ Source' = reindex
        BY <1>1, <2>1, <2>2 DEF Waiting, Source
    <2>4. InTurn'
        <3>1. ASSUME NEW q \in Renewed, q \notin Waiting
              PROVE  q \in active' /\ Linked(q)'
            BY <1>1, <1>2, <1>3, <3>1 DEF InTurn, Busy, Renewed, TypeInv
        <3> QED
            BY <1>3, <2>1, <2>3, <3>1 DEF InTurn
    <2>5. at' \notin Ops \cup Persisting \cup Settled \cup Over
        BY <2>1 DEF Ops, Persisting, Settled, Over
    <2> QED
        BY <1>3, <2>4, <2>5 DEF LinkInv
<1>6. CASE PhaseOver /\ at # "phase1"
    <2>1. at' = "phase2" /\ queue = {} /\ ~FirstPhase
        BY <1>2, <1>6 DEF PhaseOver, FirstPhase
    <2>2. Waiting = {}
        BY <2>1 DEF Waiting
    <2>3. Rewritten'
        <3>1. ASSUME NEW q \in Renewed
              PROVE  q \in active' /\ Linked(q)'
            BY <1>1, <1>2, <1>3, <2>2, <3>1 DEF InTurn, Busy, Renewed, TypeInv
        <3> QED
            BY <1>3, <3>1 DEF Rewritten
    <2>4. at' \notin Ops \cup Persisting \cup Phased \cup Over
        BY <2>1 DEF Ops, Persisting, Phased, Busy, Loop, Over, Persisting
    <2> QED
        BY <1>3, <2>3, <2>4 DEF LinkInv
<1> QED
    BY <1>4, <1>5, <1>6

LEMMA LinksOfPersist ==
    ASSUME TypeInv, StageInv, LinkInv, Clean, Persist
    PROVE  LinkInv'
<1> USE DEF plan, effects, work, ghost, counts, index
<1>1. /\ UNCHANGED <<file, issues, listed, resolver, changed, deleted, purged, reindex, referrers,
                     queue, page, ver>>
      /\ at \in Persisting /\ page \in Page /\ edges \in [Page -> SUBSET Page]
      /\ active' = IF at = "upsert" THEN active \cup {page} ELSE active
      /\ edges' = IF at = "links" THEN [edges EXCEPT ![page] = Resolve(resolver, ver)] ELSE edges
    BY DEF Persist, Execute, Persisting, TypeInv, Busy
<1>2. EffectsApart /\ Complete /\ InTurn /\ AtPage
    BY <1>1 DEF LinkInv, Phased, Busy
<1>3. /\ Removed' = Removed /\ Renewed' = Renewed /\ Final' = Final /\ Referring' = Referring
      /\ \A q : Outlived(q)' = Outlived(q)
    BY <1>1 DEF Removed, Renewed, Final, Referring, IssuePaths, Outlived
<1>4. page \in Renewed
    BY <1>2 DEF AtPage, Source, Renewed
<1>5. EffectsApart' /\ Complete'
    <2>1. Resolves'
        BY <1>1, <1>2, <1>3 DEF Resolves, Complete
    <2>2. page \in Final
        BY <1>4 DEF Final
    <2> QED
        BY <1>1, <1>2, <1>3, <2>1, <2>2 DEF EffectsApart, Complete
<1>6. \A q \in Page \ {page} : Linked(q)' = Linked(q)
    BY <1>1 DEF Linked, Resolve
<1>7. \A q \in Page : Linked(q) => Linked(q)'
    BY <1>1, <1>2, <1>6 DEF Linked, Resolve, AtPage
<1>8. \A q \in Renewed \ Waiting : q # page => q \in active' /\ Linked(q)'
    BY <1>1, <1>2, <1>6 DEF InTurn, Renewed, TypeInv
<1>9. CASE at # "sources"
    <2>1. at' \in Persisting \ {"upsert"} /\ at' = AfterPersist(at)
        BY <1>1, <1>9 DEF Persist, AfterPersist, Persisting
    <2>2. FirstPhase' = FirstPhase
        BY <1>1, <2>1 DEF FirstPhase, Busy, Persisting
    <2>3. Waiting' = Waiting /\ Source' = Source
        BY <1>1, <2>2 DEF Waiting, Source
    <2>4. InTurn'
        BY <1>1, <1>2, <1>3, <1>8, <2>1, <2>3 DEF InTurn
    <2>5. page \in active'
        BY <1>1, <1>2 DEF AtPage
    <2>6. at' = "sources" => Linked(page)'
        <3>1. at' = "sources" => at = "links"
            BY <1>1, <1>9, <2>1 DEF AfterPersist, Persisting
        <3> QED
            BY <1>1, <1>2, <3>1 DEF AtPage, Linked, Resolve
    <2>7. AtPage'
        BY <1>1, <1>2, <2>3, <2>5, <2>6 DEF AtPage
    <2>8. at' \notin Ops \cup Settled \cup Over
        BY <2>1 DEF Ops, Settled, Over, Persisting
    <2> QED
        BY <1>5, <2>4, <2>7, <2>8 DEF LinkInv
<1>10. CASE at = "sources"
    <2>1. at' = IF page \in changed THEN "phase1" ELSE "phase1b"
        BY <1>10 DEF Persist, AfterPersist, Phase
    <2>2. at' \in Loop /\ at' \notin Ops \cup Persisting \cup Busy \cup Settled \cup Over
        BY <2>1 DEF Loop, Ops, Settled, Over, Busy, Persisting
    <2>3. FirstPhase' = FirstPhase
        BY <1>1, <1>10, <2>1, <2>2 DEF FirstPhase, Busy, Persisting
    <2>4. Waiting' = Waiting /\ Source' = Source
        BY <1>1, <2>3 DEF Waiting, Source
    <2>5. page \in active' /\ Linked(page)'
        BY <1>1, <1>2, <1>7, <1>10 DEF AtPage
    <2>6. InTurn'
        BY <1>1, <1>2, <1>3, <1>8, <2>4, <2>5 DEF InTurn
    <2> QED
        BY <1>5, <2>2, <2>6 DEF LinkInv
<1> QED
    BY <1>9, <1>10

(* Phase 2 and the end.                                                    *)
LEMMA LinksOfReferrers ==
    ASSUME TypeInv, StageInv, LinkInv, Clean, Referrer \/ Applied \/ Close
    PROVE  LinkInv'
<1> USE DEF plan, effects, work, ghost, counts, index
<1>1. /\ UNCHANGED <<file, active, issues, listed, resolver, changed, deleted, purged, reindex>>
      /\ at \in {"phase2", "close"} /\ at' \in Settled
      /\ at' \in Over => referrers' = {}
    BY DEF Referrer, Applied, Close, Execute, LinkInv, Settled, Over
<1>2. EffectsApart /\ Complete /\ Rewritten
    BY <1>1 DEF LinkInv, Settled, Over
<1>3. /\ Removed' = Removed /\ Renewed' = Renewed /\ Final' = Final /\ Referring' = Referring
      /\ \A q : Outlived(q)' = Outlived(q)
    BY <1>1 DEF Removed, Renewed, Final, Referring, IssuePaths, Outlived
<1>4. EffectsApart' /\ Complete'
    <2>1. Resolves'
        BY <1>1, <1>2, <1>3 DEF Resolves, Complete
    <2> QED
        BY <1>1, <1>2, <1>3, <2>1 DEF EffectsApart, Complete
<1>5. Rewritten'
    <2>1. CASE Applied \/ Close
        <3>1. UNCHANGED <<referrers, edges>>
            BY <2>1 DEF Applied, Close
        <3> QED
            BY <1>1, <1>2, <3>1, LinksStay
    <2>2. CASE Referrer
        <3>1. PICK p \in referrers :
                  /\ referrers' = referrers \ {p}
                  /\ IF p \in PathToDocId /\ file[p] # 0
                       THEN edges' = [edges EXCEPT ![p] = Resolve(resolver, file[p])]
                       ELSE edges' = edges
            BY <2>2 DEF Referrer, First
        <3>2. p \in Page /\ p \notin Renewed /\ edges \in [Page -> SUBSET Page]
            BY <3>1 DEF StageInv, TypeInv, Touched, Renewed
        <3>3. \A q \in Page \ {p} : Linked(q)' = Linked(q)
            BY <1>1, <3>1, <3>2 DEF Linked, Resolve
        <3>4. Renewed \subseteq Page /\ PathToDocId \subseteq Page
            BY DEF Renewed, TypeInv, PathToDocId
        <3>5. \A q \in Renewed : q \in active' /\ Linked(q)'
            BY <1>1, <1>2, <3>2, <3>3, <3>4 DEF Rewritten
        <3>6. p \in PathToDocId => file[p] = 0 \/ Linked(p)'
            BY <1>1, <3>1, <3>2 DEF Linked, Resolve
        <3>7. \A q \in Referring \cap PathToDocId : q \in referrers' \/ file'[q] = 0 \/ Linked(q)'
            BY <1>1, <1>2, <3>1, <3>3, <3>4, <3>6 DEF Rewritten
        <3> QED
            BY <1>1, <1>3, <3>5, <3>7 DEF Rewritten, PathToDocId
    <2> QED
        BY <2>1, <2>2
<1>6. at' \notin Ops \cup Persisting \cup Phased
    BY <1>1 DEF Settled, Ops, Phased, Busy, Loop, Over, Persisting
<1> QED
    BY <1>1, <1>4, <1>5, <1>6 DEF LinkInv

LEMMA LinksKept ==
    ASSUME TypeInv, StageInv, LinkInv, [Next]_vars
    PROVE  LinkInv'
<1> USE DEF plan, effects, work, ghost, counts, index
<1>1. faults \in Nat /\ cancels \in Nat /\ edits \in Nat
    BY DEF TypeInv
<1>2. SUFFICES ASSUME Clean' PROVE LinkInv'
    BY DEF LinkInv
<1>3. CASE UNCHANGED vars \/ Closed
    <2>1. UNCHANGED <<file, active, edges, issues, listed, resolver, changed, deleted, purged,
                      reindex, referrers, at, queue, page, ver, faults, cancels, edits>>
        BY <1>3 DEF vars, Closed
    <2>2. FirstPhase' = FirstPhase
        BY <2>1 DEF FirstPhase
    <2>3. Waiting' = Waiting /\ Source' = Source
        BY <2>1, <2>2 DEF Waiting, Source
    <2>4. InTurn' = InTurn /\ AtPage' = AtPage
        BY <2>1, <2>3 DEF InTurn, AtPage, Renewed, Referring, Removed, IssuePaths, Linked, Resolve
    <2>5. Clean
        BY <1>2, <2>1 DEF Clean
    <2> QED
        BY <2>1, <2>4, <2>5, LinksStay DEF LinkInv
<1>4. CASE Propose \/ Proposed
    <2>1. at' \in Before /\ UNCHANGED <<file, changed, deleted, purged, reindex>> /\ at \in Before
        BY <1>4 DEF Propose, Proposed, Before
    <2>2. EffectsApart'
        BY <2>1 DEF EffectsApart, Removed, Renewed, StageInv
    <2>3. at' \notin Ops \cup Persisting \cup Phased \cup Settled \cup Over
        BY <2>1 DEF Before, Settled, Ops, Phased, Busy, Loop, Over, Persisting
    <2> QED
        BY <2>2, <2>3 DEF LinkInv
<1>5. CASE Raise \/ Cancel \/ Edit \/ OtherTask
    <2>1. faults' + cancels' + edits' = faults + cancels + edits + 1
        <3>1. CASE Raise
            BY <1>1, <3>1 DEF Raise
        <3>2. CASE Cancel
            BY <1>1, <3>2 DEF Cancel
        <3>3. CASE Edit \/ OtherTask
            BY <1>1, <3>3 DEF Edit, OtherTask
        <3> QED
            BY <1>5, <3>1, <3>2, <3>3
    <2> QED
        BY <1>1, <1>2, <2>1 DEF Clean
<1>6. CASE LateLands
    <2>1. late # {} /\ UNCHANGED <<faults, cancels, edits>>
        BY <1>6 DEF LateLands
    <2>2. cancels > 0
        BY <2>1 DEF StageInv
    <2> QED
        BY <1>1, <1>2, <2>1, <2>2 DEF Clean
<1>7. CASE Hide
    <2>1. UNCHANGED <<faults, cancels, edits>> /\ (faults > 0 \/ cancels > 0)
        BY <1>7 DEF Hide, StageInv
    <2> QED
        BY <1>1, <1>2, <2>1 DEF Clean
<1>8. CASE \/ Start \/ SkipOp \/ WriteOp \/ ReindexOp \/ AwaitOp \/ NoRowOp \/ Probe \/ Purge
           \/ DeleteOp \/ ReconcileOp
    <2>1. /\ faults' \in {faults, faults + 1} /\ cancels' = cancels /\ edits' = edits
        BY <1>8 DEF Start, SkipOp, WriteOp, ReindexOp, AwaitOp, NoRowOp, Probe, Purge, DeleteOp,
                    ReconcileOp
    <2>2. faults' + cancels' + edits' = 0
        BY <1>2 DEF Clean
    <2>3. faults' = faults
        <3>1. faults' = faults \/ faults' = faults + 1
            BY <2>1
        <3>2. faults + 1 + cancels + edits # 0
            BY <1>1
        <3> QED
            BY <2>1, <2>2, <3>1, <3>2
    <2>4. Clean
        BY <2>1, <2>2, <2>3 DEF Clean
    <2> QED
        BY <1>2, <1>8, <2>4, LinksOfOps
<1>9. CASE Seed \/ Take \/ PhaseOver \/ Persist \/ Referrer \/ Applied \/ Close
    <2>1. UNCHANGED <<faults, cancels, edits>>
        BY <1>9 DEF Seed, Take, PhaseOver, Persist, Referrer, Applied, Close
    <2>2. Clean
        BY <1>2, <2>1 DEF Clean
    <2> QED
        BY <1>9, <2>2, LinksOfSeed, LinksOfPhases, LinksOfPersist, LinksOfReferrers
<1> QED
    BY <1>3, <1>4, <1>5, <1>6, <1>7, <1>8, <1>9 DEF Next

-----------------------------------------------------------------------------
(* The theorems.                                                           *)

LintInv == TypeInv /\ StageInv /\ RowInv /\ EditInv /\ HalfInv /\ LinkInv /\ OrderInv /\ AtomInv

(* The inductive invariant of the pass, for any pages, titles and contents,*)
(* any number of proposals and any number of mishaps.                      *)
THEOREM Inductive == Spec => []LintInv
<1>1. Init => LintInv
    BY InitTyped, InitInv DEF LintInv
<1>2. LintInv /\ [Next]_vars => LintInv'
    BY TypesKept, StagesKept, RowsKept, EditsKept, HalvesKept, LinksKept, OrderKept, AtomKept
       DEF LintInv
<1> QED
    BY <1>1, <1>2, PTL DEF Spec

(* What run_lint_apply keeps of a pass is of its types at every await:     *)
(* paths, operations, and the calls a cancel leaves behind.                *)
THEOREM Typed == Spec => []TypeOK
<1>1. LintInv => TypeOK
    <2> SUFFICES ASSUME TypeInv PROVE TypeOK
        BY DEF LintInv
    <2>1. \A i \in DOMAIN ops : ops[i].path \in Page /\ ops[i].prop \in 1..MaxProposals
        <3>1. \A i \in DOMAIN ops : ops[i] \in Operation
            BY DEF TypeInv
        <3> QED
            BY <3>1 DEF Operation
    <2>2. at \in Awaits \cup {"propose", "waiting", "phase1", "phase1b", "close", "closed"}
        BY DEF TypeInv, Awaits, Before, Ops, Busy, Loop, Over, Persisting
    <2>3. late \subseteq [call : Writing, page : Page, ver : Content]
        BY DEF TypeInv, Writing
    <2>4. at \in {"probe", "purge", "delete", "reconcile"} => next \in DOMAIN ops
        BY DEF TypeInv, Ops
    <2> QED
        BY <2>1, <2>2, <2>3, <2>4 DEF TypeInv, TypeOK
<1> QED
    BY <1>1, Inductive, PTL

(* A pass never takes the file from under an active row: the row is purged *)
(* before the file goes to the trash (_apply_one_op's delete_page), and a  *)
(* row comes up only for a file that was read.                             *)
THEOREM FilesKept == Spec => []RowsKeepFiles
<1>1. LintInv => RowsKeepFiles
    BY DEF LintInv, RowInv
<1> QED
    BY <1>1, Inductive, PTL

(* What the owner of a file writes after the proposals were made is never  *)
(* overwritten: every write and every delete compares the hash first.      *)
THEOREM OwnersWin == Spec => []EditsSurvive
<1>1. LintInv => EditsSurvive
    BY DEF LintInv, EditInv, EditsSurvive
<1> QED
    BY <1>1, Inductive, PTL

(* One error or one cancel leaves no page visible that is half written:    *)
(* _persist_layered_page takes the page down before it passes the error on.*)
THEOREM NoHalfWritten == Spec => []HalfWrittenHidden
<1>1. LintInv => HalfWrittenHidden
    <2> SUFFICES ASSUME LintInv, at = "closed", ~overtaken, faults + cancels <= 1,
                        NEW p \in active
                 PROVE  Sound(p)
        BY DEF HalfWrittenHidden, Sound
    <2>1. Calm /\ at \notin Busy
        BY DEF Calm, Busy, Persisting
    <2> QED
        BY <2>1 DEF LintInv, HalfInv
<1> QED
    BY <1>1, Inductive, PTL

(* After an undisturbed pass the stored links of the pages it relinks (what*)
(* it wrote or reindexed, and the knowledge pages the issues were about)   *)
(* are those of their bodies, in the tree that the pass leaves.            *)
THEOREM LinksFollow == Spec => []LinksCurrent
<1>1. LintInv => LinksCurrent
    <2> SUFFICES ASSUME LintInv, at = "closed", Clean,
                        NEW p \in Relinked,
                        file[p] # 0
                 PROVE  /\ edges[p] \subseteq active
                        /\ \A q \in active :
                               TitleOf[q] \in Mentions[file[p]] /\ ~Outlived(q) =>
                                   \E r \in edges[p] : TitleOf[r] = TitleOf[q]
        BY DEF LinksCurrent, Fresh
    <2>1. Complete /\ Rewritten /\ referrers = {}
        BY DEF LintInv, LinkInv, Settled, Over
    <2>2. /\ p \in Page /\ Final \subseteq active /\ active \subseteq Final
          /\ active \subseteq Page
        BY <2>1 DEF Complete, Rewritten, Final, Renewed, Relinked, LintInv, TypeInv, IndexTypeOK
    <2>3. Linked(p)
        <3>1. CASE p \in Renewed
            BY <2>1, <3>1 DEF Rewritten
        <3>2. CASE p \notin Renewed
            <4>1. p \in PathToDocId \ Removed /\ p \in IssuePaths
                BY <2>2, <3>2 DEF Final, Renewed, Relinked, PathToDocId
            <4> QED
                BY <2>1, <3>2, <4>1 DEF Rewritten, Referring
        <3> QED
            BY <3>1, <3>2
    <2>4. /\ Mentions[file[p]] \subseteq Title /\ TitleOf \in [Page -> Title]
          /\ None \notin Page /\ resolver \in [Title -> Page \cup {None}]
        BY <2>2, LintAssumption DEF LintInv, TypeInv, IndexTypeOK
    <2>5. \A r \in edges[p] : r \in Final
        BY <2>1, <2>3, <2>4 DEF Linked, Resolve, Complete, Resolves
    <2>6. ASSUME NEW q \in active, TitleOf[q] \in Mentions[file[p]], ~Outlived(q)
          PROVE  \E r \in edges[p] : TitleOf[r] = TitleOf[q]
        <3>1. resolver[TitleOf[q]] # None
            BY <2>1, <2>2, <2>6 DEF Complete, Resolves
        <3>2. /\ resolver[TitleOf[q]] \in edges[p]
              /\ TitleOf[resolver[TitleOf[q]]] = TitleOf[q]
            BY <2>1, <2>3, <2>4, <2>6, <3>1 DEF Linked, Resolve, Complete, Resolves
        <3> QED
            BY <3>2
    <2> QED
        BY <2>2, <2>5, <2>6
<1> QED
    BY <1>1, Inductive, PTL

(* Undisturbed, a proposal that shares no path with another is carried out *)
(* as a whole or not at all: what the preflight found still holds when its *)
(* operations' turn comes (_preflight_proposal and _apply_one_op).         *)
THEOREM WholeOrNothing == Spec => []ProposalAtomic
<1>1. LintInv => ProposalAtomic
    BY DEF LintInv, AtomInv, ProposalAtomic, Undisturbed, Lone, Before, Ops
<1> QED
    BY <1>1, Inductive, PTL
===============================================================================

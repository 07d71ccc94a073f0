------------------------------ MODULE Retrieve ------------------------------
(***************************************************************************)
(* One hybrid search (HybridSearcher.search): the query is embedded, up to *)
(* four legs run over the index, their hits are fused, repeats of one      *)
(* document are demoted, a reranker may reorder the head, and the rows of  *)
(* what is left are read.  Every read is a call of its own into the store  *)
(* and no lock is held over them: documents are indexed again, hidden and  *)
(* deleted between any two.                                                *)
(*                                                                         *)
(* What a leg finds, and in which order, is the index's business: any      *)
(* ranking of chunks it may see.  Fusion is in Fusion.                     *)
(***************************************************************************)
EXTENDS Fusion

CONSTANTS
    Doc,        \* documents
    Chunk,      \* chunk ids, numbered as the database gives them out
    First,      \* [Chunk -> Doc \cup {None}]: the chunks indexed at the start
    Config,     \* the searchers and calls that are tried
    PerLeg,     \* hits a leg may return
    MaxPromoted, \* bound: chunks that show the images of the asset leg
    MaxWrites,  \* writes by other tasks during the search
    None

ASSUME RetrieveAssumption ==
    /\ Chunk \subseteq Nat /\ IsFiniteSet(Chunk)
    /\ {PerLeg, MaxPromoted} \subseteq Nat
    /\ None \notin Doc
    /\ First \in [Chunk -> Doc \cup {None}]
    /\ \A k \in Config : /\ k.mode \in {"hybrid", "bm25", "vector"}
                         /\ k.fusion \in {"rrf", "combsum", "combmnz"}
                         /\ k.weight \in [ToSet(Legs) -> Nat]
                         /\ {k.alpha, k.window, k.limit} \subseteq Nat

VARIABLES
    doc,       \* the document of each chunk row; None: no such row
    row,       \* the row of each document: "active", "hidden" or None
    last,      \* the last chunk id given out
    writes,    \* how many writes other tasks have made
    shown,     \* the chunks a search was allowed to find, since this one began
    call,      \* the searcher and its arguments
    pc,        \* the await the search is at
    todo,      \* the legs created and not run yet
    leg,       \* the hits of each leg, best first
    ranked,    \* the fused and demoted ranking
    top,       \* what the rerank stage left of it
    fetched,   \* the chunks whose rows the search holds; None: not read
    hits,      \* the answer: chunks, best first
    met        \* the provider failures met, as <<call, kind>>

store == <<doc, row, last, writes, shown>>

vars == <<store, call, pc, todo, leg, ranked, top, fetched, hits, met>>

-----------------------------------------------------------------------------
(* The store, as other tasks change it.                                    *)

Rows(docs) == { c \in Chunk : docs[c] # None }

Active(docs, rows) == { c \in Rows(docs) : rows[docs[c]] = "active" }

Without(d) == [c \in Chunk |-> IF doc[c] = d THEN None ELSE doc[c]]

(* A document is persisted again: its row first,                           *)
Upsert(d) ==
    /\ row' = [row EXCEPT ![d] = "active"]
    /\ UNCHANGED <<doc, last>>

(* then its chunks, to one or to none.  Ids are never given out twice.     *)
ReplaceChunks(d) ==
    /\ row[d] # None
    /\ \/ doc' = Without(d) /\ UNCHANGED last
       \/ /\ last + 1 \in Chunk
          /\ last' = last + 1
          /\ doc' = [Without(d) EXCEPT ![last'] = d]
    /\ UNCHANGED row

Hide(d) ==
    /\ row[d] = "active"
    /\ row' = [row EXCEPT ![d] = "hidden"]
    /\ UNCHANGED <<doc, last>>

Delete(d) ==
    /\ row[d] # None
    /\ row' = [row EXCEPT ![d] = None]
    /\ doc' = Without(d)
    /\ UNCHANGED last

Write ==
    /\ pc \notin {"done", "failed"} /\ writes < MaxWrites
    /\ \E d \in Doc : Upsert(d) \/ ReplaceChunks(d) \/ Hide(d) \/ Delete(d)
    /\ writes' = writes + 1
    /\ shown' = shown \cup Active(doc', row')
    /\ UNCHANGED <<call, pc, todo, leg, ranked, top, fetched, hits, met>>

-----------------------------------------------------------------------------
(* The search.                                                             *)

(* Some documents may already be hidden, half written, when it begins.     *)
Init ==
    /\ doc = First
    /\ last = Max({ c \in Chunk : First[c] # None } \cup {0})
    /\ row \in [Doc -> {"active", "hidden"}]
    /\ writes = 0 /\ shown = Active(doc, row)
    /\ call \in Config
    /\ pc = "text"
    /\ todo = IF call.mode = "vector" THEN {} ELSE {"bm25"}
    /\ leg = [l \in ToSet(Legs) |-> <<>>]
    /\ ranked = <<>> /\ top = <<>> /\ fetched = None /\ hits = <<>> /\ met = {}

Fail ==
    /\ pc' = "failed"
    /\ UNCHANGED <<store, call, todo, leg, ranked, top, fetched, hits>>

(* Mutant: the vector mode degrades too, to no leg at all.                 *)
DegradesAlways == ~call.strict

(* A transient failure to embed costs the leg, not the search: in the      *)
(* hybrid mode, and outside an eval.                                       *)
Degrades == call.mode = "hybrid" /\ ~call.strict

Wired(l) == call.mode # "bm25" /\ IF l = "vector" THEN call.text ELSE call.asset

(* The query is embedded for the text leg, then for the asset leg.         *)
Embed(at, l, next) ==
    /\ pc = at
    /\ \/ /\ ~Wired(l)
          /\ pc' = next
          /\ UNCHANGED <<store, call, todo, leg, ranked, top, fetched, hits, met>>
       \/ /\ Wired(l)
          /\ pc' = next /\ todo' = todo \cup {l}
          /\ UNCHANGED <<store, call, leg, ranked, top, fetched, hits, met>>
       \/ /\ Wired(l) /\ Degrades
          /\ pc' = next /\ met' = met \cup {<<l, "transient">>}
          /\ UNCHANGED <<store, call, todo, leg, ranked, top, fetched, hits>>
       \/ /\ Wired(l) /\ ~Degrades
          /\ met' = met \cup {<<l, "transient">>}
          /\ Fail
       \/ /\ Wired(l)
          /\ met' = met \cup {<<l, "permanent">>}
          /\ Fail

(* Rankings of chunks of S.  Reciprocal ranks ignore scores; elsewhere two *)
(* hits tie or do not.                                                     *)
Rankings(S, n) ==
    { [i \in DOMAIN p |-> [chunk |-> p[i], doc |-> doc[p[i]], score |-> s[i]]] :
        p \in { q \in SetToAllKPermutations(S) : Len(q) <= n },
        s \in { r \in [1 .. n -> 1 .. 2] :
                  /\ \A i, j \in 1 .. n : i < j => r[i] >= r[j]
                  /\ call.fusion = "rrf" => \A i \in 1 .. n : r[i] = 1 } }

(* Mutant: the join does not look whether the document is active.          *)
FindableAny == Rows(doc)

(* What the text, vector and graph legs join their hits with.              *)
Findable == Active(doc, row)

(* The legs are tasks: each looks at the index when its turn comes.        *)
RunLeg(l) ==
    /\ pc = "legs" /\ l \in todo \ {"asset"}
    /\ \E hs \in Rankings(Findable, PerLeg) : leg' = [leg EXCEPT ![l] = hs]
    /\ todo' = todo \ {l}
    /\ UNCHANGED <<store, call, pc, ranked, top, fetched, hits, met>>

(* The asset leg finds images; the chunks that show them, any number, are  *)
(* looked up afterwards, whatever the state of their documents.            *)
Promote ==
    /\ pc = "legs" /\ todo \subseteq {"asset"}
    /\ IF todo = {} THEN UNCHANGED leg
       ELSE \E hs \in Rankings(Rows(doc), MaxPromoted) : leg' = [leg EXCEPT !["asset"] = hs]
    /\ todo' = {} /\ pc' = "promoted"
    /\ UNCHANGED <<store, call, ranked, top, fetched, hits, met>>

(* A promoted chunk whose row has gone since is dropped.                   *)
KeepRows ==
    /\ pc = "promoted"
    /\ leg' = [leg EXCEPT !["asset"] =
                 Selected(@, { i \in DOMAIN @ : @[i].chunk \in Rows(doc) })]
    /\ pc' = "graph"
    /\ UNCHANGED <<store, call, todo, ranked, top, fetched, hits, met>>

(* The graph leg starts from the best text hits, vector and bm25 in turn.  *)
Seeds ==
    LET v == leg["vector"]
        f == leg["bm25"]
        turn(c) == Min({ 2 * i - 1 : i \in { j \in DOMAIN v : v[j].chunk = c } }
                       \cup { 2 * i : i \in { j \in DOMAIN f : f[j].chunk = c } })
        text == Found(v) \cup Found(f)
    IN { c \in text : Cardinality({ x \in text : turn(x) < turn(c) }) < call.seeds }

(* Mutant: the graph leg joins the single-leg modes.                       *)
GraphRunsAlways == call.weight["graph"] # 0 /\ Seeds # {}

GraphRuns == call.mode = "hybrid" /\ call.weight["graph"] # 0 /\ Seeds # {}

(* The ranking before and after repeats are demoted.                       *)
Plain(legs) == Sorted(Inserted(legs), Fused(call.fusion, legs, call.weight))

Ranking(legs) ==
    LET plain == Plain(legs)
    IN Sorted(plain, Demoted(legs, plain, Fused(call.fusion, legs, call.weight),
                             call.alpha))

Reranks == call.mode = "hybrid" /\ call.reranker

Cut(seq) == SubSeq(seq, 1, Min({Len(seq), call.limit}))

(* The graph leg's neighbours arrive, and all legs are fused, sorted,      *)
(* demoted and sorted again without another await.                         *)
Fuse ==
    /\ pc = "graph"
    /\ \E hs \in IF GraphRuns THEN Rankings(Findable \ Seeds, PerLeg) ELSE {<<>>} :
         LET legs == [leg EXCEPT !["graph"] = hs]
         IN IF call.fusion = "combmnz" /\ CombMnzRaises(legs, call.weight)
            THEN /\ met' = met \cup {<<"fusion", "KeyError">>}
                 /\ Fail
            ELSE /\ leg' = legs
                 /\ ranked' = Ranking(legs)
                 /\ IF Reranks THEN pc' = "window" /\ UNCHANGED top
                    ELSE pc' = "rows" /\ top' = Cut(ranked')
                 /\ UNCHANGED <<store, call, todo, fetched, hits, met>>

(* Mutant: a small rerank window starves the answer.                       *)
WindowUnclamped == SubSeq(ranked, 1, Min({Len(ranked), call.window}))

(* The reranker's window is never narrower than the answer.                *)
Window == SubSeq(ranked, 1, Min({Len(ranked), Max({call.window, call.limit})}))

ReadWindow ==
    /\ pc = "window"
    /\ LET there == ToSet(Window) \cap Rows(doc)
       IN IF there = {}
          THEN /\ top' = Cut(ranked) /\ pc' = "rows"
               /\ UNCHANGED <<store, call, todo, leg, ranked, fetched, hits, met>>
          ELSE /\ fetched' = there /\ pc' = "rerank"
               /\ UNCHANGED <<store, call, todo, leg, ranked, top, hits, met>>

(* The reranker answers with any order; or the fused order stands, and the *)
(* rows are read anew; or the search fails.                                *)
Rerank ==
    /\ pc = "rerank"
    /\ \/ /\ \E p \in SetToSeqs(fetched) : top' = Cut(p)
          /\ pc' = "documents"
          /\ UNCHANGED <<store, call, todo, leg, ranked, fetched, hits, met>>
       \/ /\ top' = Cut(ranked) /\ fetched' = None /\ pc' = "rows"
          /\ met' = met \cup {<<"rerank", "transient">>}
          /\ UNCHANGED <<store, call, todo, leg, ranked, hits>>
       \/ /\ met' = met \cup {<<"rerank", "permanent">>}
          /\ Fail

ReadRows ==
    /\ pc = "rows"
    /\ fetched' = ToSet(top) \cap Rows(doc)
    /\ pc' = "documents"
    /\ UNCHANGED <<store, call, todo, leg, ranked, top, hits, met>>

(* The documents of the rows held; a row that was not found is skipped.    *)
(* A hit whose document is gone by now has no path.                        *)
Answer ==
    /\ pc = "documents"
    /\ hits' = LET held == Selected(top, { i \in DOMAIN top : top[i] \in fetched })
               IN [i \in DOMAIN held |->
                     [chunk |-> held[i], path |-> row[Owner(leg, held[i])] # None]]
    /\ pc' = "done"
    /\ UNCHANGED <<store, call, todo, leg, ranked, top, fetched, met>>

Search ==
    \/ Embed("text", "vector", "image")
    \/ Embed("image", "asset", "legs")
    \/ \E l \in ToSet(Legs) : RunLeg(l)
    \/ Promote
    \/ KeepRows
    \/ Fuse
    \/ ReadWindow
    \/ Rerank
    \/ ReadRows
    \/ Answer

Next == Search \/ Write

Spec == Init /\ [][Next]_vars

-----------------------------------------------------------------------------
Shown == { hits[i].chunk : i \in DOMAIN hits }

(* Outages are sorted (search.py:443-478, 806-809): a search fails exactly *)
(* when a provider failed for good, or failed to embed a query that has    *)
(* nothing else to stand on or is being measured; any other blip costs a   *)
(* leg, or the reranking, and never the answer.                            *)
OutagesDegrade ==
    /\ pc = "failed" =>
         \E m \in met :
            \/ m[2] = "permanent"
            \/ m[1] # "rerank" /\ (call.mode = "vector" \/ call.strict)
    /\ pc = "done" =>
         \A m \in met :
            \/ m = <<"rerank", "transient">>
            \/ m[2] = "transient" /\ call.mode = "hybrid" /\ ~call.strict

(* The single-leg modes are ablations (search.py:574-579, 682-687): what   *)
(* they answer was found by their own leg alone, and, with no penalty and  *)
(* one leg, in that leg's order, whatever else is wired.                   *)
AblationPure ==
    pc = "done" /\ call.mode # "hybrid" =>
      LET own == IF call.mode = "bm25" THEN {"bm25"} ELSE {"vector", "asset"}
      IN /\ Shown \subseteq UNION { Found(leg[l]) : l \in own }
         /\ call.mode = "bm25" /\ call.alpha = 0 =>
              \A i, j \in DOMAIN hits :
                i < j => Place(leg["bm25"], hits[i].chunk) < Place(leg["bm25"], hits[j].chunk)

(* The penalty demotes repeats only (search.py:150-179): the best chunk of *)
(* a document never ranks lower than it did without the penalty, so no     *)
(* document loses its place in the answer to another's.                    *)
BestNeverDemoted ==
    pc \in {"window", "rows"} =>
      LET plain == Plain(leg)
          best(i) == \A j \in 1 .. i - 1 : Owner(leg, plain[j]) # Owner(leg, plain[i])
      IN \A i \in DOMAIN plain :
           best(i) => \E j \in 1 .. i : ranked[j] = plain[i]

(* Nothing is lost on the way (search.py:676-775, 796-863): with no write  *)
(* in between, the answer holds as many of the chunks found as it may; and *)
(* never more.                                                             *)
Complete ==
    pc = "done" =>
      /\ Len(hits) <= call.limit /\ Cardinality(Shown) = Len(hits)
      /\ writes = 0 => Len(hits) = Min({call.limit, Cardinality(Keys(leg))})

(* A hidden document stays hidden (sqlite.py:755-760): a chunk that no     *)
(* image brought in belonged to an active document at some moment of the   *)
(* search.                                                                 *)
HiddenStaysHidden ==
    pc = "done" => Shown \subseteq shown \cup Found(leg["asset"])

(* What sqlite.py:755-760 says of every hit: no chunk of a deactivated     *)
(* document is found.                                                      *)
NoHiddenHit == pc = "done" => Shown \subseteq shown

(* What search.py:745-749 says of a race with a delete: the hit is left    *)
(* out rather than half formed.                                            *)
NoHalfFormedHit == \A i \in DOMAIN hits : hits[i].path

(* What search.py:289-292 says of a leg with no weight: it is left out of  *)
(* the multiplier, and of nothing else.                                    *)
DisabledLegHarmless == <<"fusion", "KeyError">> \notin met
=============================================================================

----------------------------- MODULE MCRetrieve -----------------------------
(* Small instances of Retrieve for TLC.                                    *)
EXTENDS Retrieve

CONSTANTS d, e

(* Document d has two chunks and e has one; the fourth id is free.         *)
Indexed == <<d, d, e, None>>

Even == [bm25 |-> 1, vector |-> 1, asset |-> 1, graph |-> 0]

Base == [mode |-> "hybrid", fusion |-> "rrf", weight |-> Even, alpha |-> 1,
         strict |-> FALSE, text |-> TRUE, asset |-> FALSE, reranker |-> FALSE,
         window |-> 1, seeds |-> 1, limit |-> 2]

(* A production search with every leg and a reranker of a narrow window;   *)
(* the two score fusions, one with bm25 switched off; the two ablations;   *)
(* and an eval's search.                                                   *)
Calls ==
    { [Base EXCEPT !.asset = TRUE, !.reranker = TRUE, !.weight["graph"] = 1, !.seeds = 2],
      [Base EXCEPT !.fusion = "combmnz"],
      [Base EXCEPT !.fusion = "combsum", !.weight["bm25"] = 0, !.weight["vector"] = 2],
      [Base EXCEPT !.mode = "bm25", !.alpha = 0, !.reranker = TRUE, !.weight["graph"] = 1],
      [Base EXCEPT !.mode = "vector", !.asset = TRUE],
      [Base EXCEPT !.strict = TRUE] }

(* CombMNZ with bm25 switched off.                                         *)
Silenced == { [Base EXCEPT !.fusion = "combmnz", !.weight["bm25"] = 0] }
=============================================================================

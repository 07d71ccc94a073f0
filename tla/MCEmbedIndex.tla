--------------------------- MODULE MCEmbedIndex ---------------------------
(* Two files that are one document, another file and a page; the contents  *)
(* share the text of a chunk.                                              *)
EXTENDS EmbedIndex

CONSTANTS f, g, h, p, x, y, i, j

MCCut == <<<<x>>, <<x, y>>>>
MCKey == [file \in {f, g, h} |-> IF file = g THEN f ELSE file]

(* No step tells identities apart but by whether they are equal.           *)
Symmetry == Permutations({i, j})
=============================================================================

------------------------------- MODULE Fusion -------------------------------
(***************************************************************************)
(* How the legs of a hybrid search become one ranking                      *)
(* (domains/info/search.py): reciprocal rank fusion, CombSUM and CombMNZ,  *)
(* and the demotion of repeats of one document.                            *)
(*                                                                         *)
(* A leg is a sequence of hits, best first, each a chunk, its document and *)
(* a score of which higher is better; no leg holds a chunk twice.  Scores  *)
(* are integers: a share of 1/(k + rank), or of a normalised score, is     *)
(* taken of Unit, and the penalty's quotient of Fine times the score.      *)
(* Unit and Fine are multiples of every divisor that legs of three hits    *)
(* meet.                                                                   *)
(***************************************************************************)
EXTENDS Integers, FiniteSets, Sequences, SequencesExt, FiniteSetsExt

Unit == 12

Fine == 6

RrfK == 1       \* rrf_k, at the size of the legs

Legs == <<"bm25", "vector", "asset", "graph">>

(* The domain of ahead, with ahead[c] before c.                            *)
InOrder(ahead) ==
    [i \in 1 .. Cardinality(DOMAIN ahead) |->
        CHOOSE c \in DOMAIN ahead : Cardinality(ahead[c]) = i - 1]

(* The part of a sequence at the places I.                                 *)
Selected(seq, I) ==
    LET place == InOrder([j \in I |-> { i \in I : i < j }])
    IN [k \in DOMAIN place |-> seq[place[k]]]

Found(hs) == { hs[i].chunk : i \in DOMAIN hs }

Keys(legs) == UNION { Found(legs[l]) : l \in DOMAIN legs }

Place(hs, c) == CHOOSE i \in DOMAIN hs : hs[i].chunk = c

FoundBy(legs, c) == { l \in DOMAIN legs : c \in Found(legs[l]) }

(* What the legs that found a chunk give it, by their weights.             *)
Weighted(w, share) ==
    LET part(l) == IF l \in DOMAIN share THEN w[l] * share[l] ELSE 0
    IN part("bm25") + part("vector") + part("asset") + part("graph")

RankShare(hs, c) == Unit \div (RrfK + Place(hs, c))

Rrf(legs, w, c) == Weighted(w, [l \in FoundBy(legs, c) |-> RankShare(legs[l], c)])

(* Min-max within the leg; a leg of one score gives every chunk the whole. *)
Normalised(hs, c) ==
    LET scores == { hs[i].score : i \in DOMAIN hs }
        lo == Min(scores)
        hi == Max(scores)
    IN IF lo = hi THEN Unit
       ELSE ((hs[Place(hs, c)].score - lo) * Unit) \div (hi - lo)

CombSum(legs, w, c) == Weighted(w, [l \in FoundBy(legs, c) |-> Normalised(legs[l], c)])

(* The legs that count towards consensus: those with a weight.             *)
Consensus(legs, w, c) ==
    { l \in FoundBy(legs, c) : w[l] # 0 }

CombMnz(legs, w, c) == CombSum(legs, w, c) * Cardinality(Consensus(legs, w, c))

(* leg_count[k]: the multiplier of a chunk no weighted leg found is looked *)
(* up and is not there.                                                    *)
CombMnzRaises(legs, w) == \E c \in Keys(legs) : Consensus(legs, w, c) = {}

Fused(fusion, legs, w) ==
    [c \in Keys(legs) |-> CASE fusion = "rrf"     -> Rrf(legs, w, c)
                            [] fusion = "combsum" -> CombSum(legs, w, c)
                            [] fusion = "combmnz" -> CombMnz(legs, w, c)]

(* The order in which the fused map got its keys: leg by leg.              *)
Inserted(legs) ==
    LET hit(f) == legs[Legs[f[1]]][f[2]]
        found == UNION { { <<l, i>> : i \in DOMAIN legs[Legs[l]] } : l \in DOMAIN Legs }
        first == { f \in found : \A g \in found : g[1] < f[1] => hit(g).chunk # hit(f).chunk }
        place == InOrder([f \in first |->
                           { g \in first : g[1] < f[1] \/ (g[1] = f[1] /\ g[2] < f[2]) }])
    IN [k \in DOMAIN place |-> hit(place[k]).chunk]

(* sorted(..., reverse=True) keeps the order of equal scores.              *)
Sorted(seq, score) ==
    LET rated == { <<i, score[seq[i]]>> : i \in DOMAIN seq }
        place == InOrder([r \in rated |->
                           { q \in rated : q[2] > r[2] \/ (q[2] = r[2] /\ q[1] < r[1]) }])
    IN [k \in DOMAIN place |-> seq[place[k][1]]]

(* The document of a chunk, as the legs that found it carry it.            *)
Owner(legs, c) ==
    LET l == CHOOSE x \in DOMAIN legs : c \in Found(legs[x])
    IN legs[l][Place(legs[l], c)].doc

(* Mutant: the chunks of the document are counted over the whole ranking,  *)
(* worse ones too.                                                         *)
SeenAnywhere(legs, seq, i) ==
    Cardinality({ j \in DOMAIN seq \ {i} : Owner(legs, seq[j]) = Owner(legs, seq[i]) })

(* How many better chunks of its document come before the i-th chunk.      *)
Seen(legs, seq, i) ==
    Cardinality({ j \in 1 .. i - 1 : Owner(legs, seq[j]) = Owner(legs, seq[i]) })

(* The n-th chunk of a document is worth 1 / (1 + alpha * (n - 1)).        *)
Demoted(legs, seq, score, alpha) ==
    LET at(c) == CHOOSE i \in DOMAIN seq : seq[i] = c
    IN [c \in ToSet(seq) |-> score[c] * (Fine \div (1 + alpha * Seen(legs, seq, at(c))))]
=============================================================================

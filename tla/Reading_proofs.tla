--------------------------- MODULE Reading_proofs ---------------------------
(***************************************************************************)
(* What TLAPS proves of the two questions a reader asks.                   *)
(*                                                                         *)
(* Of a search, for any documents, searchers and limits, and whatever is   *)
(* written meanwhile: which outages it survives, that what is hidden stays *)
(* hidden, that nothing found is lost, that the penalty demotes repeats    *)
(* only and that the single-leg modes are ablations.  The fused map, its   *)
(* two sorts and the parts of a sequence are all InOrder of a total order, *)
(* which lists each element at the place that counts what is ahead of it   *)
(* (OrderedIs).                                                            *)
(*                                                                         *)
(* Of a link: where the four resolvers agree, for any pages, titles and    *)
(* normalisation, and whichever page of a layer the database lists first.  *)
(* One fact carries it: the pages that bear a title lie under its own key  *)
(* (BearersUnder), so two of them crowd the lookup out unless it stems to  *)
(* another key.                                                            *)
(***************************************************************************)
EXTENDS Retrieve, Wikilinks, FiniteSetTheorems, SequenceTheorems, TLAPS

-----------------------------------------------------------------------------
(* Searches.                                                               *)

(* How a searcher is to be configured: CombMNZ with a text or image leg of *)
(* no weight raises (DisabledLegHarmless is the claim that it does not).   *)
(* The graph leg may have none: it is not run then.                        *)
WeightsSet ==
    \A k \in Config :
        k.fusion = "combmnz" => \A l \in ToSet(Legs) \ {"graph"} : k.weight[l] # 0

(* A provider failure that a search of this kind takes in its stride.      *)
Survived(m) ==
    \/ m = <<"rerank", "transient">>
    \/ m[2] = "transient" /\ call.mode = "hybrid" /\ ~call.strict

(* One that ends it.                                                       *)
Fatal(m) ==
    \/ m[2] = "permanent"
    \/ m[1] # "rerank" /\ (call.mode = "vector" \/ call.strict)

(* The failures met so far are survived ones until the one that is not.    *)
IInv ==
    /\ call \in Config
    /\ DOMAIN leg = ToSet(Legs)
    /\ pc # "failed" => \A m \in met : Survived(m)
    /\ pc = "failed" => \E m \in met : Fatal(m)

(* A chunk some leg found has a leg that counts, if every leg that found   *)
(* anything has weight.                                                    *)
LEMMA ConsensusFound ==
    ASSUME NEW legs, NEW w,
           \A l \in DOMAIN legs : w[l] # 0 \/ legs[l] = <<>>
    PROVE  ~CombMnzRaises(legs, w)
<1> SUFFICES ASSUME NEW c \in Keys(legs) PROVE Consensus(legs, w, c) # {}
    BY DEF CombMnzRaises
<1>1. PICK l \in DOMAIN legs : c \in Found(legs[l])
    BY DEF Keys
<1>2. legs[l] # <<>>
    BY <1>1 DEF Found
<1>3. l \in Consensus(legs, w, c)
    BY <1>1, <1>2 DEF Consensus, FoundBy
<1> QED
    BY <1>3

LEMMA EmbedKept ==
    ASSUME IInv, NEW at, NEW l \in {"vector", "asset"}, NEW next \in {"image", "legs"},
           at # "failed", Embed(at, l, next)
    PROVE  IInv'
<1>1. /\ call' = call /\ leg' = leg /\ pc # "failed"
      /\ \A m \in met : Survived(m)
    BY DEF Embed, Fail, IInv
<1>2. CASE UNCHANGED met /\ pc' = next
    BY <1>1, <1>2 DEF IInv, Survived
<1>3. CASE Degrades /\ pc' = next /\ met' = met \cup {<<l, "transient">>}
    <2>1. Survived(<<l, "transient">>)
        BY <1>3 DEF Survived, Degrades
    <2> QED
        BY <1>1, <1>3, <2>1 DEF IInv, Survived
<1>4. CASE Wired(l) /\ ~Degrades /\ pc' = "failed" /\ met' = met \cup {<<l, "transient">>}
    <2>1. call.mode \in {"hybrid", "bm25", "vector"}
        BY RetrieveAssumption DEF IInv
    <2>2. Fatal(<<l, "transient">>)
        BY <1>4, <2>1 DEF Fatal, Degrades, Wired
    <2> QED
        BY <1>1, <1>4, <2>2 DEF IInv, Fatal
<1>5. CASE pc' = "failed" /\ met' = met \cup {<<l, "permanent">>}
    <2>1. Fatal(<<l, "permanent">>)
        BY DEF Fatal
    <2> QED
        BY <1>1, <1>5, <2>1 DEF IInv, Fatal
<1> QED
    BY <1>2, <1>3, <1>4, <1>5 DEF Embed, Fail

(* The fusion never raises.                                                *)
LEMMA FuseKept ==
    ASSUME WeightsSet, IInv, Fuse
    PROVE  IInv'
<1>1. PICK hs \in IF GraphRuns THEN Rankings(Findable \ Seeds, PerLeg) ELSE {<<>>} :
        LET legs == [leg EXCEPT !["graph"] = hs]
        IN IF call.fusion = "combmnz" /\ CombMnzRaises(legs, call.weight)
           THEN pc' = "failed"
           ELSE /\ leg' = legs /\ pc' \in {"window", "rows"}
                /\ UNCHANGED <<call, met>>
    BY DEF Fuse, Fail
<1> DEFINE legs == [leg EXCEPT !["graph"] = hs]
<1>2. DOMAIN legs = ToSet(Legs) /\ legs["graph"] = hs
    BY DEF IInv, ToSet, Legs
<1>3. ~(call.fusion = "combmnz" /\ CombMnzRaises(legs, call.weight))
    <2> SUFFICES ASSUME call.fusion = "combmnz" PROVE ~CombMnzRaises(legs, call.weight)
        OBVIOUS
    <2>1. \A l \in ToSet(Legs) \ {"graph"} : call.weight[l] # 0
        BY DEF WeightsSet, IInv
    <2>2. call.weight["graph"] # 0 \/ legs["graph"] = <<>>
        BY <1>1, <1>2 DEF GraphRuns
    <2> QED
        BY <1>2, <2>1, <2>2, ConsensusFound
<1>4. leg' = legs /\ pc' \in {"window", "rows"} /\ UNCHANGED <<call, met>>
    BY <1>1, <1>3
<1>5. pc # "failed"
    BY DEF Fuse
<1> QED
    BY <1>2, <1>4, <1>5 DEF IInv, Survived, Fatal

LEMMA RerankKept ==
    ASSUME IInv, Rerank
    PROVE  IInv'
<1>1. call' = call /\ leg' = leg /\ \A m \in met : Survived(m)
    BY DEF Rerank, Fail, IInv
<1>2. CASE pc' \in {"documents", "rows"} /\ met' \in {met, met \cup {<<"rerank", "transient">>}}
    BY <1>1, <1>2 DEF IInv, Survived
<1>3. CASE pc' = "failed" /\ met' = met \cup {<<"rerank", "permanent">>}
    <2>1. Fatal(<<"rerank", "permanent">>)
        BY DEF Fatal
    <2> QED
        BY <1>1, <1>3, <2>1 DEF IInv, Fatal
<1> QED
    BY <1>2, <1>3 DEF Rerank, Fail

LEMMA InvKept == WeightsSet /\ IInv /\ [Next]_vars => IInv'
<1> SUFFICES ASSUME WeightsSet, IInv, [Next]_vars PROVE IInv'
    OBVIOUS
<1>1. CASE Embed("text", "vector", "image") \/ Embed("image", "asset", "legs")
    BY <1>1, EmbedKept
<1>2. CASE Fuse
    BY <1>2, FuseKept
<1>3. CASE Rerank
    BY <1>3, RerankKept
<1>4. CASE (\E l \in ToSet(Legs) : RunLeg(l)) \/ Promote \/ KeepRows
    <2>1. /\ pc # "failed" /\ pc' # "failed" /\ UNCHANGED <<call, met>>
          /\ DOMAIN leg' = DOMAIN leg
        BY <1>4 DEF RunLeg, Promote, KeepRows
    <2> QED
        BY <2>1 DEF IInv, Survived
<1>5. CASE ReadWindow \/ ReadRows \/ Answer
    <2>1. pc # "failed" /\ pc' # "failed" /\ UNCHANGED <<call, met, leg>>
        BY <1>5 DEF ReadWindow, ReadRows, Answer
    <2> QED
        BY <2>1 DEF IInv, Survived
<1>6. CASE Write \/ UNCHANGED vars
    <2>1. UNCHANGED <<pc, call, met, leg>>
        BY <1>6 DEF Write, vars
    <2> QED
        BY <2>1 DEF IInv, Survived, Fatal
<1> QED
    BY <1>1, <1>2, <1>3, <1>4, <1>5, <1>6 DEF Next, Search

LEMMA InitInv == Init => IInv
BY DEF Init, IInv

(* Whatever other tasks write meanwhile, a search fails only when a        *)
(* provider failed for good, or failed to embed a query that stands on     *)
(* nothing else or is measured; it never fails in the fusion, and of the   *)
(* failures it survives none was more than a blip (HybridSearcher.search). *)
THEOREM OutagesSorted ==
    ASSUME WeightsSet
    PROVE  Spec => []OutagesDegrade
<1>1. IInv => OutagesDegrade
    BY DEF IInv, OutagesDegrade, Survived, Fatal
<1> QED
    BY <1>1, InitInv, InvKept, PTL DEF Spec

-----------------------------------------------------------------------------
(* Orders.  InOrder counts what is ahead of each element; for a total      *)
(* order of a finite set every count from 0 on occurs, and once.           *)

Total(ahead) ==
    /\ IsFiniteSet(DOMAIN ahead)
    /\ \A c \in DOMAIN ahead : ahead[c] \subseteq DOMAIN ahead /\ c \notin ahead[c]
    /\ \A c, d \in DOMAIN ahead : c # d => c \in ahead[d] \/ d \in ahead[c]
    /\ \A c, d \in DOMAIN ahead : c \in ahead[d] => ahead[c] \subseteq ahead[d]

LEMMA Counts ==
    ASSUME NEW ahead, Total(ahead)
    PROVE  /\ Cardinality(DOMAIN ahead) \in Nat
           /\ \A c \in DOMAIN ahead : /\ IsFiniteSet(ahead[c])
                                      /\ Cardinality(ahead[c]) \in 0 .. Cardinality(DOMAIN ahead) - 1
           /\ \A c, d \in DOMAIN ahead :
                 c \in ahead[d] => Cardinality(ahead[c]) < Cardinality(ahead[d])
<1> DEFINE S == DOMAIN ahead
<1>1. IsFiniteSet(S) /\ Cardinality(S) \in Nat
    BY FS_CardinalityType DEF Total
<1>2. ASSUME NEW c \in S
      PROVE  IsFiniteSet(ahead[c]) /\ Cardinality(ahead[c]) \in 0 .. Cardinality(S) - 1
    <2>1. ahead[c] \in SUBSET S /\ ahead[c] # S
        BY DEF Total
    <2>2. /\ IsFiniteSet(ahead[c]) /\ Cardinality(ahead[c]) <= Cardinality(S)
          /\ Cardinality(ahead[c]) # Cardinality(S)
        BY <1>1, <2>1, FS_Subset
    <2>3. Cardinality(ahead[c]) \in Nat
        BY <2>2, FS_CardinalityType
    <2> QED
        BY <1>1, <2>2, <2>3
<1>3. ASSUME NEW c \in S, NEW d \in S, c \in ahead[d]
      PROVE  Cardinality(ahead[c]) < Cardinality(ahead[d])
    <2>1. ahead[c] \in SUBSET ahead[d] /\ ahead[c] # ahead[d]
        BY <1>3 DEF Total
    <2>2. IsFiniteSet(ahead[d]) /\ Cardinality(ahead[c]) \in Nat /\ Cardinality(ahead[d]) \in Nat
        BY <1>1, <1>2
    <2>3. /\ Cardinality(ahead[c]) <= Cardinality(ahead[d])
          /\ Cardinality(ahead[c]) # Cardinality(ahead[d])
        BY <2>1, <2>2, FS_Subset
    <2> QED
        BY <2>2, <2>3
<1> QED
    BY <1>1, <1>2, <1>3

(* What a sorted sequence is: each element once, at the place that counts  *)
(* what is ahead of it.                                                    *)
LEMMA OrderedIs ==
    ASSUME NEW ahead, Total(ahead)
    PROVE  LET s == InOrder(ahead)
           IN /\ DOMAIN s = 1 .. Cardinality(DOMAIN ahead)
              /\ Cardinality(DOMAIN ahead) \in Nat
              /\ s \in [1 .. Cardinality(DOMAIN ahead) -> DOMAIN ahead]
              /\ \A i \in DOMAIN s : Cardinality(ahead[s[i]]) = i - 1
              /\ \A i, j \in DOMAIN s : i < j <=> s[i] \in ahead[s[j]]
              /\ ToSet(s) = DOMAIN ahead
<1> DEFINE S == DOMAIN ahead
           n == Cardinality(S)
           s == InOrder(ahead)
           Size(c) == Cardinality(ahead[c])
           sizes == [c \in S |-> Size(c)]
<1>1. n \in Nat /\ IsFiniteSet(S)
    BY Counts DEF Total
<1>2. \A c \in S : Size(c) \in 0 .. n - 1
    BY Counts
<1>3. \A c, d \in S : c \in ahead[d] => Size(c) < Size(d)
    BY Counts
<1>4. \A c, d \in S : Size(c) = Size(d) => c = d
    <2> SUFFICES ASSUME NEW c \in S, NEW d \in S, Size(c) = Size(d), c # d PROVE FALSE
        OBVIOUS
    <2>1. Size(c) < Size(d) \/ Size(d) < Size(c)
        BY <1>3 DEF Total
    <2>2. Size(c) \in Int
        BY <1>2
    <2> QED
        BY <2>1, <2>2
<1>5. sizes \in Injection(S, 0 .. n - 1)
    BY <1>2, <1>4 DEF Injection, IsInjective
<1>6. IsFiniteSet(0 .. n - 1) /\ Cardinality(0 .. n - 1) = n
    <2> DEFINE u == n - 1
    <2>1. 0 \in Int /\ u \in Int /\ (0 > u => n = 0) /\ u - 0 + 1 = n
        BY <1>1
    <2> HIDE DEF u
    <2>2. IsFiniteSet(0 .. u) /\ Cardinality(0 .. u) = n
        BY <2>1, FS_Interval
    <2> QED
        BY <2>2 DEF u
<1>7. sizes \in Surjection(S, 0 .. n - 1)
    BY <1>5, <1>6, FS_Injection
<1>8. \A i \in 1 .. n : \E c \in S : Size(c) = i - 1
    <2> SUFFICES ASSUME NEW i \in 1 .. n PROVE \E c \in S : Size(c) = i - 1
        OBVIOUS
    <2>1. i - 1 \in 0 .. n - 1
        BY <1>1
    <2> QED
        BY <2>1, <1>7 DEF Surjection
<1>9. s = [i \in 1 .. n |-> CHOOSE c \in S : Size(c) = i - 1]
    BY DEF InOrder
<1>10. \A i \in 1 .. n : s[i] \in S /\ Size(s[i]) = i - 1
    BY <1>8, <1>9
<1>11. DOMAIN s = 1 .. n /\ s \in [1 .. n -> S]
    BY <1>9, <1>10
<1>12. \A i, j \in 1 .. n : i < j <=> s[i] \in ahead[s[j]]
    <2> SUFFICES ASSUME NEW i \in 1 .. n, NEW j \in 1 .. n PROVE i < j <=> s[i] \in ahead[s[j]]
        OBVIOUS
    <2>1. /\ s[i] \in S /\ s[j] \in S
          /\ Size(s[i]) = i - 1 /\ Size(s[j]) = j - 1
        BY <1>10
    <2>2. s[i] \in ahead[s[j]] => i < j
        BY <2>1, <1>3, <1>1
    <2>3. CASE s[i] = s[j]
        BY <2>1, <2>2, <2>3, <1>1
    <2>4. CASE s[i] # s[j]
        <3>1. s[i] \in ahead[s[j]] \/ s[j] \in ahead[s[i]]
            BY <2>1, <2>4 DEF Total
        <3>2. s[j] \in ahead[s[i]] => j < i
            BY <2>1, <1>3, <1>1
        <3> QED
            BY <2>2, <3>1, <3>2, <1>1
    <2> QED
        BY <2>3, <2>4
<1>13. ToSet(s) = S
    <2>1. ASSUME NEW c \in S PROVE \E i \in 1 .. n : s[i] = c
        <3>1. Size(c) + 1 \in 1 .. n /\ Size(c) = (Size(c) + 1) - 1
            BY <1>1, <1>2
        <3>2. Size(s[Size(c) + 1]) = Size(c) /\ s[Size(c) + 1] \in S
            BY <3>1, <1>10
        <3> QED
            BY <3>1, <3>2, <1>4
    <2> QED
        BY <2>1, <1>11 DEF ToSet
<1> HIDE DEF s, n, S, Size
<1> QED
    BY <1>1, <1>10, <1>11, <1>12, <1>13 DEF s, n, S, Size

(* There are n places up to the n-th.                                      *)
LEMMA PlacesCounted ==
    ASSUME NEW n \in Nat
    PROVE  IsFiniteSet(1 .. n) /\ Cardinality(1 .. n) = n
<1>1. 1 \in Int /\ n \in Int /\ (1 > n => n = 0) /\ n - 1 + 1 = n
    OBVIOUS
<1> QED
    BY <1>1, FS_Interval

(* A sequence that lists each element once has as many places as elements. *)
LEMMA Listed ==
    ASSUME NEW n \in Nat, NEW s, DOMAIN s = 1 .. n,
           \A i, j \in 1 .. n : s[i] = s[j] => i = j
    PROVE  IsFiniteSet(ToSet(s)) /\ Cardinality(ToSet(s)) = n
<1> DEFINE f == [i \in 1 .. n |-> s[i]]
<1>1. \A i \in 1 .. n : f[i] = s[i] /\ f[i] \in ToSet(s)
    BY DEF ToSet
<1>2. \A x \in ToSet(s) : \E i \in 1 .. n : f[i] = x
    BY DEF ToSet
<1>3. f \in [1 .. n -> ToSet(s)]
    BY <1>1
<1> HIDE DEF f
<1>4. f \in Bijection(1 .. n, ToSet(s))
    BY <1>1, <1>2, <1>3 DEF Bijection, Injection, Surjection, IsInjective
<1>5. ExistsBijection(1 .. n, ToSet(s))
    BY <1>4 DEF ExistsBijection
<1> QED
    BY <1>5, PlacesCounted, FS_Bijection

(* The part of a sequence at some places is those places in turn.          *)
LEMMA SelectedIs ==
    ASSUME NEW seq, NEW I \in SUBSET Nat, IsFiniteSet(I)
    PROVE  /\ Cardinality(I) \in Nat
           /\ \E p \in [1 .. Cardinality(I) -> I] :
                 /\ Selected(seq, I) = [k \in 1 .. Cardinality(I) |-> seq[p[k]]]
                 /\ \A k, m \in 1 .. Cardinality(I) : k < m => p[k] < p[m]
                 /\ ToSet(p) = I
<1> DEFINE ahead == [j \in I |-> { i \in I : i < j }]
           p == InOrder(ahead)
<1>1. DOMAIN ahead = I /\ \A j \in I : ahead[j] = { i \in I : i < j }
    OBVIOUS
<1>2. Selected(seq, I) = [k \in DOMAIN p |-> seq[p[k]]]
    BY DEF Selected
<1> HIDE DEF ahead
<1>3. Total(ahead)
    <2>1. \A c \in I : ahead[c] \subseteq I /\ c \notin ahead[c]
        BY <1>1
    <2>2. \A c, d \in I : c # d => c \in ahead[d] \/ d \in ahead[c]
        BY <1>1
    <2>3. \A c, d \in I : c \in ahead[d] => ahead[c] \subseteq ahead[d]
        <3> SUFFICES ASSUME NEW c \in I, NEW d \in I, c \in ahead[d], NEW e \in ahead[c]
                     PROVE  e \in ahead[d]
            OBVIOUS
        <3>1. e \in I /\ e < c /\ c < d
            BY <1>1
        <3>2. e < d
            BY <3>1
        <3> QED
            BY <1>1, <3>1, <3>2
    <2> QED
        BY <1>1, <2>1, <2>2, <2>3 DEF Total
<1>4. /\ DOMAIN p = 1 .. Cardinality(I) /\ Cardinality(I) \in Nat
      /\ p \in [1 .. Cardinality(I) -> I]
      /\ \A i, j \in DOMAIN p : i < j <=> p[i] \in ahead[p[j]]
      /\ ToSet(p) = I
    BY <1>1, <1>3, OrderedIs
<1> HIDE DEF p
<1>5. \A k, m \in 1 .. Cardinality(I) : k < m => p[k] < p[m]
    BY <1>1, <1>4
<1> QED
    BY <1>2, <1>4, <1>5

(* Sorting by score moves the places: every one is kept, a better score    *)
(* comes first, and so does the earlier of two equal ones.                 *)
LEMMA SortedIs ==
    ASSUME NEW n \in Nat, NEW seq, DOMAIN seq = 1 .. n,
           NEW score, \A i \in 1 .. n : score[seq[i]] \in Int
    PROVE  \E p \in [1 .. n -> 1 .. n] :
              /\ Sorted(seq, score) = [k \in 1 .. n |-> seq[p[k]]]
              /\ \A i \in 1 .. n : \E k \in 1 .. n : p[k] = i
              /\ \A k, m \in 1 .. n :
                    k < m => \/ score[seq[p[k]]] > score[seq[p[m]]]
                             \/ score[seq[p[k]]] = score[seq[p[m]]] /\ p[k] < p[m]
<1> DEFINE v(i) == score[seq[i]]
           pair(i) == <<i, v(i)>>
           rated == { pair(i) : i \in 1 .. n }
           ahead == [r \in rated |->
                       { q \in rated : q[2] > r[2] \/ (q[2] = r[2] /\ q[1] < r[1]) }]
           place == InOrder(ahead)
           p == [k \in 1 .. n |-> place[k][1]]
<1>1. Sorted(seq, score) = [k \in DOMAIN place |-> seq[place[k][1]]]
    BY DEF Sorted
<1>2. \A r \in rated : r[1] \in 1 .. n /\ r[2] = v(r[1]) /\ r[2] \in Int /\ r = pair(r[1])
    OBVIOUS
<1>3. \A i \in 1 .. n : pair(i) \in rated /\ pair(i)[1] = i
    OBVIOUS
<1>4. IsFiniteSet(rated) /\ Cardinality(rated) = n
    <2> DEFINE f == [i \in 1 .. n |-> pair(i)]
    <2>1. f \in Bijection(1 .. n, rated)
        BY DEF Bijection, Injection, Surjection, IsInjective
    <2> HIDE DEF f, rated, pair, ahead, place, p, v
    <2>2. IsFiniteSet(1 .. n) /\ Cardinality(1 .. n) = n
        BY PlacesCounted
    <2>3. ExistsBijection(1 .. n, rated)
        BY <2>1 DEF ExistsBijection
    <2> QED
        BY <2>2, <2>3, FS_Bijection
<1>5. DOMAIN ahead = rated
    OBVIOUS
<1>6. \A q, r \in rated :
         q \in ahead[r] <=> q[2] > r[2] \/ (q[2] = r[2] /\ q[1] < r[1])
    OBVIOUS
<1>7. \A r \in rated : ahead[r] \subseteq rated
    OBVIOUS
<1> HIDE DEF rated, ahead, pair, v
<1>8. Total(ahead)
    <2>1. \A r \in rated : r \notin ahead[r]
        BY <1>2, <1>6
    <2>2. \A q, r \in rated : q # r => q \in ahead[r] \/ r \in ahead[q]
        <3> SUFFICES ASSUME NEW q \in rated, NEW r \in rated,
                            q \notin ahead[r], r \notin ahead[q]
                     PROVE  q = r
            OBVIOUS
        <3>1. q[1] = r[1]
            BY <1>2, <1>6
        <3> QED
            BY <3>1, <1>2
    <2>3. \A q, r \in rated : q \in ahead[r] => ahead[q] \subseteq ahead[r]
        <3> SUFFICES ASSUME NEW q \in rated, NEW r \in rated, q \in ahead[r],
                            NEW t \in ahead[q]
                     PROVE  t \in ahead[r]
            OBVIOUS
        <3>1. t \in rated
            BY <1>7
        <3> QED
            BY <3>1, <1>2, <1>6
    <2> QED
        BY <1>4, <1>5, <1>7, <2>1, <2>2, <2>3 DEF Total
<1>9. /\ DOMAIN place = 1 .. n
      /\ place \in [1 .. n -> rated]
      /\ \A i, j \in 1 .. n : i < j <=> place[i] \in ahead[place[j]]
      /\ ToSet(place) = rated
    BY <1>4, <1>5, <1>8, OrderedIs
<1> HIDE DEF place
<1>10. \A k \in 1 .. n : /\ p[k] = place[k][1] /\ p[k] \in 1 .. n
                         /\ place[k][2] = v(p[k])
    BY <1>2, <1>9
<1>11. p \in [1 .. n -> 1 .. n]
    BY <1>10
<1>12. Sorted(seq, score) = [k \in 1 .. n |-> seq[p[k]]]
    BY <1>1, <1>9
<1>13. \A i \in 1 .. n : \E k \in 1 .. n : p[k] = i
    <2> SUFFICES ASSUME NEW i \in 1 .. n PROVE \E k \in 1 .. n : p[k] = i
        OBVIOUS
    <2>1. PICK k \in 1 .. n : place[k] = pair(i)
        BY <1>3, <1>9 DEF ToSet
    <2> QED
        BY <2>1, <1>3, <1>10
<1>14. \A k, m \in 1 .. n : k < m => v(p[k]) > v(p[m]) \/ (v(p[k]) = v(p[m]) /\ p[k] < p[m])
    <2> SUFFICES ASSUME NEW k \in 1 .. n, NEW m \in 1 .. n, k < m
                 PROVE  v(p[k]) > v(p[m]) \/ (v(p[k]) = v(p[m]) /\ p[k] < p[m])
        OBVIOUS
    <2>1. place[k] \in rated /\ place[m] \in rated /\ place[k] \in ahead[place[m]]
        BY <1>9
    <2>2. \/ place[k][2] > place[m][2]
          \/ place[k][2] = place[m][2] /\ place[k][1] < place[m][1]
        BY <2>1, <1>6
    <2> QED
        BY <2>2, <1>10
<1> HIDE DEF p
<1> QED
    BY <1>11, <1>12, <1>13, <1>14 DEF v

(* What sorting leaves alone: which elements there are, once each; and     *)
(* better ones come first.                                                 *)
LEMMA SortedKeeps ==
    ASSUME NEW n \in Nat, NEW seq, DOMAIN seq = 1 .. n,
           \A i, j \in 1 .. n : seq[i] = seq[j] => i = j,
           NEW score, \A i \in 1 .. n : score[seq[i]] \in Int,
           NEW s, s = Sorted(seq, score)
    PROVE  /\ s \in [1 .. n -> ToSet(seq)] /\ DOMAIN s = 1 .. n
           /\ \A i, j \in 1 .. n : s[i] = s[j] => i = j
           /\ ToSet(s) = ToSet(seq)
           /\ \A i, j \in 1 .. n : i < j => score[s[i]] >= score[s[j]]
<1> DEFINE v(i) == score[seq[i]]
<1>1. PICK p \in [1 .. n -> 1 .. n] :
         /\ s = [k \in 1 .. n |-> seq[p[k]]]
         /\ \A i \in 1 .. n : \E k \in 1 .. n : p[k] = i
         /\ \A k, m \in 1 .. n : k < m => v(p[k]) > v(p[m]) \/ (v(p[k]) = v(p[m]) /\ p[k] < p[m])
    BY SortedIs
<1>2. \A i \in 1 .. n : v(i) \in Int
    OBVIOUS
<1> HIDE DEF v
<1>3. \A i, j \in 1 .. n : s[i] = s[j] => i = j
    <2> SUFFICES ASSUME NEW i \in 1 .. n, NEW j \in 1 .. n, s[i] = s[j], i < j PROVE FALSE
        OBVIOUS
    <2>1. p[i] \in 1 .. n /\ p[j] \in 1 .. n /\ seq[p[i]] = seq[p[j]]
        BY <1>1
    <2>2. p[i] = p[j]
        BY <2>1
    <2>3. v(p[i]) > v(p[i]) \/ p[i] < p[i]
        BY <1>1, <2>2
    <2> QED
        BY <1>2, <2>1, <2>3
<1>4. ToSet(s) = ToSet(seq)
    <2>1. \A k \in 1 .. n : s[k] \in ToSet(seq)
        BY <1>1 DEF ToSet
    <2>2. \A i \in 1 .. n : seq[i] \in ToSet(s)
        <3> SUFFICES ASSUME NEW i \in 1 .. n PROVE seq[i] \in ToSet(s)
            OBVIOUS
        <3>1. PICK k \in 1 .. n : p[k] = i
            BY <1>1
        <3> QED
            BY <3>1, <1>1 DEF ToSet
    <2>3. DOMAIN s = 1 .. n
        BY <1>1
    <2>4. \A x \in ToSet(s) : x \in ToSet(seq)
        BY <2>1, <2>3 DEF ToSet
    <2>5. \A x \in ToSet(seq) : x \in ToSet(s)
        BY <2>2 DEF ToSet
    <2> QED
        BY <2>4, <2>5
<1>5. s \in [1 .. n -> ToSet(seq)] /\ DOMAIN s = 1 .. n
    BY <1>1 DEF ToSet
<1>6. \A i, j \in 1 .. n : i < j => score[s[i]] >= score[s[j]]
    <2> SUFFICES ASSUME NEW i \in 1 .. n, NEW j \in 1 .. n, i < j
                 PROVE  score[s[i]] >= score[s[j]]
        OBVIOUS
    <2>1. p[i] \in 1 .. n /\ p[j] \in 1 .. n
        BY <1>1
    <2>2. v(p[i]) > v(p[j]) \/ v(p[i]) = v(p[j])
        BY <1>1
    <2> DEFINE a == v(p[i])
               b == v(p[j])
    <2>3. a \in Int /\ b \in Int /\ (a > b \/ a = b)
        BY <1>2, <2>1, <2>2
    <2>4. score[s[i]] = a /\ score[s[j]] = b
        BY <1>1 DEF v
    <2> HIDE DEF a, b
    <2> QED
        BY <2>3, <2>4
<1> QED
    BY <1>3, <1>4, <1>5, <1>6

-----------------------------------------------------------------------------
(* Legs.                                                                   *)

Hit == [chunk : Chunk, doc : Doc \cup {None}, score : 1 .. 2]

LegOK(hs) ==
    /\ hs \in Seq(Hit)
    /\ \A i, j \in DOMAIN hs : hs[i].chunk = hs[j].chunk => i = j
    /\ \A i, j \in DOMAIN hs : i < j => hs[i].score >= hs[j].score

LegsOK(legs) == DOMAIN legs = ToSet(Legs) /\ \A l \in ToSet(Legs) : LegOK(legs[l])

LEMMA LegNames ==
    /\ DOMAIN Legs = 1 .. 4 /\ ToSet(Legs) = {"bm25", "vector", "asset", "graph"}
    /\ Legs[1] = "bm25" /\ Legs[2] = "vector" /\ Legs[3] = "asset" /\ Legs[4] = "graph"
<1>1. DOMAIN Legs = 1 .. 4
    BY DEF Legs
<1>2. Legs[1] = "bm25" /\ Legs[2] = "vector" /\ Legs[3] = "asset" /\ Legs[4] = "graph"
    BY DEF Legs
<1>3. 1 .. 4 = {1, 2, 3, 4}
    OBVIOUS
<1> QED
    BY <1>1, <1>2, <1>3 DEF ToSet

LEMMA LegPlaces ==
    ASSUME NEW hs, LegOK(hs)
    PROVE  /\ Len(hs) \in Nat /\ DOMAIN hs = 1 .. Len(hs)
           /\ \A i \in DOMAIN hs : hs[i] \in Hit
           /\ \A i \in DOMAIN hs : Place(hs, hs[i].chunk) = i
           /\ \A c \in Found(hs) : Place(hs, c) \in DOMAIN hs /\ hs[Place(hs, c)].chunk = c
           /\ Found(hs) \subseteq Chunk
<1>1. Len(hs) \in Nat /\ DOMAIN hs = 1 .. Len(hs) /\ \A i \in DOMAIN hs : hs[i] \in Hit
    BY DEF LegOK
<1>2. \A c \in Found(hs) : Place(hs, c) \in DOMAIN hs /\ hs[Place(hs, c)].chunk = c
    BY DEF Found, Place
<1>3. \A i \in DOMAIN hs : hs[i].chunk \in Found(hs)
    BY DEF Found
<1>4. \A i \in DOMAIN hs : Place(hs, hs[i].chunk) = i
    BY <1>2, <1>3 DEF LegOK
<1>5. Found(hs) \subseteq Chunk
    BY <1>1 DEF Found, Hit
<1> QED
    BY <1>1, <1>2, <1>4, <1>5

(* The hits of all legs, as places, and those that found their chunk first.*)
Spots(legs) == UNION { { <<l, i>> : i \in DOMAIN legs[Legs[l]] } : l \in DOMAIN Legs }

SpotChunk(legs, f) == legs[Legs[f[1]]][f[2]].chunk

Firsts(legs) ==
    { f \in Spots(legs) :
        \A g \in Spots(legs) : g[1] < f[1] => SpotChunk(legs, g) # SpotChunk(legs, f) }

LEMMA SpotsAre ==
    ASSUME NEW legs, LegsOK(legs)
    PROVE  /\ IsFiniteSet(Spots(legs))
           /\ \A f \in Spots(legs) :
                /\ f[1] \in 1 .. 4 /\ f[2] \in Nat /\ f = <<f[1], f[2]>>
                /\ Legs[f[1]] \in ToSet(Legs) /\ f[2] \in DOMAIN legs[Legs[f[1]]]
                /\ SpotChunk(legs, f) \in Found(legs[Legs[f[1]]])
           /\ \A l \in 1 .. 4 : \A c \in Found(legs[Legs[l]]) :
                \E f \in Spots(legs) : f[1] = l /\ SpotChunk(legs, f) = c
<1> DEFINE P(l) == { <<l, i>> : i \in DOMAIN legs[Legs[l]] }
<1>1. DOMAIN Legs = 1 .. 4 /\ \A l \in 1 .. 4 : Legs[l] \in ToSet(Legs)
    BY LegNames DEF ToSet
<1>2. \A l \in 1 .. 4 : /\ Len(legs[Legs[l]]) \in Nat
                        /\ DOMAIN legs[Legs[l]] = 1 .. Len(legs[Legs[l]])
    BY <1>1, LegPlaces DEF LegsOK
<1>3. \A l \in 1 .. 4 : IsFiniteSet(P(l))
    <2> SUFFICES ASSUME NEW l \in 1 .. 4 PROVE IsFiniteSet(P(l))
        OBVIOUS
    <2> DEFINE f == [i \in DOMAIN legs[Legs[l]] |-> <<l, i>>]
    <2>1. f \in Surjection(DOMAIN legs[Legs[l]], P(l))
        BY DEF Surjection
    <2>2. IsFiniteSet(DOMAIN legs[Legs[l]])
        <3> DEFINE n == Len(legs[Legs[l]])
        <3>1. n \in Int /\ DOMAIN legs[Legs[l]] = 1 .. n
            BY <1>2
        <3> HIDE DEF n
        <3>2. IsFiniteSet(1 .. n)
            BY <3>1, FS_Interval
        <3> QED
            BY <3>1, <3>2
    <2> QED
        BY <2>1, <2>2, FS_Surjection
<1>4. Spots(legs) = ((P(1) \cup P(2)) \cup P(3)) \cup P(4)
    <2>1. Spots(legs) = UNION { P(l) : l \in {1, 2, 3, 4} }
        BY <1>1 DEF Spots
    <2> HIDE DEF P
    <2> QED
        BY <2>1
<1>5. IsFiniteSet(Spots(legs))
    <2> HIDE DEF P
    <2>1. IsFiniteSet(P(1)) /\ IsFiniteSet(P(2)) /\ IsFiniteSet(P(3)) /\ IsFiniteSet(P(4))
        BY <1>3
    <2>2. IsFiniteSet(P(1) \cup P(2))
        BY <2>1, FS_Union
    <2>3. IsFiniteSet((P(1) \cup P(2)) \cup P(3))
        BY <2>1, <2>2, FS_Union
    <2> QED
        BY <1>4, <2>1, <2>3, FS_Union
<1>6. \A f \in Spots(legs) : /\ f[1] \in 1 .. 4 /\ f[2] \in DOMAIN legs[Legs[f[1]]]
                             /\ f = <<f[1], f[2]>>
    BY <1>1 DEF Spots
<1>7. \A f \in Spots(legs) : f[2] \in Nat /\ SpotChunk(legs, f) \in Found(legs[Legs[f[1]]])
    BY <1>2, <1>6 DEF SpotChunk, Found
<1>8. ASSUME NEW l \in 1 .. 4, NEW c \in Found(legs[Legs[l]])
      PROVE  \E f \in Spots(legs) : f[1] = l /\ SpotChunk(legs, f) = c
    <2>1. PICK i \in DOMAIN legs[Legs[l]] : legs[Legs[l]][i].chunk = c
        BY DEF Found
    <2>2. <<l, i>> \in Spots(legs)
        BY <1>1 DEF Spots
    <2> QED
        BY <2>1, <2>2 DEF SpotChunk
<1> QED
    BY <1>1, <1>5, <1>6, <1>7, <1>8

(* The fused map's keys: every chunk found, once, by leg and then by place.*)
LEMMA InsertedIs ==
    ASSUME NEW legs, LegsOK(legs)
    PROVE  /\ IsFiniteSet(Keys(legs)) /\ Cardinality(Keys(legs)) \in Nat
           /\ DOMAIN Inserted(legs) = 1 .. Cardinality(Keys(legs))
           /\ ToSet(Inserted(legs)) = Keys(legs)
           /\ \A i, j \in DOMAIN Inserted(legs) : Inserted(legs)[i] = Inserted(legs)[j] => i = j
           /\ \E at \in [DOMAIN Inserted(legs) -> Spots(legs)] :
                /\ \A k \in DOMAIN at : Inserted(legs)[k] = SpotChunk(legs, at[k])
                /\ \A k, m \in DOMAIN at :
                     k < m => \/ at[k][1] < at[m][1]
                              \/ at[k][1] = at[m][1] /\ at[k][2] < at[m][2]
<1> DEFINE F == Firsts(legs)
           s == Inserted(legs)
           n == Cardinality(F)
           ahead == [f \in F |-> { g \in F : g[1] < f[1] \/ (g[1] = f[1] /\ g[2] < f[2]) }]
           at == InOrder(ahead)
<1>1. s = [k \in DOMAIN at |-> SpotChunk(legs, at[k])]
    BY DEF Inserted, Firsts, Spots, SpotChunk
<1>2. F \in SUBSET Spots(legs)
    BY DEF Firsts
<1>3. IsFiniteSet(F) /\ n \in Nat
    BY <1>2, SpotsAre, FS_Subset, FS_CardinalityType
<1>4. \A f \in F : f[1] \in 1 .. 4 /\ f[2] \in Nat /\ f = <<f[1], f[2]>>
    BY <1>2, SpotsAre
<1>5. \A f, g \in F : SpotChunk(legs, f) = SpotChunk(legs, g) => f = g
    <2> SUFFICES ASSUME NEW f \in F, NEW g \in F, SpotChunk(legs, f) = SpotChunk(legs, g)
                 PROVE  f = g
        OBVIOUS
    <2>1. ~(f[1] < g[1]) /\ ~(g[1] < f[1])
        BY <1>2 DEF Firsts
    <2>2. f[1] = g[1]
        BY <2>1, <1>4
    <2>3. /\ f \in Spots(legs) /\ g \in Spots(legs)
          /\ Legs[f[1]] \in ToSet(Legs)
          /\ f[2] \in DOMAIN legs[Legs[f[1]]] /\ g[2] \in DOMAIN legs[Legs[f[1]]]
        BY <1>2, <2>2, SpotsAre
    <2>4. f[2] = g[2]
        BY <2>2, <2>3 DEF LegsOK, LegOK, SpotChunk
    <2> QED
        BY <2>2, <2>4, <1>4
<1>6. \A c \in Keys(legs) : \E f \in F : SpotChunk(legs, f) = c
    <2> SUFFICES ASSUME NEW c \in Keys(legs) PROVE \E f \in F : SpotChunk(legs, f) = c
        OBVIOUS
    <2> DEFINE Has(l) == c \in Found(legs[Legs[l]])
    <2>1. \E l \in 1 .. 4 : Has(l)
        <3>1. PICK x \in ToSet(Legs) : c \in Found(legs[x])
            BY DEF Keys, LegsOK
        <3> QED
            BY <3>1, LegNames DEF ToSet
    <2>2. \E l \in 1 .. 4 : Has(l) /\ \A k \in 1 .. 4 : k < l => ~Has(k)
        <3> HIDE DEF Has
        <3>1. Has(1) \/ Has(2) \/ Has(3) \/ Has(4)
            BY <2>1
        <3>2. CASE Has(1)
            BY <3>2
        <3>3. CASE ~Has(1) /\ Has(2)
            BY <3>3
        <3>4. CASE ~Has(1) /\ ~Has(2) /\ Has(3)
            BY <3>4
        <3>5. CASE ~Has(1) /\ ~Has(2) /\ ~Has(3) /\ Has(4)
            BY <3>5
        <3> QED
            BY <3>1, <3>2, <3>3, <3>4, <3>5
    <2>3. PICK l \in 1 .. 4 : Has(l) /\ \A k \in 1 .. 4 : k < l => ~Has(k)
        BY <2>2
    <2>4. PICK f \in Spots(legs) : f[1] = l /\ SpotChunk(legs, f) = c
        BY <2>3, SpotsAre
    <2>5. ASSUME NEW g \in Spots(legs), g[1] < f[1]
          PROVE  SpotChunk(legs, g) # SpotChunk(legs, f)
        <3>1. g[1] \in 1 .. 4 /\ SpotChunk(legs, g) \in Found(legs[Legs[g[1]]])
            BY SpotsAre
        <3> QED
            BY <3>1, <2>3, <2>4, <2>5
    <2> QED
        BY <2>4, <2>5 DEF Firsts
<1>7. DOMAIN ahead = F
    OBVIOUS
<1>8. \A g, f \in F : g \in ahead[f] <=> g[1] < f[1] \/ (g[1] = f[1] /\ g[2] < f[2])
    OBVIOUS
<1>9. \A f \in F : ahead[f] \subseteq F
    OBVIOUS
<1> HIDE DEF F, ahead
<1>10. Total(ahead)
    <2>1. \A f \in F : f \notin ahead[f]
        BY <1>4, <1>8
    <2>2. \A f, g \in F : f # g => f \in ahead[g] \/ g \in ahead[f]
        <3> SUFFICES ASSUME NEW f \in F, NEW g \in F, f \notin ahead[g], g \notin ahead[f]
                     PROVE  f = g
            OBVIOUS
        <3>1. f[1] = g[1] /\ f[2] = g[2]
            BY <1>4, <1>8
        <3> QED
            BY <3>1, <1>4
    <2>3. \A f, g \in F : f \in ahead[g] => ahead[f] \subseteq ahead[g]
        <3> SUFFICES ASSUME NEW f \in F, NEW g \in F, f \in ahead[g], NEW t \in ahead[f]
                     PROVE  t \in ahead[g]
            OBVIOUS
        <3>1. t \in F
            BY <1>9
        <3> QED
            BY <3>1, <1>4, <1>8
    <2> QED
        BY <1>3, <1>7, <1>9, <2>1, <2>2, <2>3 DEF Total
<1>11. /\ DOMAIN at = 1 .. n
       /\ at \in [1 .. n -> F]
       /\ \A k, m \in 1 .. n : k < m <=> at[k] \in ahead[at[m]]
       /\ ToSet(at) = F
    BY <1>7, <1>10, OrderedIs
<1> HIDE DEF at, n, s
<1>12. DOMAIN s = 1 .. n /\ \A k \in 1 .. n : s[k] = SpotChunk(legs, at[k]) /\ at[k] \in F
    BY <1>1, <1>11
<1>13. \A i, j \in 1 .. n : s[i] = s[j] => i = j
    <2> SUFFICES ASSUME NEW i \in 1 .. n, NEW j \in 1 .. n, s[i] = s[j], i < j PROVE FALSE
        BY <1>3
    <2>1. at[i] = at[j]
        BY <1>5, <1>12
    <2>2. at[i] \in ahead[at[i]] /\ at[i] \in F
        BY <2>1, <1>11, <1>12
    <2> QED
        BY <2>2, <1>4, <1>8
<1>14. ToSet(s) = Keys(legs)
    <2>1. ASSUME NEW c \in Keys(legs) PROVE \E k \in 1 .. n : s[k] = c
        <3>1. PICK f \in F : SpotChunk(legs, f) = c
            BY <1>6
        <3>2. PICK k \in 1 .. n : at[k] = f
            BY <1>11 DEF ToSet
        <3> QED
            BY <3>1, <3>2, <1>12
    <2>2. \A f \in F : SpotChunk(legs, f) \in Keys(legs)
        BY <1>2, SpotsAre DEF Keys, LegsOK
    <2> QED
        BY <2>1, <2>2, <1>12 DEF ToSet
<1>15. IsFiniteSet(Keys(legs)) /\ Cardinality(Keys(legs)) = n
    BY <1>3, <1>12, <1>13, <1>14, Listed
<1>16. /\ at \in [DOMAIN s -> Spots(legs)]
       /\ \A k \in DOMAIN at : s[k] = SpotChunk(legs, at[k])
       /\ \A k, m \in DOMAIN at :
            k < m => \/ at[k][1] < at[m][1]
                     \/ at[k][1] = at[m][1] /\ at[k][2] < at[m][2]
    BY <1>2, <1>8, <1>11, <1>12
<1> QED
    BY <1>3, <1>12, <1>13, <1>14, <1>15, <1>16 DEF s

-----------------------------------------------------------------------------
(* Scores.                                                                 *)

LEMMA MinMax ==
    ASSUME NEW S \in SUBSET (1 .. 2), S # {}
    PROVE  /\ Min(S) \in S /\ \A y \in S : Min(S) <= y
           /\ Max(S) \in S /\ \A y \in S : Max(S) >= y
<1>1. \A y \in S : y = 1 \/ y = 2
    OBVIOUS
<1>2. \E x \in S : \A y \in S : x <= y
    <2>1. CASE 1 \in S
        <3>1. \A y \in S : 1 <= y
            BY <1>1
        <3> QED
            BY <2>1, <3>1
    <2>2. CASE 1 \notin S
        <3>1. \A y \in S : y = 2
            BY <1>1, <2>2
        <3>2. PICK x \in S : TRUE
            OBVIOUS
        <3> QED
            BY <3>1, <3>2
    <2> QED
        BY <2>1, <2>2
<1>5. \E x \in S : \A y \in S : x >= y
    <2>1. CASE 2 \in S
        <3>1. \A y \in S : 2 >= y
            BY <1>1
        <3> QED
            BY <2>1, <3>1
    <2>2. CASE 2 \notin S
        <3>1. \A y \in S : y = 1
            BY <1>1, <2>2
        <3>2. PICK x \in S : TRUE
            OBVIOUS
        <3> QED
            BY <3>1, <3>2
    <2> QED
        BY <2>1, <2>2
<1>3. Min(S) \in S /\ \A y \in S : Min(S) <= y
    BY <1>2 DEF Min
<1>4. Max(S) \in S /\ \A y \in S : Max(S) >= y
    BY <1>5 DEF Max
<1> QED
    BY <1>3, <1>4

(* A better place in a leg is worth no less, by rank or by score.          *)
LEMMA RankShareIs ==
    ASSUME NEW hs, LegOK(hs), NEW c \in Found(hs)
    PROVE  /\ RankShare(hs, c) \in Nat
           /\ \A d \in Found(hs) :
                Place(hs, c) < Place(hs, d) => RankShare(hs, c) >= RankShare(hs, d)
<1>1. \A d \in Found(hs) : Place(hs, d) \in Nat
    BY LegPlaces
<1>2. \A m \in Nat : 12 \div (1 + m) \in Nat
    OBVIOUS
<1>3. \A m, k \in Nat : m < k => 12 \div (1 + m) >= 12 \div (1 + k)
    <2> SUFFICES ASSUME NEW m \in Nat, NEW k \in Nat, m < k
                 PROVE  12 \div (1 + m) >= 12 \div (1 + k)
        OBVIOUS
    <2>1. CASE m <= 12
        BY <2>1
    <2>2. CASE m > 12
        BY <2>2
    <2> QED
        BY <2>1, <2>2
<1>4. \A d \in Found(hs) : RankShare(hs, d) = 12 \div (1 + Place(hs, d))
    BY DEF RankShare, Unit, RrfK
<1> QED
    BY <1>1, <1>2, <1>3, <1>4

LEMMA NormalisedIs ==
    ASSUME NEW hs, LegOK(hs), NEW c \in Found(hs)
    PROVE  /\ Normalised(hs, c) \in Nat
           /\ \A d \in Found(hs) :
                Place(hs, c) < Place(hs, d) => Normalised(hs, c) >= Normalised(hs, d)
<1> DEFINE scores == { hs[i].score : i \in DOMAIN hs }
           lo == Min(scores)
           hi == Max(scores)
           v(d) == hs[Place(hs, d)].score
<1>1. \A d \in Found(hs) : Place(hs, d) \in DOMAIN hs
    BY LegPlaces
<1>2. \A i \in DOMAIN hs : hs[i].score \in 1 .. 2
    BY LegPlaces DEF Hit
<1>3. scores \in SUBSET (1 .. 2) /\ \A d \in Found(hs) : v(d) \in scores
    BY <1>1, <1>2
<1>4. \A d \in Found(hs) : Place(hs, c) < Place(hs, d) => v(c) >= v(d)
    BY <1>1 DEF LegOK
<1>5. \A d \in Found(hs) :
         Normalised(hs, d) = IF lo = hi THEN 12 ELSE ((v(d) - lo) * 12) \div (hi - lo)
    BY DEF Normalised, Unit
<1> HIDE DEF scores, lo, hi, v
<1>6. /\ lo \in scores /\ \A y \in scores : lo <= y
      /\ hi \in scores /\ \A y \in scores : hi >= y
    BY <1>3, MinMax DEF lo, hi
<1>7. CASE lo = hi
    BY <1>5, <1>7
<1>8. CASE lo # hi
    <2>1. lo = 1 /\ hi = 2
        BY <1>3, <1>6, <1>8
    <2>2. \A d \in Found(hs) : v(d) = 1 \/ v(d) = 2
        <3> SUFFICES ASSUME NEW d \in Found(hs) PROVE v(d) = 1 \/ v(d) = 2
            OBVIOUS
        <3>1. v(d) \in 1 .. 2
            BY <1>3
        <3> QED
            BY <3>1
    <2>3. \A d \in Found(hs) : Normalised(hs, d) = ((v(d) - 1) * 12) \div (2 - 1)
        BY <1>5, <1>8, <2>1
    <2>4. \A d \in Found(hs) : \/ v(d) = 1 /\ Normalised(hs, d) = 0
                               \/ v(d) = 2 /\ Normalised(hs, d) = 12
        <3> SUFFICES ASSUME NEW d \in Found(hs)
                     PROVE  \/ v(d) = 1 /\ Normalised(hs, d) = 0
                            \/ v(d) = 2 /\ Normalised(hs, d) = 12
            OBVIOUS
        <3>1. CASE v(d) = 1
            BY <2>3, <3>1
        <3>2. CASE v(d) = 2
            BY <2>3, <3>2
        <3> QED
            BY <2>2, <3>1, <3>2
    <2> QED
        BY <1>4, <2>4
<1> QED
    BY <1>7, <1>8

(* What weighted legs add up to.                                           *)
LEMMA WeightedIs ==
    ASSUME NEW w \in [ToSet(Legs) -> Nat],
           NEW share, DOMAIN share \subseteq ToSet(Legs),
           \A l \in DOMAIN share : share[l] \in Nat
    PROVE  Weighted(w, share) \in Nat
<1> DEFINE part(l) == IF l \in DOMAIN share THEN w[l] * share[l] ELSE 0
<1>1. \A l \in ToSet(Legs) : part(l) \in Nat
    BY DEF ToSet
<1>2. part("bm25") \in Nat /\ part("vector") \in Nat /\ part("asset") \in Nat /\ part("graph") \in Nat
    BY <1>1, LegNames
<1>3. Weighted(w, share) = part("bm25") + part("vector") + part("asset") + part("graph")
    BY DEF Weighted
<1> HIDE DEF part
<1> QED
    BY <1>2, <1>3

Fusions == {"rrf", "combsum", "combmnz"}

LEMMA FusedIs ==
    ASSUME NEW legs, LegsOK(legs), NEW w \in [ToSet(Legs) -> Nat], NEW fusion \in Fusions
    PROVE  /\ DOMAIN Fused(fusion, legs, w) = Keys(legs)
           /\ \A c \in Keys(legs) : Fused(fusion, legs, w)[c] \in Nat
<1> SUFFICES ASSUME NEW c \in Keys(legs)
             PROVE  Fused(fusion, legs, w)[c] \in Nat
    BY DEF Fused
<1>1. DOMAIN legs = ToSet(Legs) /\ \A l \in ToSet(Legs) : LegOK(legs[l])
    BY DEF LegsOK
<1>2. /\ FoundBy(legs, c) \subseteq ToSet(Legs)
      /\ \A l \in FoundBy(legs, c) : LegOK(legs[l]) /\ c \in Found(legs[l])
    BY <1>1 DEF FoundBy
<1>3. Rrf(legs, w, c) \in Nat
    <2> DEFINE share == [l \in FoundBy(legs, c) |-> RankShare(legs[l], c)]
    <2>1. DOMAIN share = FoundBy(legs, c) /\ \A l \in DOMAIN share : share[l] \in Nat
        BY <1>2, RankShareIs
    <2> HIDE DEF share
    <2>2. Weighted(w, share) \in Nat
        BY <1>2, <2>1, WeightedIs
    <2> QED
        BY <2>2 DEF Rrf, share
<1>4. CombSum(legs, w, c) \in Nat
    <2> DEFINE share == [l \in FoundBy(legs, c) |-> Normalised(legs[l], c)]
    <2>1. DOMAIN share = FoundBy(legs, c) /\ \A l \in DOMAIN share : share[l] \in Nat
        BY <1>2, NormalisedIs
    <2> HIDE DEF share
    <2>2. Weighted(w, share) \in Nat
        BY <1>2, <2>1, WeightedIs
    <2> QED
        BY <2>2 DEF CombSum, share
<1>5. CombMnz(legs, w, c) \in Nat
    <2>1. Consensus(legs, w, c) \in SUBSET {"bm25", "vector", "asset", "graph"}
        BY <1>2, LegNames DEF Consensus
    <2>2. IsFiniteSet({"bm25", "vector", "asset", "graph"})
        <3>1. IsFiniteSet({"bm25"})
            BY FS_Singleton
        <3>2. IsFiniteSet({"bm25"} \cup {"vector"})
            BY <3>1, FS_AddElement
        <3>3. IsFiniteSet(({"bm25"} \cup {"vector"}) \cup {"asset"})
            BY <3>2, FS_AddElement
        <3>4. IsFiniteSet((({"bm25"} \cup {"vector"}) \cup {"asset"}) \cup {"graph"})
            BY <3>3, FS_AddElement
        <3>5. (({"bm25"} \cup {"vector"}) \cup {"asset"}) \cup {"graph"}
              = {"bm25", "vector", "asset", "graph"}
            OBVIOUS
        <3> QED
            BY <3>4, <3>5
    <2>3. Cardinality(Consensus(legs, w, c)) \in Nat
        BY <2>1, <2>2, FS_Subset, FS_CardinalityType
    <2> QED
        BY <1>4, <2>3 DEF CombMnz
<1>6. Fused(fusion, legs, w)[c] = CASE fusion = "rrf"     -> Rrf(legs, w, c)
                                    [] fusion = "combsum" -> CombSum(legs, w, c)
                                    [] fusion = "combmnz" -> CombMnz(legs, w, c)
    BY DEF Fused
<1> QED
    BY <1>3, <1>4, <1>5, <1>6 DEF Fusions

-----------------------------------------------------------------------------
(* The ranking.                                                            *)

(* Repeats lose by the penalty; the best chunk of a document does not.     *)
LEMMA DemotedIs ==
    ASSUME NEW legs, NEW seq, \A i, j \in DOMAIN seq : seq[i] = seq[j] => i = j,
           NEW score, \A i \in DOMAIN seq : score[seq[i]] \in Nat,
           NEW alpha \in Nat, NEW i \in DOMAIN seq, i \in Nat
    PROVE  LET d == Demoted(legs, seq, score, alpha)[seq[i]]
           IN /\ d \in Nat /\ d <= score[seq[i]] * 6
              /\ \/ alpha = 0
                 \/ \A j \in 1 .. i - 1 : Owner(legs, seq[j]) # Owner(legs, seq[i])
                 => d = score[seq[i]] * 6
<1> DEFINE at(c) == CHOOSE k \in DOMAIN seq : seq[k] = c
           seen == Seen(legs, seq, i)
           twins == { j \in 1 .. i - 1 : Owner(legs, seq[j]) = Owner(legs, seq[i]) }
           s == score[seq[i]]
           d == Demoted(legs, seq, score, alpha)[seq[i]]
<1>1. seq[i] \in ToSet(seq)
    BY DEF ToSet
<1>2. at(seq[i]) = i
    OBVIOUS
<1>3. d = s * (6 \div (1 + alpha * seen))
    BY <1>1, <1>2 DEF Demoted, Fine
<1>4. IsFiniteSet(1 .. i - 1)
    <2> DEFINE u == i - 1
    <2>1. u \in Int
        OBVIOUS
    <2> HIDE DEF u
    <2>2. IsFiniteSet(1 .. u)
        BY <2>1, FS_Interval
    <2> QED
        BY <2>2 DEF u
<1>5. twins \in SUBSET (1 .. i - 1)
    OBVIOUS
<1>6. seen = Cardinality(twins)
    BY DEF Seen
<1>7. s \in Nat
    OBVIOUS
<1>8. ASSUME \A j \in 1 .. i - 1 : Owner(legs, seq[j]) # Owner(legs, seq[i])
      PROVE  seen = 0
    <2>1. twins = {}
        BY <1>8
    <2> QED
        BY <1>6, <2>1, FS_EmptySet
<1> HIDE DEF at, seen, twins, s, d
<1>9. seen \in Nat
    BY <1>4, <1>5, <1>6, FS_Subset, FS_CardinalityType
<1>10. alpha * seen \in Nat
    BY <1>9
<1>11. alpha = 0 \/ seen = 0 => alpha * seen = 0
    BY <1>9
<1> DEFINE q == alpha * seen
<1> HIDE DEF q
<1>12. q \in Nat /\ d = s * (6 \div (1 + q)) /\ (alpha = 0 \/ seen = 0 => q = 0)
    BY <1>3, <1>10, <1>11 DEF q
<1>13. 6 \div (1 + q) \in 0 .. 6 /\ (q = 0 => 6 \div (1 + q) = 6)
    BY <1>12
<1>14. \A k \in 0 .. 6 : s * k \in Nat /\ s * k <= s * 6
    <2> SUFFICES ASSUME NEW k \in 0 .. 6 PROVE s * k \in Nat /\ s * k <= s * 6
        OBVIOUS
    <2>1. k = 0 \/ k = 1 \/ k = 2 \/ k = 3 \/ k = 4 \/ k = 5 \/ k = 6
        OBVIOUS
    <2> QED
        BY <1>7, <2>1
<1>15. d \in Nat /\ d <= s * 6 /\ (q = 0 => d = s * 6)
    BY <1>12, <1>13, <1>14
<1> QED
    BY <1>8, <1>12, <1>15 DEF d, s

(* Both rankings hold every chunk found once; and the best chunk of a      *)
(* document is no lower in the second than in the first, for whatever was  *)
(* behind it is behind it still.                                           *)
LEMMA RankingIs ==
    ASSUME NEW legs, LegsOK(legs), call \in Config
    PROVE  LET n == Cardinality(Keys(legs))
               plain == Plain(legs)
               final == Ranking(legs)
           IN /\ n \in Nat /\ IsFiniteSet(Keys(legs))
              /\ DOMAIN plain = 1 .. n /\ DOMAIN final = 1 .. n
              /\ final \in [1 .. n -> Keys(legs)]
              /\ \A i, j \in 1 .. n : final[i] = final[j] => i = j
              /\ ToSet(final) = Keys(legs)
              /\ \A i \in 1 .. n :
                    (\A j \in 1 .. i - 1 : Owner(legs, plain[j]) # Owner(legs, plain[i]))
                    => \E j \in 1 .. i : final[j] = plain[i]
<1> DEFINE n == Cardinality(Keys(legs))
           ins == Inserted(legs)
           score == Fused(call.fusion, legs, call.weight)
           plain == Plain(legs)
           dem == Demoted(legs, plain, score, call.alpha)
           final == Ranking(legs)
           best(i) == \A j \in 1 .. i - 1 : Owner(legs, plain[j]) # Owner(legs, plain[i])
<1>1. call.fusion \in Fusions /\ call.weight \in [ToSet(Legs) -> Nat] /\ call.alpha \in Nat
    BY RetrieveAssumption DEF Fusions
<1>2. \A c \in Keys(legs) : score[c] \in Nat
    BY <1>1, FusedIs
<1>3. /\ n \in Nat /\ IsFiniteSet(Keys(legs)) /\ DOMAIN ins = 1 .. n
      /\ \A i, j \in 1 .. n : ins[i] = ins[j] => i = j
      /\ ToSet(ins) = Keys(legs)
    BY InsertedIs
<1>4. plain = Sorted(ins, score) /\ final = Sorted(plain, dem)
    BY DEF Plain, Ranking
<1> HIDE DEF n, ins, score, plain, final
<1>5. \A i \in 1 .. n : score[ins[i]] \in Int
    BY <1>2, <1>3 DEF ToSet
<1>6. /\ DOMAIN plain = 1 .. n /\ ToSet(plain) = Keys(legs)
      /\ \A i, j \in 1 .. n : plain[i] = plain[j] => i = j
      /\ \A i, j \in 1 .. n : i < j => score[plain[i]] >= score[plain[j]]
    BY <1>3, <1>4, <1>5, SortedKeeps
<1>7. \A i \in 1 .. n : score[plain[i]] \in Nat
    BY <1>2, <1>6 DEF ToSet
<1>8. \A i \in 1 .. n : /\ dem[plain[i]] \in Nat /\ dem[plain[i]] <= score[plain[i]] * 6
                        /\ best(i) => dem[plain[i]] = score[plain[i]] * 6
    <2> SUFFICES ASSUME NEW i \in 1 .. n
                 PROVE  /\ dem[plain[i]] \in Nat /\ dem[plain[i]] <= score[plain[i]] * 6
                        /\ best(i) => dem[plain[i]] = score[plain[i]] * 6
        OBVIOUS
    <2> DEFINE alpha == call.alpha
    <2>1. alpha \in Nat
        BY <1>1
    <2> HIDE DEF alpha
    <2>2. /\ \A k, m \in DOMAIN plain : plain[k] = plain[m] => k = m
          /\ \A k \in DOMAIN plain : score[plain[k]] \in Nat
          /\ i \in DOMAIN plain /\ i \in Nat
        BY <1>3, <1>6, <1>7
    <2>3. LET d == Demoted(legs, plain, score, alpha)[plain[i]]
          IN /\ d \in Nat /\ d <= score[plain[i]] * 6
             /\ \/ alpha = 0
                \/ \A j \in 1 .. i - 1 : Owner(legs, plain[j]) # Owner(legs, plain[i])
                => d = score[plain[i]] * 6
        BY <2>1, <2>2, DemotedIs
    <2> QED
        BY <2>3 DEF alpha
<1> HIDE DEF dem, best
<1>9. \A i \in 1 .. n : dem[plain[i]] \in Int
    BY <1>8
<1>10. /\ DOMAIN final = 1 .. n /\ ToSet(final) = Keys(legs)
       /\ final \in [1 .. n -> Keys(legs)]
       /\ \A i, j \in 1 .. n : final[i] = final[j] => i = j
    BY <1>3, <1>4, <1>6, <1>9, SortedKeeps
<1>11. ASSUME NEW i \in 1 .. n, best(i)
       PROVE  \E j \in 1 .. i : final[j] = plain[i]
    <2>1. PICK p \in [1 .. n -> 1 .. n] :
             /\ Sorted(plain, dem) = [k \in 1 .. n |-> plain[p[k]]]
             /\ \A x \in 1 .. n : \E k \in 1 .. n : p[k] = x
             /\ \A k, m \in 1 .. n :
                   k < m => \/ dem[plain[p[k]]] > dem[plain[p[m]]]
                            \/ dem[plain[p[k]]] = dem[plain[p[m]]] /\ p[k] < p[m]
        BY <1>3, <1>6, <1>9, SortedIs
    <2>2. PICK k \in 1 .. n : p[k] = i
        BY <2>1
    <2>3. \A m \in 1 .. k - 1 : m \in 1 .. n /\ p[m] \in 1 .. i - 1
        <3> SUFFICES ASSUME NEW m \in 1 .. k - 1 PROVE m \in 1 .. n /\ p[m] \in 1 .. i - 1
            OBVIOUS
        <3> DEFINE x == p[m]
        <3>1. m \in 1 .. n /\ m < k
            BY <1>3
        <3>2. x \in 1 .. n
            BY <3>1
        <3>3. \/ dem[plain[x]] > dem[plain[i]]
              \/ dem[plain[x]] = dem[plain[i]] /\ x < i
            BY <2>1, <2>2, <3>1
        <3> HIDE DEF x
        <3>4. dem[plain[i]] = score[plain[i]] * 6 /\ dem[plain[x]] <= score[plain[x]] * 6
            BY <1>8, <1>11, <3>2
        <3>5. x > i => score[plain[i]] >= score[plain[x]]
            BY <1>6, <3>2
        <3>6. /\ dem[plain[i]] \in Nat /\ dem[plain[x]] \in Nat
              /\ score[plain[i]] \in Nat /\ score[plain[x]] \in Nat
            BY <1>7, <1>8, <3>2
        <3>7. ~(x > i) /\ x # i
            <4> DEFINE a == dem[plain[x]]
                       b == dem[plain[i]]
                       u == score[plain[x]]
                       v == score[plain[i]]
            <4>1. /\ a \in Nat /\ b \in Nat /\ u \in Nat /\ v \in Nat /\ x \in Nat /\ i \in Nat
                  /\ a > b \/ (a = b /\ x < i)
                  /\ b = v * 6 /\ a <= u * 6 /\ (x > i => v >= u)
                  /\ x = i => a = b
                <5>1. x \in Nat /\ i \in Nat
                    BY <1>3, <3>2
                <5>2. x = i => a = b
                    OBVIOUS
                <5> QED
                    BY <5>1, <5>2, <3>3, <3>4, <3>5, <3>6
            <4> HIDE DEF a, b, u, v
            <4> QED
                BY <4>1
        <3>8. x \in 1 .. i - 1
            BY <1>3, <3>2, <3>7
        <3> QED
            BY <3>1, <3>8 DEF x
    <2>4. \A m, r \in 1 .. n : p[m] = p[r] => m = r
        <3>1. \A m \in 1 .. n : final[m] = plain[p[m]]
            BY <1>4, <2>1
        <3> QED
            BY <1>10, <3>1
    <2>5. k <= i
        <3> DEFINE f == [m \in 1 .. k - 1 |-> p[m]]
        <3>1. f \in Injection(1 .. k - 1, 1 .. i - 1)
            BY <2>3, <2>4 DEF Injection, IsInjective
        <3>2. k - 1 \in Int /\ i - 1 \in Int /\ k \in Nat /\ i \in Nat /\ k > 0 /\ i > 0
            BY <1>3
        <3>3. /\ IsFiniteSet(1 .. i - 1)
              /\ Cardinality(1 .. i - 1) = i - 1 /\ Cardinality(1 .. k - 1) = k - 1
            <4> DEFINE u == i - 1
                       v == k - 1
            <4>1. u \in Int /\ v \in Int /\ u >= 0 /\ v >= 0
                BY <3>2
            <4> HIDE DEF u, v
            <4>2. IsFiniteSet(1 .. u) /\ Cardinality(1 .. u) = u /\ Cardinality(1 .. v) = v
                BY <4>1, FS_Interval
            <4> QED
                BY <4>2 DEF u, v
        <3> HIDE DEF f
        <3>4. Cardinality(1 .. k - 1) <= Cardinality(1 .. i - 1)
            BY <3>1, <3>3, FS_Injection
        <3> QED
            BY <3>2, <3>3, <3>4
    <2>6. final[k] = plain[i] /\ k \in 1 .. i
        BY <1>3, <1>4, <2>1, <2>2, <2>5
    <2> QED
        BY <2>6
<1> QED
    BY <1>3, <1>6, <1>10, <1>11 DEF n, plain, final, best

-----------------------------------------------------------------------------
(* One leg alone.                                                          *)

(* s takes its elements from t, at places that go up.                      *)
Follows(s, t, n) ==
    \E p \in [1 .. n -> 1 .. n] :
       /\ s = [k \in 1 .. n |-> t[p[k]]]
       /\ \A k, m \in 1 .. n : k < m => p[k] < p[m]

(* Sorting what is in the order of its scores moves nothing past another.  *)
LEMMA SortedStable ==
    ASSUME NEW n \in Nat, NEW seq, DOMAIN seq = 1 .. n,
           NEW score, \A i \in 1 .. n : score[seq[i]] \in Int,
           \A i, j \in 1 .. n : i < j => score[seq[i]] >= score[seq[j]]
    PROVE  Follows(Sorted(seq, score), seq, n)
<1>1. PICK p \in [1 .. n -> 1 .. n] :
         /\ Sorted(seq, score) = [k \in 1 .. n |-> seq[p[k]]]
         /\ \A i \in 1 .. n : \E k \in 1 .. n : p[k] = i
         /\ \A k, m \in 1 .. n :
               k < m => \/ score[seq[p[k]]] > score[seq[p[m]]]
                        \/ score[seq[p[k]]] = score[seq[p[m]]] /\ p[k] < p[m]
    BY SortedIs
<1>2. \A k, m \in 1 .. n : k < m => p[k] < p[m]
    <2> SUFFICES ASSUME NEW k \in 1 .. n, NEW m \in 1 .. n, k < m PROVE p[k] < p[m]
        OBVIOUS
    <2> DEFINE x == p[k]
               y == p[m]
               u == score[seq[x]]
               v == score[seq[y]]
    <2>1. x \in 1 .. n /\ y \in 1 .. n
        OBVIOUS
    <2>2. u > v \/ (u = v /\ x < y)
        BY <1>1
    <2>3. u \in Int /\ v \in Int /\ (y < x => v >= u) /\ (x = y => u = v)
        BY <2>1
    <2>4. x \in Int /\ y \in Int
        BY <2>1
    <2> HIDE DEF x, y, u, v
    <2>5. x < y
        BY <2>2, <2>3, <2>4
    <2> QED
        BY <2>5 DEF x, y
<1> QED
    BY <1>1, <1>2 DEF Follows

LEMMA Times ==
    ASSUME NEW w \in Nat, NEW a \in Nat, NEW b \in Nat, a >= b
    PROVE  w * a >= w * b
<1> DEFINE k == a - b
<1>1. k \in Nat /\ a = b + k
    OBVIOUS
<1> HIDE DEF k
<1>2. w * a = w * b + w * k /\ w * k \in Nat /\ w * b \in Nat
    BY <1>1
<1> QED
    BY <1>2

Lone(legs, l) == l \in ToSet(Legs) /\ \A x \in ToSet(Legs) \ {l} : legs[x] = <<>>

LEMMA LoneFound ==
    ASSUME NEW legs, LegsOK(legs), NEW l, Lone(legs, l)
    PROVE  /\ Keys(legs) = Found(legs[l])
           /\ \A c \in Keys(legs) : FoundBy(legs, c) = {l}
<1>1. \A x \in ToSet(Legs) \ {l} : Found(legs[x]) = {}
    BY DEF Lone, Found
<1>2. DOMAIN legs = ToSet(Legs) /\ l \in ToSet(Legs)
    BY DEF LegsOK, Lone
<1>3. Keys(legs) = Found(legs[l])
    BY <1>1, <1>2 DEF Keys
<1>4. \A c \in Keys(legs) : FoundBy(legs, c) = {l}
    BY <1>1, <1>2, <1>3 DEF FoundBy
<1> QED
    BY <1>3, <1>4

LEMMA WeightedLone ==
    ASSUME NEW w \in [ToSet(Legs) -> Nat], NEW l \in ToSet(Legs), NEW share,
           DOMAIN share = {l}, share[l] \in Nat
    PROVE  Weighted(w, share) = w[l] * share[l]
<1> DEFINE part(x) == IF x \in DOMAIN share THEN w[x] * share[x] ELSE 0
           t == w[l] * share[l]
<1>1. t \in Nat
    OBVIOUS
<1>2. part(l) = t /\ \A x : x # l => part(x) = 0
    OBVIOUS
<1>3. Weighted(w, share) = part("bm25") + part("vector") + part("asset") + part("graph")
    BY DEF Weighted
<1>4. l = "bm25" \/ l = "vector" \/ l = "asset" \/ l = "graph"
    BY LegNames
<1> HIDE DEF part, t
<1>5. Weighted(w, share) = t
    <2>1. CASE l = "bm25"
        BY <1>1, <1>2, <1>3, <2>1
    <2>2. CASE l = "vector"
        BY <1>1, <1>2, <1>3, <2>2
    <2>3. CASE l = "asset"
        BY <1>1, <1>2, <1>3, <2>3
    <2>4. CASE l = "graph"
        BY <1>1, <1>2, <1>3, <2>4
    <2> QED
        BY <1>4, <2>1, <2>2, <2>3, <2>4
<1> QED
    BY <1>5 DEF t

(* Fused alone, a leg keeps its order.                                     *)
LEMMA FusedLone ==
    ASSUME NEW legs, LegsOK(legs), NEW l, Lone(legs, l),
           NEW w \in [ToSet(Legs) -> Nat], NEW fusion \in Fusions,
           NEW c \in Keys(legs), NEW d \in Keys(legs),
           Place(legs[l], c) < Place(legs[l], d)
    PROVE  Fused(fusion, legs, w)[c] >= Fused(fusion, legs, w)[d]
<1>1. /\ l \in ToSet(Legs) /\ LegOK(legs[l])
      /\ c \in Found(legs[l]) /\ d \in Found(legs[l])
      /\ FoundBy(legs, c) = {l} /\ FoundBy(legs, d) = {l}
    BY LoneFound DEF Lone, LegsOK
<1>2. w[l] \in Nat
    BY <1>1
<1>3. \A e \in {c, d} :
         /\ Rrf(legs, w, e) = w[l] * RankShare(legs[l], e)
         /\ CombSum(legs, w, e) = w[l] * Normalised(legs[l], e)
         /\ RankShare(legs[l], e) \in Nat /\ Normalised(legs[l], e) \in Nat
    <2> SUFFICES ASSUME NEW e \in {c, d}
                 PROVE  /\ Rrf(legs, w, e) = w[l] * RankShare(legs[l], e)
                        /\ CombSum(legs, w, e) = w[l] * Normalised(legs[l], e)
                        /\ RankShare(legs[l], e) \in Nat /\ Normalised(legs[l], e) \in Nat
        OBVIOUS
    <2> DEFINE rs == [x \in FoundBy(legs, e) |-> RankShare(legs[x], e)]
               ns == [x \in FoundBy(legs, e) |-> Normalised(legs[x], e)]
    <2>1. e \in Found(legs[l]) /\ FoundBy(legs, e) = {l}
        BY <1>1
    <2>2. RankShare(legs[l], e) \in Nat /\ Normalised(legs[l], e) \in Nat
        BY <1>1, <2>1, RankShareIs, NormalisedIs
    <2>3. /\ DOMAIN rs = {l} /\ rs[l] = RankShare(legs[l], e)
          /\ DOMAIN ns = {l} /\ ns[l] = Normalised(legs[l], e)
        BY <2>1
    <2>4. Rrf(legs, w, e) = Weighted(w, rs) /\ CombSum(legs, w, e) = Weighted(w, ns)
        BY DEF Rrf, CombSum
    <2> HIDE DEF rs, ns
    <2>5. Weighted(w, rs) = w[l] * rs[l] /\ Weighted(w, ns) = w[l] * ns[l]
        BY <1>1, <2>2, <2>3, WeightedLone
    <2> QED
        BY <2>2, <2>3, <2>4, <2>5
<1>4. /\ RankShare(legs[l], c) >= RankShare(legs[l], d)
      /\ Normalised(legs[l], c) >= Normalised(legs[l], d)
    BY <1>1, RankShareIs, NormalisedIs
<1>5. Rrf(legs, w, c) >= Rrf(legs, w, d)
    BY <1>2, <1>3, <1>4, Times
<1>6. CombSum(legs, w, c) >= CombSum(legs, w, d)
    BY <1>2, <1>3, <1>4, Times
<1>7. CombMnz(legs, w, c) >= CombMnz(legs, w, d)
    <2> DEFINE k == Cardinality(Consensus(legs, w, c))
               a == CombSum(legs, w, c)
               b == CombSum(legs, w, d)
    <2>1. Consensus(legs, w, d) = Consensus(legs, w, c)
        BY <1>1 DEF Consensus
    <2>2. k \in Nat
        <3>1. Consensus(legs, w, c) \in SUBSET {l}
            BY <1>1 DEF Consensus
        <3> QED
            BY <3>1, FS_Singleton, FS_Subset, FS_CardinalityType
    <2>3. CombMnz(legs, w, c) = a * k /\ CombMnz(legs, w, d) = b * k
        BY <2>1 DEF CombMnz
    <2>4. a \in Nat /\ b \in Nat /\ a >= b
        BY <1>2, <1>3, <1>6
    <2> HIDE DEF k, a, b
    <2>5. k * a >= k * b
        BY <2>2, <2>4, Times
    <2> QED
        BY <2>2, <2>3, <2>4, <2>5
<1>8. \A e \in Keys(legs) :
         Fused(fusion, legs, w)[e] = CASE fusion = "rrf"     -> Rrf(legs, w, e)
                                       [] fusion = "combsum" -> CombSum(legs, w, e)
                                       [] fusion = "combmnz" -> CombMnz(legs, w, e)
    BY DEF Fused
<1> QED
    BY <1>5, <1>6, <1>7, <1>8 DEF Fusions

(* A lone leg without a penalty is the answer, in its order.               *)
LEMMA RankingLone ==
    ASSUME NEW legs, LegsOK(legs), NEW l, Lone(legs, l), call \in Config, call.alpha = 0
    PROVE  \A i, j \in DOMAIN Ranking(legs) :
              i < j => Place(legs[l], Ranking(legs)[i]) < Place(legs[l], Ranking(legs)[j])
<1> DEFINE n == Cardinality(Keys(legs))
           ins == Inserted(legs)
           score == Fused(call.fusion, legs, call.weight)
           plain == Plain(legs)
           dem == Demoted(legs, plain, score, call.alpha)
           final == Ranking(legs)
           pos(c) == Place(legs[l], c)
<1>1. call.fusion \in Fusions /\ call.weight \in [ToSet(Legs) -> Nat] /\ 0 \in Nat
    BY RetrieveAssumption DEF Fusions
<1>2. \A c \in Keys(legs) : score[c] \in Nat
    BY <1>1, FusedIs
<1>3. \A c, d \in Keys(legs) : pos(c) < pos(d) => score[c] >= score[d]
    BY <1>1, FusedLone
<1>4. /\ n \in Nat /\ DOMAIN ins = 1 .. n /\ ToSet(ins) = Keys(legs)
      /\ \A i, j \in 1 .. n : ins[i] = ins[j] => i = j
    BY InsertedIs
<1>5. \A i, j \in 1 .. n : i < j => pos(ins[i]) < pos(ins[j])
    <2>1. PICK at \in [1 .. n -> Spots(legs)] :
             /\ \A k \in DOMAIN at : ins[k] = SpotChunk(legs, at[k])
             /\ \A k, m \in DOMAIN at :
                  k < m => \/ at[k][1] < at[m][1]
                           \/ at[k][1] = at[m][1] /\ at[k][2] < at[m][2]
        BY <1>4, InsertedIs
    <2>2. \A f \in Spots(legs) : /\ Legs[f[1]] = l /\ f[1] \in 1 .. 4
                                 /\ f[2] \in DOMAIN legs[l] /\ pos(SpotChunk(legs, f)) = f[2]
        <3> SUFFICES ASSUME NEW f \in Spots(legs)
                     PROVE  /\ Legs[f[1]] = l /\ f[1] \in 1 .. 4
                            /\ f[2] \in DOMAIN legs[l] /\ pos(SpotChunk(legs, f)) = f[2]
            OBVIOUS
        <3>1. /\ f[1] \in 1 .. 4 /\ Legs[f[1]] \in ToSet(Legs)
              /\ f[2] \in DOMAIN legs[Legs[f[1]]]
            BY SpotsAre
        <3>2. Legs[f[1]] = l
            BY <3>1 DEF Lone
        <3>3. LegOK(legs[l])
            BY DEF Lone, LegsOK
        <3> QED
            BY <3>1, <3>2, <3>3, LegPlaces DEF SpotChunk
    <2>3. \A f, g \in Spots(legs) : f[1] = g[1]
        <3> SUFFICES ASSUME NEW f \in Spots(legs), NEW g \in Spots(legs) PROVE f[1] = g[1]
            OBVIOUS
        <3> DEFINE a == f[1]
                   b == g[1]
        <3>1. a \in 1 .. 4 /\ b \in 1 .. 4 /\ Legs[a] = l /\ Legs[b] = l
            BY <2>2
        <3> HIDE DEF a, b
        <3>2. a = b
            BY <3>1, LegNames
        <3> QED
            BY <3>2 DEF a, b
    <2> SUFFICES ASSUME NEW i \in 1 .. n, NEW j \in 1 .. n, i < j
                 PROVE  pos(ins[i]) < pos(ins[j])
        OBVIOUS
    <2>4. /\ at[i] \in Spots(legs) /\ at[j] \in Spots(legs)
          /\ ins[i] = SpotChunk(legs, at[i]) /\ ins[j] = SpotChunk(legs, at[j])
          /\ at[i][1] < at[j][1] \/ (at[i][1] = at[j][1] /\ at[i][2] < at[j][2])
        BY <2>1
    <2>5. at[i][1] = at[j][1] /\ at[i][1] \in 1 .. 4
        BY <2>2, <2>3, <2>4
    <2>6. at[i][2] < at[j][2]
        BY <2>4, <2>5
    <2> QED
        BY <2>2, <2>4, <2>6
<1>6. plain = Sorted(ins, score) /\ final = Sorted(plain, dem)
    BY DEF Plain, Ranking
<1> HIDE DEF n, ins, score, plain, final, pos
<1>7. \A i \in 1 .. n : ins[i] \in Keys(legs)
    BY <1>4 DEF ToSet
<1>8. /\ \A i \in 1 .. n : score[ins[i]] \in Int
      /\ \A i, j \in 1 .. n : i < j => score[ins[i]] >= score[ins[j]]
    BY <1>2, <1>3, <1>5, <1>7
<1>9. \A i, j \in 1 .. n : plain[i] = plain[j] => i = j
    <2>1. \A i \in 1 .. n : score[ins[i]] \in Int
        BY <1>8
    <2> QED
        BY <1>4, <1>6, <2>1, SortedKeeps
<1>10. PICK p \in [1 .. n -> 1 .. n] :
         /\ Sorted(ins, score) = [k \in 1 .. n |-> ins[p[k]]]
         /\ \A k, m \in 1 .. n : k < m => p[k] < p[m]
    <2>1. \A i \in 1 .. n : score[ins[i]] \in Int
        BY <1>8
    <2>2. \A i, j \in 1 .. n : i < j => score[ins[i]] >= score[ins[j]]
        BY <1>8
    <2>3. n \in Nat /\ DOMAIN ins = 1 .. n
        BY <1>4
    <2>4. Follows(Sorted(ins, score), ins, n)
        BY <2>1, <2>2, <2>3, SortedStable
    <2> QED
        BY <2>4 DEF Follows
<1>11. /\ DOMAIN plain = 1 .. n
       /\ \A i \in 1 .. n : plain[i] \in Keys(legs) /\ score[plain[i]] \in Nat
       /\ \A i, j \in 1 .. n : i < j => pos(plain[i]) < pos(plain[j])
    <2>1. DOMAIN plain = 1 .. n /\ \A k \in 1 .. n : plain[k] = ins[p[k]] /\ p[k] \in 1 .. n
        BY <1>6, <1>10
    <2> QED
        BY <1>2, <1>5, <1>7, <1>10, <2>1
<1>12. \A i, j \in 1 .. n : i < j => score[plain[i]] >= score[plain[j]]
    BY <1>3, <1>11
<1>13. \A i \in 1 .. n : dem[plain[i]] = score[plain[i]] * 6
    <2> SUFFICES ASSUME NEW i \in 1 .. n PROVE dem[plain[i]] = score[plain[i]] * 6
        OBVIOUS
    <2>1. /\ \A k, m \in DOMAIN plain : plain[k] = plain[m] => k = m
          /\ \A k \in DOMAIN plain : score[plain[k]] \in Nat
          /\ i \in DOMAIN plain /\ i \in Nat
        BY <1>4, <1>11, <1>9
    <2>2. LET d == Demoted(legs, plain, score, 0)[plain[i]]
          IN /\ d \in Nat /\ d <= score[plain[i]] * 6
             /\ \/ 0 = 0
                \/ \A j \in 1 .. i - 1 : Owner(legs, plain[j]) # Owner(legs, plain[i])
                => d = score[plain[i]] * 6
        BY <1>1, <2>1, DemotedIs
    <2> QED
        BY <2>2
<1> HIDE DEF dem
<1>14. /\ \A i \in 1 .. n : dem[plain[i]] \in Int
       /\ \A i, j \in 1 .. n : i < j => dem[plain[i]] >= dem[plain[j]]
    <2>1. \A i \in 1 .. n : dem[plain[i]] \in Int
        BY <1>11, <1>13
    <2>2. ASSUME NEW i \in 1 .. n, NEW j \in 1 .. n, i < j
          PROVE  dem[plain[i]] >= dem[plain[j]]
        <3> DEFINE a == score[plain[i]]
                   b == score[plain[j]]
        <3>1. a \in Nat /\ b \in Nat /\ a >= b
            BY <1>11, <1>12, <2>2
        <3>2. dem[plain[i]] = a * 6 /\ dem[plain[j]] = b * 6
            BY <1>13
        <3> HIDE DEF a, b
        <3> QED
            BY <3>1, <3>2
    <2> QED
        BY <2>1, <2>2
<1>15. PICK q \in [1 .. n -> 1 .. n] :
         /\ Sorted(plain, dem) = [k \in 1 .. n |-> plain[q[k]]]
         /\ \A k, m \in 1 .. n : k < m => q[k] < q[m]
    <2>1. \A i \in 1 .. n : dem[plain[i]] \in Int
        BY <1>14
    <2>2. \A i, j \in 1 .. n : i < j => dem[plain[i]] >= dem[plain[j]]
        BY <1>14
    <2>3. n \in Nat /\ DOMAIN plain = 1 .. n
        BY <1>4, <1>11
    <2>4. Follows(Sorted(plain, dem), plain, n)
        BY <2>1, <2>2, <2>3, SortedStable
    <2> QED
        BY <2>4 DEF Follows
<1>16. DOMAIN final = 1 .. n /\ \A k \in 1 .. n : final[k] = plain[q[k]] /\ q[k] \in 1 .. n
    BY <1>6, <1>15
<1>17. \A i, j \in 1 .. n : i < j => pos(final[i]) < pos(final[j])
    BY <1>11, <1>15, <1>16
<1> QED
    BY <1>16, <1>17 DEF final, pos

-----------------------------------------------------------------------------
(* The search: what holds between its steps.                               *)

StoreInv ==
    /\ doc \in [Chunk -> Doc \cup {None}] /\ writes \in Nat
    /\ Active(doc, row) \subseteq shown
    /\ call \in Config

(* The legs are sound; what all but the asset leg found was active; and    *)
(* with no write since, every chunk found has its row.                     *)
LegInv ==
    /\ LegsOK(leg)
    /\ \A l \in ToSet(Legs) \ {"asset"} : Found(leg[l]) \subseteq shown
    /\ writes = 0 => Keys(leg) \subseteq Rows(doc)

(* The legs a mode may use.                                                *)
Own == CASE call.mode = "bm25"   -> {"bm25"}
         [] call.mode = "vector" -> {"vector", "asset"}
         [] call.mode = "hybrid" -> ToSet(Legs)

ModeInv ==
    /\ todo \subseteq Own
    /\ \A l \in ToSet(Legs) \ Own : leg[l] = <<>>
    /\ call.mode # "hybrid" => pc \notin {"window", "rerank"}

RankInv ==
    pc \in {"window", "rerank", "rows", "documents", "done"} => ranked = Ranking(leg)

WindowInv ==
    pc = "rerank" =>
      /\ fetched \subseteq ToSet(ranked)
      /\ writes = 0 => fetched = ToSet(Window)

TopInv ==
    pc \in {"rows", "documents", "done"} =>
      /\ top \in Seq(Keys(leg)) /\ Len(top) <= call.limit
      /\ \A i, j \in DOMAIN top : top[i] = top[j] => i = j
      /\ writes = 0 => Len(top) = Min({call.limit, Cardinality(Keys(leg))})
      /\ call.mode # "hybrid" => top = Cut(ranked)

Held == { i \in DOMAIN top : top[i] \in fetched }

HeldInv == pc \in {"documents", "done"} /\ writes = 0 => ToSet(top) \subseteq fetched

HitsInv ==
    pc = "done" =>
      /\ hits \in Seq([chunk : Keys(leg), path : BOOLEAN])
      /\ DOMAIN hits = DOMAIN Selected(top, Held)
      /\ \A i \in DOMAIN hits : hits[i].chunk = Selected(top, Held)[i]

AnswerInv ==
    StoreInv /\ LegInv /\ ModeInv /\ RankInv /\ WindowInv /\ TopInv /\ HeldInv /\ HitsInv

-----------------------------------------------------------------------------
LEMMA Mins ==
    ASSUME NEW a \in Nat, NEW b \in Nat
    PROVE  /\ Min({a, b}) = IF a <= b THEN a ELSE b
           /\ Max({a, b}) = IF a >= b THEN a ELSE b
<1>1. \E x \in {a, b} : \A y \in {a, b} : x <= y
    <2>1. a <= b \/ b <= a
        OBVIOUS
    <2>2. a <= a /\ b <= b
        OBVIOUS
    <2> QED
        BY <2>1, <2>2
<1>2. \E x \in {a, b} : \A y \in {a, b} : x >= y
    <2>1. a >= b \/ b >= a
        OBVIOUS
    <2>2. a >= a /\ b >= b
        OBVIOUS
    <2> QED
        BY <2>1, <2>2
<1>3. Min({a, b}) \in {a, b} /\ \A y \in {a, b} : Min({a, b}) <= y
    BY <1>1 DEF Min
<1>4. Max({a, b}) \in {a, b} /\ \A y \in {a, b} : Max({a, b}) >= y
    BY <1>2 DEF Max
<1> QED
    BY <1>3, <1>4

(* The head of a listing.                                                  *)
LEMMA HeadIs ==
    ASSUME NEW n \in Nat, NEW S, NEW s \in [1 .. n -> S], NEW k \in 0 .. n
    PROVE  /\ s \in Seq(S) /\ Len(s) = n
           /\ SubSeq(s, 1, k) \in Seq(S) /\ Len(SubSeq(s, 1, k)) = k
           /\ DOMAIN SubSeq(s, 1, k) = 1 .. k
           /\ \A i \in 1 .. k : SubSeq(s, 1, k)[i] = s[i] /\ i \in 1 .. n
<1>1. s \in Seq(S) /\ Len(s) = n
    <2>1. s \in Seq(S)
        BY SeqDef
    <2>2. DOMAIN s = 1 .. Len(s) /\ Len(s) \in Nat
        BY <2>1, LenProperties
    <2>3. DOMAIN s = 1 .. n
        OBVIOUS
    <2> QED
        BY <2>1, <2>2, <2>3
<1>2. k \in Int /\ k >= 0 /\ \A i \in 1 .. k : i \in 1 .. n /\ s[i] \in S
    OBVIOUS
<1>3. /\ SubSeq(s, 1, k) \in Seq(S)
      /\ Len(SubSeq(s, 1, k)) = IF 1 <= k THEN k - 1 + 1 ELSE 0
      /\ \A i \in 1 .. k - 1 + 1 : SubSeq(s, 1, k)[i] = s[1 + i - 1]
    BY <1>2, SubSeqProperties
<1>4. Len(SubSeq(s, 1, k)) = k
    BY <1>2, <1>3
<1>5. DOMAIN SubSeq(s, 1, k) = 1 .. k
    BY <1>3, <1>4, LenProperties
<1>6. \A i \in 1 .. k : SubSeq(s, 1, k)[i] = s[i]
    BY <1>2, <1>3
<1> QED
    BY <1>1, <1>2, <1>3, <1>4, <1>5, <1>6

LEMMA CutIs ==
    ASSUME NEW n \in Nat, NEW S, NEW s \in [1 .. n -> S],
           \A i, j \in 1 .. n : s[i] = s[j] => i = j,
           call \in Config
    PROVE  /\ Cut(s) \in Seq(S) /\ Len(Cut(s)) <= call.limit
           /\ Len(Cut(s)) = Min({call.limit, n})
           /\ DOMAIN Cut(s) \subseteq 1 .. n
           /\ \A i \in DOMAIN Cut(s) : Cut(s)[i] = s[i]
           /\ \A i, j \in DOMAIN Cut(s) : Cut(s)[i] = Cut(s)[j] => i = j
<1> DEFINE k == Min({n, call.limit})
<1>1. call.limit \in Nat
    BY RetrieveAssumption
<1>2. /\ k = IF n <= call.limit THEN n ELSE call.limit
      /\ Min({call.limit, n}) = IF call.limit <= n THEN call.limit ELSE n
    BY <1>1, Mins
<1> HIDE DEF k
<1>3. k \in 0 .. n /\ k <= call.limit /\ Min({call.limit, n}) = k
    BY <1>1, <1>2
<1>4. Len(s) = n
    BY <1>3, HeadIs
<1>5. Cut(s) = SubSeq(s, 1, k)
    BY <1>4 DEF Cut, k
<1>6. /\ SubSeq(s, 1, k) \in Seq(S) /\ Len(SubSeq(s, 1, k)) = k
      /\ DOMAIN SubSeq(s, 1, k) = 1 .. k
      /\ \A i \in 1 .. k : SubSeq(s, 1, k)[i] = s[i] /\ i \in 1 .. n
    BY <1>3, HeadIs
<1> QED
    BY <1>3, <1>5, <1>6

(* What a leg may return.                                                  *)
LEMMA RankingsAre ==
    ASSUME doc \in [Chunk -> Doc \cup {None}], NEW S, S \subseteq Chunk,
           NEW n \in Nat, NEW hs \in Rankings(S, n)
    PROVE  LegOK(hs) /\ Found(hs) \subseteq S
<1>1. PICK p \in { q \in SetToAllKPermutations(S) : Len(q) <= n },
           s \in { r \in [1 .. n -> 1 .. 2] :
                     /\ \A i, j \in 1 .. n : i < j => r[i] >= r[j]
                     /\ call.fusion = "rrf" => \A i \in 1 .. n : r[i] = 1 } :
         hs = [i \in DOMAIN p |-> [chunk |-> p[i], doc |-> doc[p[i]], score |-> s[i]]]
    BY DEF Rankings
<1>2. PICK T \in SUBSET S : p \in SetToSeqs(T)
    BY <1>1 DEF SetToAllKPermutations
<1> DEFINE m == Cardinality(T)
<1>3. p \in [1 .. m -> T] /\ \A i, j \in 1 .. m : i # j => p[i] # p[j]
    BY <1>2 DEF SetToSeqs
<1>4. m \in Nat
    BY RetrieveAssumption, FS_Subset, FS_CardinalityType
<1> HIDE DEF m
<1>5. p \in Seq(T) /\ Len(p) = m
    BY <1>3, <1>4, HeadIs
<1>6. m <= n
    BY <1>1, <1>5
<1>7. DOMAIN hs = 1 .. m
    BY <1>1, <1>3
<1>8. \A i \in 1 .. m : /\ hs[i].chunk = p[i] /\ hs[i].score = s[i]
                        /\ hs[i] \in Hit /\ p[i] \in S /\ i \in 1 .. n
    <2> SUFFICES ASSUME NEW i \in 1 .. m
                 PROVE  /\ hs[i].chunk = p[i] /\ hs[i].score = s[i]
                        /\ hs[i] \in Hit /\ p[i] \in S /\ i \in 1 .. n
        OBVIOUS
    <2>1. i \in 1 .. n
        BY <1>4, <1>6
    <2>2. p[i] \in S /\ p[i] \in Chunk /\ s[i] \in 1 .. 2 /\ doc[p[i]] \in Doc \cup {None}
        BY <1>1, <1>3, <2>1
    <2>3. hs[i] = [chunk |-> p[i], doc |-> doc[p[i]], score |-> s[i]]
        BY <1>1, <1>3
    <2> QED
        BY <2>1, <2>2, <2>3 DEF Hit
<1>9. hs \in Seq(Hit)
    <2>1. hs = [i \in 1 .. m |-> hs[i]]
        BY <1>1, <1>3
    <2>2. hs \in [1 .. m -> Hit]
        BY <1>8, <2>1
    <2> QED
        BY <1>4, <2>2, HeadIs
<1>10. \A i, j \in DOMAIN hs : hs[i].chunk = hs[j].chunk => i = j
    BY <1>3, <1>7, <1>8
<1>11. \A i, j \in DOMAIN hs : i < j => hs[i].score >= hs[j].score
    BY <1>1, <1>7, <1>8
<1>12. Found(hs) \subseteq S
    BY <1>7, <1>8 DEF Found
<1> QED
    BY <1>9, <1>10, <1>11, <1>12 DEF LegOK

(* A leg with some hits dropped.                                           *)
LEMMA SelectedLeg ==
    ASSUME NEW hs, LegOK(hs), NEW I \in SUBSET DOMAIN hs
    PROVE  /\ LegOK(Selected(hs, I)) /\ Found(Selected(hs, I)) \subseteq Found(hs)
           /\ hs = <<>> => Selected(hs, I) = <<>>
<1> DEFINE n == Cardinality(I)
           t == Selected(hs, I)
<1>1. DOMAIN hs \in SUBSET Nat /\ IsFiniteSet(DOMAIN hs) /\ \A i \in DOMAIN hs : hs[i] \in Hit
    <2> DEFINE k == Len(hs)
    <2>1. k \in Nat /\ DOMAIN hs = 1 .. k /\ \A i \in DOMAIN hs : hs[i] \in Hit
        BY LegPlaces
    <2> HIDE DEF k
    <2>2. IsFiniteSet(1 .. k)
        BY <2>1, FS_Interval
    <2> QED
        BY <2>1, <2>2
<1>2. I \in SUBSET Nat /\ IsFiniteSet(I)
    BY <1>1, FS_Subset
<1>3. PICK p \in [1 .. n -> I] :
         /\ t = [k \in 1 .. n |-> hs[p[k]]]
         /\ \A k, m \in 1 .. n : k < m => p[k] < p[m]
         /\ ToSet(p) = I
    BY <1>2, SelectedIs
<1>4. n \in Nat
    BY <1>2, SelectedIs
<1> HIDE DEF n, t
<1>5. DOMAIN t = 1 .. n /\ \A k \in 1 .. n : t[k] = hs[p[k]] /\ p[k] \in DOMAIN hs /\ t[k] \in Hit
    BY <1>1, <1>3
<1>6. t \in Seq(Hit)
    <2>1. t \in [1 .. n -> Hit]
        BY <1>1, <1>3
    <2> QED
        BY <1>4, <2>1, HeadIs
<1>7. \A i, j \in 1 .. n : i # j => p[i] # p[j]
    <2> SUFFICES ASSUME NEW i \in 1 .. n, NEW j \in 1 .. n, i < j PROVE p[i] # p[j]
        BY <1>4
    <2>1. p[i] < p[j] /\ p[i] \in Nat /\ p[j] \in Nat
        BY <1>2, <1>3
    <2> QED
        BY <2>1
<1>8. \A i, j \in DOMAIN t : t[i].chunk = t[j].chunk => i = j
    BY <1>5, <1>7 DEF LegOK
<1>9. \A i, j \in DOMAIN t : i < j => t[i].score >= t[j].score
    BY <1>3, <1>5 DEF LegOK
<1>10. Found(t) \subseteq Found(hs)
    BY <1>5 DEF Found
<1>11. ASSUME hs = <<>> PROVE t = <<>>
    <2>1. DOMAIN hs = {}
        BY <1>11
    <2>2. n = 0
        BY <1>4, <1>5, <2>1
    <2>3. DOMAIN t = 1 .. Len(t) /\ Len(t) \in Nat
        BY <1>6, LenProperties
    <2>4. Len(t) = 0
        BY <1>5, <2>2, <2>3
    <2> QED
        BY <1>6, <2>4, EmptySeq
<1> QED
    BY <1>6, <1>8, <1>9, <1>10, <1>11 DEF LegOK, t

-----------------------------------------------------------------------------
LEMMA EmptyLeg == LegOK(<<>>) /\ Found(<<>>) = {}
<1>1. <<>> \in Seq(Hit) /\ DOMAIN <<>> = {}
    BY EmptySeq
<1> QED
    BY <1>1 DEF LegOK, Found

(* One leg is replaced.                                                    *)
LEMMA OneLeg ==
    ASSUME NEW legs, LegsOK(legs), NEW l \in ToSet(Legs), NEW hs, LegOK(hs)
    PROVE  LET new == [legs EXCEPT ![l] = hs]
           IN /\ LegsOK(new)
              /\ \A x \in ToSet(Legs) : new[x] = IF x = l THEN hs ELSE legs[x]
              /\ Keys(new) \subseteq Keys(legs) \cup Found(hs)
<1> DEFINE new == [legs EXCEPT ![l] = hs]
<1>1. DOMAIN legs = ToSet(Legs)
    BY DEF LegsOK
<1>2. DOMAIN new = ToSet(Legs) /\ \A x \in ToSet(Legs) : new[x] = IF x = l THEN hs ELSE legs[x]
    BY <1>1
<1> HIDE DEF new
<1>3. LegsOK(new)
    BY <1>2 DEF LegsOK
<1>4. Keys(new) \subseteq Keys(legs) \cup Found(hs)
    BY <1>1, <1>2 DEF Keys
<1> QED
    BY <1>2, <1>3, <1>4 DEF new

(* The same of the legs of the search.                                     *)
LEMMA LegReplaced ==
    ASSUME LegsOK(leg), NEW l \in ToSet(Legs), NEW hs, LegOK(hs),
           leg' = [leg EXCEPT ![l] = hs]
    PROVE  /\ LegsOK(leg')
           /\ \A x \in ToSet(Legs) : leg'[x] = IF x = l THEN hs ELSE leg[x]
           /\ Keys(leg') \subseteq Keys(leg) \cup Found(hs)
<1> DEFINE new == [leg EXCEPT ![l] = hs]
<1>1. /\ LegsOK(new)
      /\ \A x \in ToSet(Legs) : new[x] = IF x = l THEN hs ELSE leg[x]
      /\ Keys(new) \subseteq Keys(leg) \cup Found(hs)
    BY OneLeg
<1>2. leg' = new
    OBVIOUS
<1> HIDE DEF new
<1> QED
    BY <1>1, <1>2

LEMMA AnswerInit == Init => AnswerInv
<1> SUFFICES ASSUME Init PROVE AnswerInv
    OBVIOUS
<1> USE DEF Init
<1>1. StoreInv
    BY RetrieveAssumption DEF StoreInv
<1>2. \A l \in ToSet(Legs) : leg[l] = <<>>
    OBVIOUS
<1>3. LegInv
    <2>1. LegsOK(leg)
        BY <1>2, EmptyLeg DEF LegsOK
    <2>2. Keys(leg) = {}
        BY <1>2, EmptyLeg DEF Keys
    <2> QED
        BY <1>2, <2>1, <2>2, EmptyLeg DEF LegInv
<1>4. ModeInv
    BY <1>2, LegNames, RetrieveAssumption DEF ModeInv, Own
<1>5. RankInv /\ WindowInv /\ TopInv /\ HeldInv /\ HitsInv
    BY DEF RankInv, WindowInv, TopInv, HeldInv, HitsInv
<1> QED
    BY <1>1, <1>3, <1>4, <1>5 DEF AnswerInv

(* The chunks found are chunks; so are those with rows.                    *)
LEMMA ChunksAre ==
    /\ Rows(doc) \subseteq Chunk /\ Active(doc, row) \subseteq Rows(doc)
    /\ Findable = Active(doc, row)
BY DEF Rows, Active, Findable

(* While search and legs are as they were, so are the rankings.            *)
LEMMA RankingKept ==
    ASSUME UNCHANGED <<call, leg>>
    PROVE  Ranking(leg)' = Ranking(leg)
BY DEF Ranking, Plain

LEMMA WriteKeeps ==
    ASSUME AnswerInv, Write
    PROVE  AnswerInv'
<1>1. /\ UNCHANGED <<call, pc, todo, leg, ranked, top, fetched, hits, met>>
      /\ writes' = writes + 1 /\ pc \notin {"done", "failed"}
      /\ shown' = shown \cup Active(doc', row')
    BY DEF Write
<1>2. writes' # 0 /\ writes' \in Nat
    BY <1>1 DEF AnswerInv, StoreInv
<1>3. doc' \in [Chunk -> Doc \cup {None}]
    <2>1. doc \in [Chunk -> Doc \cup {None}]
        BY DEF AnswerInv, StoreInv
    <2>2. \A d : Without(d) \in [Chunk -> Doc \cup {None}]
        BY <2>1 DEF Without
    <2>3. PICK d \in Doc : Upsert(d) \/ ReplaceChunks(d) \/ Hide(d) \/ Delete(d)
        BY DEF Write
    <2>4. CASE Upsert(d)
        BY <2>1, <2>4 DEF Upsert
    <2>5. CASE ReplaceChunks(d)
        <3>1. CASE doc' = Without(d)
            BY <2>2, <3>1
        <3>2. CASE doc' = [Without(d) EXCEPT ![last'] = d]
            BY <2>2, <3>2
        <3> QED
            BY <2>5, <3>1, <3>2 DEF ReplaceChunks
    <2>6. CASE Hide(d)
        BY <2>1, <2>6 DEF Hide
    <2>7. CASE Delete(d)
        BY <2>2, <2>7 DEF Delete
    <2> QED
        BY <2>3, <2>4, <2>5, <2>6, <2>7
<1>4. StoreInv'
    BY <1>1, <1>2, <1>3 DEF AnswerInv, StoreInv
<1>5. LegInv'
    <2>1. \A l \in ToSet(Legs) \ {"asset"} : Found(leg[l]) \subseteq shown'
        BY <1>1 DEF AnswerInv, LegInv
    <2> QED
        BY <1>1, <1>2, <2>1 DEF AnswerInv, LegInv
<1>6. ModeInv'
    BY <1>1 DEF AnswerInv, ModeInv, Own
<1>7. RankInv'
    BY <1>1, RankingKept DEF AnswerInv, RankInv
<1>8. WindowInv' /\ HeldInv' /\ HitsInv'
    BY <1>1, <1>2 DEF AnswerInv, WindowInv, HeldInv, HitsInv
<1>9. TopInv'
    BY <1>1, <1>2 DEF AnswerInv, TopInv, Cut
<1> QED
    BY <1>4, <1>5, <1>6, <1>7, <1>8, <1>9 DEF AnswerInv

(* Before anything is ranked only the store, the legs and the mode matter. *)
LEMMA Early ==
    ASSUME StoreInv', LegInv', ModeInv',
           pc' \notin {"window", "rerank", "rows", "documents", "done"}
    PROVE  AnswerInv'
BY DEF AnswerInv, RankInv, WindowInv, TopInv, HeldInv, HitsInv

LEMMA StoreKept ==
    ASSUME StoreInv, UNCHANGED <<store, call>>
    PROVE  StoreInv'
BY DEF StoreInv, store, Active, Rows

LEMMA LegsKept ==
    ASSUME LegInv, UNCHANGED <<store, leg>>
    PROVE  LegInv'
BY DEF LegInv, store, Rows

LEMMA EmbedKeeps ==
    ASSUME AnswerInv, NEW at, NEW l \in {"vector", "asset"}, NEW next \in {"image", "legs"},
           Embed(at, l, next)
    PROVE  AnswerInv'
<1>1. /\ UNCHANGED <<store, call, leg>> /\ pc' \in {"image", "legs", "failed"}
      /\ todo' = todo \/ (todo' = todo \cup {l} /\ Wired(l))
    BY DEF Embed, Fail
<1>2. StoreInv' /\ LegInv'
    BY <1>1, StoreKept, LegsKept DEF AnswerInv
<1>3. ModeInv'
    <2>1. Wired(l) => l \in Own
        BY LegNames, RetrieveAssumption DEF Wired, Own, AnswerInv, StoreInv
    <2> QED
        BY <1>1, <2>1 DEF AnswerInv, ModeInv, Own
<1> QED
    BY <1>1, <1>2, <1>3, Early

LEMMA RunLegKeeps ==
    ASSUME AnswerInv, NEW l \in ToSet(Legs), RunLeg(l)
    PROVE  AnswerInv'
<1>1. PICK hs \in Rankings(Findable, PerLeg) : leg' = [leg EXCEPT ![l] = hs]
    BY DEF RunLeg
<1>2. /\ UNCHANGED <<store, call, pc>> /\ pc = "legs"
      /\ l \in todo /\ l # "asset" /\ todo' = todo \ {l}
    BY DEF RunLeg
<1>3. LegOK(hs) /\ Found(hs) \subseteq Active(doc, row)
    BY <1>1, ChunksAre, RankingsAre, RetrieveAssumption DEF AnswerInv, StoreInv
<1>4. /\ LegsOK(leg')
      /\ \A x \in ToSet(Legs) : leg'[x] = IF x = l THEN hs ELSE leg[x]
      /\ Keys(leg') \subseteq Keys(leg) \cup Found(hs)
    <2>1. LegsOK(leg)
        BY DEF AnswerInv, LegInv
    <2> QED
        BY <1>1, <1>3, <2>1, LegReplaced
<1>5. StoreInv'
    BY <1>2, StoreKept DEF AnswerInv
<1>6. LegInv'
    <2>1. UNCHANGED <<doc, row, shown, writes>>
        BY <1>2 DEF store
    <2>2. \A x \in ToSet(Legs) \ {"asset"} : Found(leg'[x]) \subseteq shown'
        BY <1>3, <1>4, <2>1 DEF AnswerInv, StoreInv, LegInv
    <2>3. writes' = 0 => Keys(leg') \subseteq Rows(doc')
        BY <1>3, <1>4, <2>1, ChunksAre DEF AnswerInv, LegInv
    <2> QED
        BY <1>4, <2>2, <2>3 DEF LegInv
<1>7. ModeInv'
    <2>1. Own' = Own
        BY <1>2 DEF Own
    <2>2. l \in Own
        BY <1>2 DEF AnswerInv, ModeInv
    <2> QED
        BY <1>2, <1>4, <2>1, <2>2 DEF AnswerInv, ModeInv
<1> QED
    BY <1>2, <1>5, <1>6, <1>7, Early

LEMMA PromoteKeeps ==
    ASSUME AnswerInv, Promote
    PROVE  AnswerInv'
<1>1. /\ UNCHANGED <<store, call>> /\ pc' = "promoted" /\ todo' = {}
      /\ todo \subseteq {"asset"}
    BY DEF Promote
<1>2. StoreInv'
    BY <1>1, StoreKept DEF AnswerInv
<1>3. Own' = Own
    BY <1>1 DEF Own
<1>4. CASE todo = {}
    <2>1. leg' = leg
        BY <1>4 DEF Promote
    <2>2. LegInv'
        BY <1>1, <2>1, LegsKept DEF AnswerInv
    <2>3. ModeInv'
        BY <1>1, <1>3, <2>1 DEF AnswerInv, ModeInv
    <2> QED
        BY <1>1, <1>2, <2>2, <2>3, Early
<1>5. CASE todo # {}
    <2>1. PICK hs \in Rankings(Rows(doc), MaxPromoted) :
                 leg' = [leg EXCEPT !["asset"] = hs]
        BY <1>5 DEF Promote
    <2>2. LegOK(hs) /\ Found(hs) \subseteq Rows(doc)
        BY <2>1, ChunksAre, RankingsAre, RetrieveAssumption DEF AnswerInv, StoreInv
    <2>3. /\ LegsOK(leg')
          /\ \A x \in ToSet(Legs) : leg'[x] = IF x = "asset" THEN hs ELSE leg[x]
          /\ Keys(leg') \subseteq Keys(leg) \cup Found(hs)
        <3>1. LegsOK(leg) /\ "asset" \in ToSet(Legs)
            BY LegNames DEF AnswerInv, LegInv
        <3> QED
            BY <2>1, <2>2, <3>1, LegReplaced
    <2>4. LegInv'
        <3>1. UNCHANGED <<doc, row, shown, writes>>
            BY <1>1 DEF store
        <3>2. \A x \in ToSet(Legs) \ {"asset"} : Found(leg'[x]) \subseteq shown'
            BY <2>3, <3>1 DEF AnswerInv, LegInv
        <3>3. writes' = 0 => Keys(leg') \subseteq Rows(doc')
            BY <2>2, <2>3, <3>1 DEF AnswerInv, LegInv
        <3> QED
            BY <2>3, <3>2, <3>3 DEF LegInv
    <2>5. ModeInv'
        <3>1. "asset" \in Own
            BY <1>1, <1>5 DEF AnswerInv, ModeInv
        <3> QED
            BY <1>1, <1>3, <2>3, <3>1 DEF AnswerInv, ModeInv
    <2> QED
        BY <1>1, <1>2, <2>4, <2>5, Early
<1> QED
    BY <1>4, <1>5

LEMMA KeepRowsKeeps ==
    ASSUME AnswerInv, KeepRows
    PROVE  AnswerInv'
<1> DEFINE hs == leg["asset"]
           I == { i \in DOMAIN hs : hs[i].chunk \in Rows(doc) }
           kept == Selected(hs, I)
<1>1. /\ UNCHANGED <<store, call, todo>> /\ pc' = "graph"
      /\ leg' = [leg EXCEPT !["asset"] = kept]
    BY DEF KeepRows
<1>2. "asset" \in ToSet(Legs) /\ LegOK(hs) /\ LegsOK(leg) /\ Found(hs) \subseteq Keys(leg)
    BY LegNames DEF AnswerInv, LegInv, LegsOK, Keys
<1>3. I \in SUBSET DOMAIN hs
    OBVIOUS
<1> HIDE DEF I, hs
<1>4. LegOK(kept) /\ Found(kept) \subseteq Found(hs) /\ (hs = <<>> => kept = <<>>)
    BY <1>2, <1>3, SelectedLeg
<1> HIDE DEF kept
<1>5. /\ LegsOK(leg')
      /\ \A x \in ToSet(Legs) : leg'[x] = IF x = "asset" THEN kept ELSE leg[x]
      /\ Keys(leg') \subseteq Keys(leg) \cup Found(kept)
    BY <1>1, <1>2, <1>4, LegReplaced
<1>6. LegInv'
    <2>1. UNCHANGED <<doc, row, shown, writes>>
        BY <1>1 DEF store
    <2>2. \A x \in ToSet(Legs) \ {"asset"} : Found(leg'[x]) \subseteq shown'
        BY <1>5, <2>1 DEF AnswerInv, LegInv
    <2>3. writes' = 0 => Keys(leg') \subseteq Rows(doc')
        BY <1>2, <1>4, <1>5, <2>1 DEF AnswerInv, LegInv
    <2> QED
        BY <1>5, <2>2, <2>3 DEF LegInv
<1>7. ModeInv'
    <2>1. Own' = Own
        BY <1>1 DEF Own
    <2> QED
        BY <1>1, <1>4, <1>5, <2>1 DEF AnswerInv, ModeInv, hs
<1>8. StoreInv'
    BY <1>1, StoreKept DEF AnswerInv
<1> QED
    BY <1>1, <1>6, <1>7, <1>8, Early

(* What the head of the fused ranking is.                                  *)
LEMMA CutRanking ==
    ASSUME NEW legs, LegsOK(legs), call \in Config
    PROVE  LET cut == Cut(Ranking(legs))
           IN /\ cut \in Seq(Keys(legs)) /\ Len(cut) <= call.limit
              /\ \A i, j \in DOMAIN cut : cut[i] = cut[j] => i = j
              /\ Len(cut) = Min({call.limit, Cardinality(Keys(legs))})
<1> DEFINE n == Cardinality(Keys(legs))
           s == Ranking(legs)
<1>1. /\ n \in Nat /\ s \in [1 .. n -> Keys(legs)]
      /\ \A i, j \in 1 .. n : s[i] = s[j] => i = j
    BY RankingIs
<1> HIDE DEF n, s
<1>2. /\ Cut(s) \in Seq(Keys(legs)) /\ Len(Cut(s)) <= call.limit
      /\ Len(Cut(s)) = Min({call.limit, n})
      /\ \A i, j \in DOMAIN Cut(s) : Cut(s)[i] = Cut(s)[j] => i = j
    BY <1>1, CutIs
<1> QED
    BY <1>2 DEF n, s

LEMMA FuseKeeps ==
    ASSUME AnswerInv, Fuse
    PROVE  AnswerInv'
<1>1. UNCHANGED <<store, call, todo>>
    BY DEF Fuse, Fail
<1>2. StoreInv' /\ call \in Config /\ call' = call
    BY <1>1, StoreKept DEF AnswerInv, StoreInv
<1>3. Own' = Own
    BY <1>1 DEF Own
<1>4. CASE pc' = "failed"
    <2>1. leg' = leg
        BY <1>4 DEF Fuse, Fail
    <2>2. LegInv' /\ ModeInv'
        BY <1>1, <1>3, <1>4, <2>1, LegsKept DEF AnswerInv, ModeInv
    <2> QED
        BY <1>2, <1>4, <2>2, Early
<1>5. CASE pc' # "failed"
    <2>1. PICK hs \in IF GraphRuns THEN Rankings(Findable \ Seeds, PerLeg) ELSE {<<>>} :
             LET legs == [leg EXCEPT !["graph"] = hs]
             IN /\ leg' = legs
                /\ ranked' = Ranking(legs)
                /\ IF Reranks THEN pc' = "window" /\ UNCHANGED top
                   ELSE pc' = "rows" /\ top' = Cut(ranked')
        BY <1>5 DEF Fuse, Fail
    <2>2. LegOK(hs) /\ Found(hs) \subseteq Active(doc, row)
        <3>1. CASE GraphRuns
            <4>1. hs \in Rankings(Findable \ Seeds, PerLeg)
                BY <2>1, <3>1
            <4>2. Findable \ Seeds \subseteq Chunk /\ Findable = Active(doc, row)
                BY ChunksAre
            <4> QED
                BY <4>1, <4>2, RankingsAre, RetrieveAssumption DEF AnswerInv, StoreInv
        <3>2. CASE ~GraphRuns
            BY <2>1, <3>2, EmptyLeg
        <3> QED
            BY <3>1, <3>2
    <2>3. /\ LegsOK(leg')
          /\ \A x \in ToSet(Legs) : leg'[x] = IF x = "graph" THEN hs ELSE leg[x]
          /\ Keys(leg') \subseteq Keys(leg) \cup Found(hs)
        <3>1. LegsOK(leg) /\ "graph" \in ToSet(Legs)
            BY LegNames DEF AnswerInv, LegInv
        <3> QED
            BY <2>1, <2>2, <3>1, LegReplaced
    <2>4. LegInv'
        <3>1. UNCHANGED <<doc, row, shown, writes>>
            BY <1>1 DEF store
        <3>2. \A x \in ToSet(Legs) \ {"asset"} : Found(leg'[x]) \subseteq shown'
            BY <2>2, <2>3, <3>1 DEF AnswerInv, StoreInv, LegInv
        <3>3. writes' = 0 => Keys(leg') \subseteq Rows(doc')
            BY <2>2, <2>3, <3>1, ChunksAre DEF AnswerInv, LegInv
        <3> QED
            BY <2>3, <3>2, <3>3 DEF LegInv
    <2>5. pc' \in {"window", "rows"} /\ (call.mode # "hybrid" => pc' = "rows")
        BY <2>1 DEF Reranks
    <2>6. ModeInv'
        <3>1. "graph" \in Own \/ hs = <<>>
            BY <2>1, LegNames DEF GraphRuns, Own
        <3> QED
            BY <1>1, <1>3, <2>3, <2>5, <3>1 DEF AnswerInv, ModeInv
    <2>7. ranked' = Ranking(leg)'
        BY <1>2, <2>1 DEF Ranking, Plain
    <2>8. RankInv'
        BY <2>7 DEF RankInv
    <2>9. WindowInv' /\ HeldInv' /\ HitsInv'
        BY <2>5 DEF WindowInv, HeldInv, HitsInv
    <2>10. TopInv'
        <3>1. CASE pc' = "rows"
            <4>1. top' = Cut(ranked)'
                BY <1>2, <2>1, <3>1 DEF Cut
            <4>2. /\ Cut(Ranking(leg')) \in Seq(Keys(leg')) /\ Len(Cut(Ranking(leg'))) <= call.limit
                  /\ \A i, j \in DOMAIN Cut(Ranking(leg')) :
                        Cut(Ranking(leg'))[i] = Cut(Ranking(leg'))[j] => i = j
                  /\ Len(Cut(Ranking(leg'))) = Min({call.limit, Cardinality(Keys(leg'))})
                BY <1>2, <2>3, CutRanking
            <4>3. top' = Cut(Ranking(leg'))
                BY <2>1, <3>1
            <4> QED
                BY <1>2, <4>1, <4>2, <4>3 DEF TopInv
        <3>2. CASE pc' = "window"
            BY <3>2 DEF TopInv
        <3> QED
            BY <2>5, <3>1, <3>2
    <2> QED
        BY <1>2, <2>4, <2>6, <2>8, <2>9, <2>10 DEF AnswerInv
<1> QED
    BY <1>4, <1>5

(* The reranker's window is chunks found, and no fewer than the answer.    *)
LEMMA WindowIs ==
    ASSUME LegsOK(leg), call \in Config, ranked = Ranking(leg)
    PROVE  /\ ToSet(Window) \subseteq Keys(leg) /\ ToSet(ranked) = Keys(leg)
           /\ IsFiniteSet(Keys(leg))
           /\ Min({call.limit, Cardinality(ToSet(Window))})
              = Min({call.limit, Cardinality(Keys(leg))})
<1> DEFINE n == Cardinality(Keys(leg))
           m == Max({call.window, call.limit})
           k == Min({n, m})
           lim == call.limit
<1>1. /\ n \in Nat /\ IsFiniteSet(Keys(leg)) /\ ranked \in [1 .. n -> Keys(leg)]
      /\ \A i, j \in 1 .. n : ranked[i] = ranked[j] => i = j
      /\ ToSet(ranked) = Keys(leg)
    BY RankingIs
<1>2. call.window \in Nat /\ lim \in Nat
    BY RetrieveAssumption
<1>3. m \in Nat /\ m >= lim
    <2>1. m = IF call.window >= call.limit THEN call.window ELSE call.limit
        BY <1>2, Mins
    <2> HIDE DEF m
    <2> QED
        BY <1>2, <2>1
<1> HIDE DEF n, m, lim
<1>4. k = IF n <= m THEN n ELSE m
    BY <1>1, <1>3, Mins
<1> HIDE DEF k
<1>5. k \in 0 .. n /\ k \in Nat
    BY <1>1, <1>3, <1>4
<1>6. Len(ranked) = n
    BY <1>1, <1>5, HeadIs
<1>7. Window = SubSeq(ranked, 1, k)
    BY <1>6 DEF Window, k, m, lim
<1>8. /\ DOMAIN Window = 1 .. k
      /\ \A i \in 1 .. k : Window[i] = ranked[i] /\ i \in 1 .. n
    BY <1>1, <1>5, <1>7, HeadIs
<1>9. ToSet(Window) \subseteq Keys(leg)
    BY <1>1, <1>8 DEF ToSet
<1>10. \A i, j \in 1 .. k : Window[i] = Window[j] => i = j
    BY <1>1, <1>8
<1> DEFINE c == Cardinality(ToSet(Window))
<1>11. c = k
    BY <1>5, <1>8, <1>10, Listed
<1> HIDE DEF c
<1>12. /\ Min({lim, c}) = IF lim <= c THEN lim ELSE c
       /\ Min({lim, n}) = IF lim <= n THEN lim ELSE n
    BY <1>1, <1>2, <1>5, <1>11, Mins DEF lim
<1>13. Min({lim, c}) = Min({lim, n})
    BY <1>1, <1>2, <1>3, <1>4, <1>5, <1>11, <1>12 DEF lim
<1> QED
    BY <1>1, <1>9, <1>13 DEF n, c, lim

(* The head of the fused ranking becomes the answer.                       *)
LEMMA CutKeeps ==
    ASSUME LegsOK(leg), call \in Config, ranked = Ranking(leg),
           UNCHANGED <<leg, call, ranked>>, top' = Cut(ranked)
    PROVE  TopInv'
<1> DEFINE s == Ranking(leg)
           keys == Keys(leg)
<1>1. /\ Cut(s) \in Seq(keys) /\ Len(Cut(s)) <= call.limit
      /\ \A i, j \in DOMAIN Cut(s) : Cut(s)[i] = Cut(s)[j] => i = j
      /\ Len(Cut(s)) = Min({call.limit, Cardinality(keys)})
    BY CutRanking
<1>2. top' = Cut(s) /\ Keys(leg') = keys /\ call' = call
    OBVIOUS
<1>3. Cut(ranked)' = Cut(ranked)
    BY DEF Cut
<1> HIDE DEF s, keys
<1> QED
    BY <1>1, <1>2, <1>3 DEF TopInv

LEMMA ReadWindowKeeps ==
    ASSUME AnswerInv, ReadWindow
    PROVE  AnswerInv'
<1> DEFINE there == ToSet(Window) \cap Rows(doc)
<1>1. /\ pc = "window" /\ UNCHANGED <<store, call, todo, leg, ranked, hits>>
      /\ \/ there = {} /\ top' = Cut(ranked) /\ pc' = "rows" /\ UNCHANGED fetched
         \/ there # {} /\ fetched' = there /\ pc' = "rerank" /\ UNCHANGED top
    BY DEF ReadWindow
<1>2. /\ LegsOK(leg) /\ call \in Config /\ ranked = Ranking(leg)
      /\ writes = 0 => Keys(leg) \subseteq Rows(doc)
      /\ call.mode = "hybrid"
    BY <1>1 DEF AnswerInv, LegInv, StoreInv, RankInv, ModeInv
<1>3. StoreInv' /\ LegInv'
    BY <1>1, StoreKept, LegsKept DEF AnswerInv
<1>4. ModeInv'
    BY <1>1, <1>2 DEF AnswerInv, ModeInv, Own
<1>5. RankInv'
    BY <1>1, <1>2, RankingKept DEF RankInv
<1>6. HeldInv' /\ HitsInv'
    BY <1>1 DEF HeldInv, HitsInv
<1>7. CASE pc' = "rows"
    <2>1. TopInv'
        BY <1>1, <1>2, <1>7, CutKeeps
    <2>2. WindowInv'
        BY <1>7 DEF WindowInv
    <2> QED
        BY <1>3, <1>4, <1>5, <1>6, <2>1, <2>2 DEF AnswerInv
<1>8. CASE pc' = "rerank"
    <2>1. TopInv'
        BY <1>8 DEF TopInv
    <2>2. ToSet(Window) \subseteq Keys(leg) /\ ToSet(ranked) = Keys(leg)
        BY <1>2, WindowIs
    <2>3. fetched' \subseteq ToSet(ranked) /\ (writes = 0 => fetched' = ToSet(Window))
        BY <1>1, <1>2, <1>8, <2>2
    <2>4. Window' = Window /\ ranked' = ranked /\ writes' = writes
        BY <1>1 DEF Window, store
    <2>5. WindowInv'
        BY <2>3, <2>4 DEF WindowInv
    <2> QED
        BY <1>3, <1>4, <1>5, <1>6, <2>1, <2>5 DEF AnswerInv
<1> QED
    BY <1>1, <1>7, <1>8

LEMMA RerankKeeps ==
    ASSUME AnswerInv, Rerank
    PROVE  AnswerInv'
<1>1. pc = "rerank" /\ UNCHANGED <<store, call, todo, leg, ranked, hits>>
    BY DEF Rerank, Fail
<1>2. /\ LegsOK(leg) /\ call \in Config /\ ranked = Ranking(leg)
      /\ call.mode = "hybrid"
      /\ fetched \subseteq ToSet(ranked) /\ (writes = 0 => fetched = ToSet(Window))
    BY <1>1 DEF AnswerInv, LegInv, StoreInv, RankInv, ModeInv, WindowInv
<1>3. StoreInv' /\ LegInv'
    BY <1>1, StoreKept, LegsKept DEF AnswerInv
<1>4. pc' \in {"documents", "rows", "failed"}
    BY DEF Rerank, Fail
<1>5. ModeInv'
    BY <1>1, <1>2, <1>4 DEF AnswerInv, ModeInv, Own
<1>6. RankInv'
    BY <1>1, <1>2, RankingKept DEF RankInv
<1>7. WindowInv' /\ HitsInv'
    BY <1>4 DEF WindowInv, HitsInv
<1>8. CASE pc' = "documents"
    <2> DEFINE n == Cardinality(fetched)
    <2>1. PICK p \in SetToSeqs(fetched) : top' = Cut(p)
        BY <1>8 DEF Rerank, Fail
    <2>2. /\ IsFiniteSet(Keys(leg)) /\ ToSet(ranked) = Keys(leg)
          /\ Min({call.limit, Cardinality(ToSet(Window))})
             = Min({call.limit, Cardinality(Keys(leg))})
        BY <1>2, WindowIs
    <2>3. n \in Nat
        BY <1>2, <2>2, FS_Subset, FS_CardinalityType
    <2>4. p \in [1 .. n -> fetched] /\ \A i, j \in 1 .. n : p[i] = p[j] => i = j
        BY <2>1 DEF SetToSeqs
    <2>5. writes = 0 => Min({call.limit, n}) = Min({call.limit, Cardinality(Keys(leg))})
        BY <1>2, <2>2
    <2> HIDE DEF n
    <2>6. /\ Cut(p) \in Seq(fetched) /\ Len(Cut(p)) <= call.limit
          /\ Len(Cut(p)) = Min({call.limit, n})
          /\ \A i, j \in DOMAIN Cut(p) : Cut(p)[i] = Cut(p)[j] => i = j
        BY <1>2, <2>3, <2>4, CutIs
    <2>7. Cut(p) \in Seq(Keys(leg))
        BY <1>2, <2>2, <2>6, SeqMonotonic
    <2>8. TopInv'
        <3>1. UNCHANGED <<call, leg>> /\ writes' = writes
            BY <1>1 DEF store
        <3> DEFINE c == Cut(p)
        <3>2. /\ top' = c /\ c \in Seq(Keys(leg)) /\ Len(c) <= call.limit
              /\ \A i, j \in DOMAIN c : c[i] = c[j] => i = j
              /\ writes = 0 => Len(c) = Min({call.limit, Cardinality(Keys(leg))})
            BY <2>1, <2>5, <2>6, <2>7
        <3> HIDE DEF c
        <3> QED
            BY <1>2, <3>1, <3>2 DEF TopInv
    <2>9. ToSet(top') \subseteq fetched
        <3>1. top' \in Seq(fetched)
            BY <2>1, <2>6
        <3> QED
            BY <3>1, LenProperties DEF ToSet
    <2>10. HeldInv'
        <3>1. fetched' = fetched
            BY <1>8 DEF Rerank, Fail
        <3> QED
            BY <2>9, <3>1 DEF HeldInv
    <2> QED
        BY <1>3, <1>5, <1>6, <1>7, <2>8, <2>10 DEF AnswerInv
<1>9. CASE pc' = "rows"
    <2>1. top' = Cut(ranked)
        BY <1>9 DEF Rerank, Fail
    <2>2. TopInv'
        BY <1>1, <1>2, <2>1, CutKeeps
    <2>3. HeldInv'
        BY <1>9 DEF HeldInv
    <2> QED
        BY <1>3, <1>5, <1>6, <1>7, <2>2, <2>3 DEF AnswerInv
<1>10. CASE pc' = "failed"
    BY <1>3, <1>5, <1>10, Early
<1> QED
    BY <1>4, <1>8, <1>9, <1>10

LEMMA ReadRowsKeeps ==
    ASSUME AnswerInv, ReadRows
    PROVE  AnswerInv'
<1>1. /\ UNCHANGED <<store, call, todo, leg, ranked, top, hits>>
      /\ pc = "rows" /\ pc' = "documents"
      /\ fetched' = ToSet(top) \cap Rows(doc)
    BY DEF ReadRows
<1>2. StoreInv' /\ LegInv'
    BY <1>1, StoreKept, LegsKept DEF AnswerInv
<1>3. ModeInv'
    BY <1>1 DEF AnswerInv, ModeInv, Own
<1>4. RankInv'
    BY <1>1, RankingKept DEF AnswerInv, RankInv
<1>5. WindowInv' /\ HitsInv'
    BY <1>1 DEF WindowInv, HitsInv
<1>6. TopInv'
    <2>1. writes' = writes /\ Cut(ranked)' = Cut(ranked)
        BY <1>1 DEF store, Cut
    <2> QED
        BY <1>1, <2>1 DEF AnswerInv, TopInv
<1>7. HeldInv'
    <2>1. ToSet(top) \subseteq Keys(leg)
        <3>1. top \in Seq(Keys(leg))
            BY <1>1 DEF AnswerInv, TopInv
        <3> QED
            BY <3>1, LenProperties DEF ToSet
    <2>2. writes = 0 => ToSet(top) \subseteq Rows(doc)
        BY <2>1 DEF AnswerInv, LegInv
    <2>3. writes' = writes
        BY <1>1 DEF store
    <2> QED
        BY <1>1, <2>2, <2>3 DEF HeldInv
<1> QED
    BY <1>2, <1>3, <1>4, <1>5, <1>6, <1>7 DEF AnswerInv

(* What is held of the answer, as a sequence.                              *)
LEMMA HeldIs ==
    ASSUME NEW S, top \in Seq(S)
    PROVE  \E p \in [1 .. Cardinality(Held) -> Held] :
              /\ Held \subseteq 1 .. Len(top) /\ Cardinality(Held) \in 0 .. Len(top)
              /\ Selected(top, Held) = [k \in 1 .. Cardinality(Held) |-> top[p[k]]]
              /\ \A k, m \in 1 .. Cardinality(Held) : k < m => p[k] < p[m]
              /\ Held = 1 .. Len(top) => Cardinality(Held) = Len(top)
<1> DEFINE n == Len(top)
<1>1. n \in Nat /\ DOMAIN top = 1 .. n
    BY LenProperties
<1> HIDE DEF n
<1>2. IsFiniteSet(1 .. n) /\ Cardinality(1 .. n) = n
    BY <1>1, FS_Interval
<1>3. Held \in SUBSET (1 .. n) /\ Held \in SUBSET Nat
    BY <1>1 DEF Held
<1>4. IsFiniteSet(Held) /\ Cardinality(Held) <= n
    BY <1>2, <1>3, FS_Subset
<1>5. Cardinality(Held) \in Nat
    BY <1>4, FS_CardinalityType
<1>6. PICK p \in [1 .. Cardinality(Held) -> Held] :
         /\ Selected(top, Held) = [k \in 1 .. Cardinality(Held) |-> top[p[k]]]
         /\ \A k, m \in 1 .. Cardinality(Held) : k < m => p[k] < p[m]
         /\ ToSet(p) = Held
    BY <1>3, <1>4, SelectedIs
<1> QED
    BY <1>1, <1>2, <1>3, <1>4, <1>5, <1>6 DEF n

LEMMA AnswerKeeps ==
    ASSUME AnswerInv, Answer
    PROVE  AnswerInv'
<1> DEFINE held == Selected(top, Held)
           m == Cardinality(Held)
<1>1. /\ UNCHANGED <<store, call, todo, leg, ranked, top, fetched>>
      /\ pc = "documents" /\ pc' = "done"
      /\ hits' = [i \in DOMAIN held |->
                    [chunk |-> held[i], path |-> row[Owner(leg, held[i])] # None]]
    BY DEF Answer, Held
<1>2. StoreInv' /\ LegInv'
    BY <1>1, StoreKept, LegsKept DEF AnswerInv
<1>3. ModeInv'
    BY <1>1 DEF AnswerInv, ModeInv, Own
<1>4. RankInv'
    BY <1>1, RankingKept DEF AnswerInv, RankInv
<1>5. WindowInv'
    BY <1>1 DEF WindowInv
<1>6. writes' = writes /\ Cut(ranked)' = Cut(ranked) /\ Held' = Held
    BY <1>1 DEF store, Cut, Held
<1>7. TopInv' /\ HeldInv'
    BY <1>1, <1>6 DEF AnswerInv, TopInv, HeldInv
<1>8. top \in Seq(Keys(leg))
    BY <1>1 DEF AnswerInv, TopInv
<1>9. DOMAIN held = 1 .. m /\ m \in Nat /\ \A i \in 1 .. m : held[i] \in Keys(leg)
    <2>1. PICK p \in [1 .. m -> Held] :
             /\ Held \subseteq 1 .. Len(top) /\ m \in 0 .. Len(top)
             /\ held = [k \in 1 .. m |-> top[p[k]]]
        BY <1>8, HeldIs
    <2>2. \A i \in 1 .. Len(top) : top[i] \in Keys(leg)
        BY <1>8, ElementOfSeq
    <2>3. Len(top) \in Nat
        BY <1>8, LenProperties
    <2> HIDE DEF m, held
    <2>4. m \in Nat /\ DOMAIN held = 1 .. m
        BY <2>1, <2>3
    <2>5. \A i \in 1 .. m : held[i] = top[p[i]] /\ p[i] \in 1 .. Len(top)
        BY <2>1
    <2> QED
        BY <2>2, <2>4, <2>5
<1>10. Selected(top, Held)' = held
    BY <1>1, <1>6
<1> HIDE DEF m, held
<1>11. /\ DOMAIN hits' = 1 .. m
       /\ \A i \in 1 .. m : /\ hits'[i] \in [chunk : Keys(leg), path : BOOLEAN]
                            /\ hits'[i].chunk = held[i]
    BY <1>1, <1>9
<1>12. hits' \in Seq([chunk : Keys(leg), path : BOOLEAN])
    <2>1. hits' \in [1 .. m -> [chunk : Keys(leg), path : BOOLEAN]]
        BY <1>1, <1>9, <1>11
    <2>2. m \in Nat
        BY <1>9
    <2> DEFINE R == [chunk : Keys(leg), path : BOOLEAN]
    <2> HIDE DEF R
    <2>3. hits' \in [1 .. m -> R]
        BY <2>1 DEF R
    <2>4. hits' \in Seq(R)
        BY <2>2, <2>3, SeqDef
    <2> QED
        BY <2>4 DEF R
<1>13. HitsInv'
    BY <1>1, <1>9, <1>10, <1>11, <1>12 DEF HitsInv
<1> QED
    BY <1>2, <1>3, <1>4, <1>5, <1>7, <1>13 DEF AnswerInv

LEMMA AnswerNext ==
    ASSUME AnswerInv, [Next]_vars
    PROVE  AnswerInv'
<1>1. CASE Write
    BY <1>1, WriteKeeps
<1>2. CASE Embed("text", "vector", "image")
    BY <1>2, EmbedKeeps
<1>3. CASE Embed("image", "asset", "legs")
    BY <1>3, EmbedKeeps
<1>4. ASSUME NEW l \in ToSet(Legs), RunLeg(l) PROVE AnswerInv'
    BY <1>4, RunLegKeeps
<1>5. CASE Promote
    BY <1>5, PromoteKeeps
<1>6. CASE KeepRows
    BY <1>6, KeepRowsKeeps
<1>7. CASE Fuse
    BY <1>7, FuseKeeps
<1>8. CASE ReadWindow
    BY <1>8, ReadWindowKeeps
<1>9. CASE Rerank
    BY <1>9, RerankKeeps
<1>10. CASE ReadRows
    BY <1>10, ReadRowsKeeps
<1>11. CASE Answer
    BY <1>11, AnswerKeeps
<1>12. CASE UNCHANGED vars
    BY <1>12 DEF AnswerInv, StoreInv, LegInv, ModeInv, Own, RankInv, WindowInv, TopInv,
                 HeldInv, Held, HitsInv, vars, store, Active, Rows, Ranking, Plain, Window, Cut
<1> QED
    BY <1>1, <1>2, <1>3, <1>4, <1>5, <1>6, <1>7, <1>8, <1>9, <1>10, <1>11, <1>12
    DEF Next, Search

(* What is between the steps of every search.                              *)
THEOREM AnswerInductive == Spec => []AnswerInv
<1>1. Init => AnswerInv
    BY AnswerInit
<1>2. AnswerInv /\ [Next]_vars => AnswerInv'
    BY AnswerNext
<1> QED
    BY <1>1, <1>2, PTL DEF Spec

(* The answer, as the part of the top whose rows are held.                 *)
LEMMA AnswerIs ==
    ASSUME AnswerInv, pc = "done"
    PROVE  \E p \in [1 .. Len(hits) -> Held] :
              /\ Held \subseteq 1 .. Len(top) /\ Len(hits) \in 0 .. Len(top)
              /\ DOMAIN hits = 1 .. Len(hits)
              /\ \A k \in 1 .. Len(hits) : hits[k].chunk = top[p[k]]
              /\ \A k, m \in 1 .. Len(hits) : k < m => p[k] < p[m]
              /\ Held = 1 .. Len(top) => Len(hits) = Len(top)
<1>1. /\ top \in Seq(Keys(leg))
      /\ hits \in Seq([chunk : Keys(leg), path : BOOLEAN])
      /\ DOMAIN hits = DOMAIN Selected(top, Held)
      /\ \A i \in DOMAIN hits : hits[i].chunk = Selected(top, Held)[i]
    BY DEF AnswerInv, TopInv, HitsInv
<1> DEFINE m == Cardinality(Held)
<1>2. PICK p \in [1 .. m -> Held] :
         /\ Held \subseteq 1 .. Len(top) /\ m \in 0 .. Len(top)
         /\ Selected(top, Held) = [k \in 1 .. m |-> top[p[k]]]
         /\ \A k, x \in 1 .. m : k < x => p[k] < p[x]
         /\ Held = 1 .. Len(top) => m = Len(top)
    BY <1>1, HeldIs
<1>3. Len(top) \in Nat /\ DOMAIN hits = 1 .. Len(hits) /\ Len(hits) \in Nat
    BY <1>1, LenProperties
<1> HIDE DEF m
<1>4. DOMAIN hits = 1 .. m /\ m \in Nat
    BY <1>1, <1>2, <1>3
<1>5. Len(hits) = m
    <2> DEFINE k == Len(hits)
    <2>1. k \in Nat /\ 1 .. k = 1 .. m
        BY <1>3, <1>4
    <2> HIDE DEF k
    <2>2. k = m
        BY <1>4, <2>1
    <2> QED
        BY <2>2 DEF k
<1>6. \A k \in 1 .. m : hits[k].chunk = top[p[k]]
    BY <1>1, <1>2, <1>4
<1> QED
    BY <1>2, <1>3, <1>5, <1>6

(* Hidden documents stay hidden.                                           *)
THEOREM HiddenHeld == Spec => []HiddenStaysHidden
<1>1. ASSUME AnswerInv PROVE HiddenStaysHidden
    <2> SUFFICES ASSUME pc = "done" PROVE Shown \subseteq shown \cup Found(leg["asset"])
        BY DEF HiddenStaysHidden
    <2>1. Shown \subseteq Keys(leg)
        <3>1. hits \in Seq([chunk : Keys(leg), path : BOOLEAN])
            BY <1>1 DEF AnswerInv, HitsInv
        <3>2. \A i \in DOMAIN hits : hits[i] \in [chunk : Keys(leg), path : BOOLEAN]
            BY <3>1, LenProperties, ElementOfSeq
        <3> QED
            BY <3>2 DEF Shown
    <2>2. Keys(leg) \subseteq shown \cup Found(leg["asset"])
        <3>1. /\ DOMAIN leg = ToSet(Legs)
              /\ \A l \in ToSet(Legs) \ {"asset"} : Found(leg[l]) \subseteq shown
            BY <1>1 DEF AnswerInv, LegInv, LegsOK
        <3> QED
            BY <3>1 DEF Keys
    <2> QED
        BY <2>1, <2>2
<1> QED
    BY <1>1, AnswerInductive, PTL

(* Nothing found is lost on the way to the answer.                         *)
THEOREM NothingDropped == Spec => []Complete
<1>1. ASSUME AnswerInv PROVE Complete
    <2> SUFFICES ASSUME pc = "done"
                 PROVE  /\ Len(hits) <= call.limit /\ Cardinality(Shown) = Len(hits)
                        /\ writes = 0 => Len(hits) = Min({call.limit, Cardinality(Keys(leg))})
        BY DEF Complete
    <2>1. /\ top \in Seq(Keys(leg)) /\ Len(top) <= call.limit /\ call.limit \in Nat
          /\ \A i, j \in DOMAIN top : top[i] = top[j] => i = j
          /\ writes = 0 => Len(top) = Min({call.limit, Cardinality(Keys(leg))})
          /\ writes = 0 => ToSet(top) \subseteq fetched
        BY <1>1, RetrieveAssumption DEF AnswerInv, StoreInv, TopInv, HeldInv
    <2>2. Len(top) \in Nat /\ DOMAIN top = 1 .. Len(top)
        BY <2>1, LenProperties
    <2> DEFINE n == Len(hits)
    <2>3. PICK p \in [1 .. n -> Held] :
              /\ Held \subseteq 1 .. Len(top) /\ n \in 0 .. Len(top)
              /\ DOMAIN hits = 1 .. n
              /\ \A k \in 1 .. n : hits[k].chunk = top[p[k]]
              /\ \A k, m \in 1 .. n : k < m => p[k] < p[m]
              /\ Held = 1 .. Len(top) => n = Len(top)
        BY <1>1, AnswerIs
    <2> HIDE DEF n
    <2>4. n \in Nat /\ n <= call.limit
        <3> DEFINE t == Len(top)
                   lim == call.limit
        <3>1. n \in 0 .. t /\ t \in Nat /\ t <= lim /\ lim \in Nat
            BY <2>1, <2>2, <2>3
        <3> HIDE DEF t, lim
        <3>2. n \in Nat /\ n <= lim
            BY <3>1
        <3> QED
            BY <3>2 DEF lim
    <2>5. Cardinality(Shown) = n
        <3> DEFINE s == [k \in 1 .. n |-> hits[k].chunk]
        <3>1. \A i, j \in 1 .. n : s[i] = s[j] => i = j
            <4> SUFFICES ASSUME NEW i \in 1 .. n, NEW j \in 1 .. n, i < j, s[i] = s[j]
                         PROVE  FALSE
                BY <2>4
            <4>1. p[i] \in 1 .. Len(top) /\ p[j] \in 1 .. Len(top) /\ p[i] < p[j]
                BY <2>3
            <4>2. top[p[i]] = top[p[j]]
                BY <2>3
            <4>3. p[i] = p[j]
                BY <2>1, <2>2, <4>1, <4>2
            <4> QED
                BY <2>2, <4>1, <4>3
        <3>2. ToSet(s) = Shown
            BY <2>3 DEF ToSet, Shown
        <3>3. DOMAIN s = 1 .. n
            OBVIOUS
        <3> HIDE DEF s
        <3>4. Cardinality(ToSet(s)) = n
            BY <2>4, <3>1, <3>3, Listed
        <3> QED
            BY <3>2, <3>4
    <2>6. ASSUME writes = 0 PROVE n = Min({call.limit, Cardinality(Keys(leg))})
        <3>1. Held = 1 .. Len(top)
            BY <2>1, <2>2, <2>6 DEF Held, ToSet
        <3> QED
            BY <2>1, <2>3, <2>6, <3>1
    <2> QED
        BY <2>4, <2>5, <2>6 DEF n
<1> QED
    BY <1>1, AnswerInductive, PTL

(* The penalty never demotes the best chunk of a document.                 *)
THEOREM BestKept == Spec => []BestNeverDemoted
<1>1. ASSUME AnswerInv PROVE BestNeverDemoted
    <2> SUFFICES ASSUME pc \in {"window", "rows"}
                 PROVE  \A i \in DOMAIN Plain(leg) :
                           (\A j \in 1 .. i - 1 : Owner(leg, Plain(leg)[j]) # Owner(leg, Plain(leg)[i]))
                           => \E j \in 1 .. i : ranked[j] = Plain(leg)[i]
        BY DEF BestNeverDemoted
    <2>1. LegsOK(leg) /\ call \in Config /\ ranked = Ranking(leg)
        BY <1>1 DEF AnswerInv, LegInv, StoreInv, RankInv
    <2> QED
        BY <2>1, RankingIs
<1> QED
    BY <1>1, AnswerInductive, PTL

(* The single-leg modes are ablations.                                     *)
THEOREM Ablations == Spec => []AblationPure
<1>1. ASSUME AnswerInv PROVE AblationPure
    <2> DEFINE own == IF call.mode = "bm25" THEN {"bm25"} ELSE {"vector", "asset"}
    <2> SUFFICES ASSUME pc = "done", call.mode # "hybrid"
                 PROVE  /\ Shown \subseteq UNION { Found(leg[l]) : l \in own }
                        /\ call.mode = "bm25" /\ call.alpha = 0 =>
                             \A i, j \in DOMAIN hits :
                               i < j => Place(leg["bm25"], hits[i].chunk)
                                        < Place(leg["bm25"], hits[j].chunk)
        BY DEF AblationPure
    <2>1. /\ LegsOK(leg) /\ call \in Config /\ ranked = Ranking(leg)
          /\ top = Cut(ranked)
          /\ hits \in Seq([chunk : Keys(leg), path : BOOLEAN])
          /\ \A l \in ToSet(Legs) \ Own : leg[l] = <<>>
        BY <1>1 DEF AnswerInv, LegInv, StoreInv, RankInv, TopInv, HitsInv, ModeInv
    <2>2. call.mode \in {"bm25", "vector"}
        BY <2>1, RetrieveAssumption
    <2>3. own = Own
        BY <2>2 DEF Own
    <2>4. Shown \subseteq Keys(leg)
        <3>1. hits \in Seq([chunk : Keys(leg), path : BOOLEAN])
            BY <2>1
        <3>2. \A i \in DOMAIN hits : hits[i] \in [chunk : Keys(leg), path : BOOLEAN]
            BY <3>1, LenProperties, ElementOfSeq
        <3> QED
            BY <3>2 DEF Shown
    <2>5. Keys(leg) \subseteq UNION { Found(leg[l]) : l \in own }
        BY <2>1, <2>3, EmptyLeg DEF Keys, LegsOK
    <2>6. ASSUME call.mode = "bm25", call.alpha = 0,
                 NEW i \in DOMAIN hits, NEW j \in DOMAIN hits, i < j
          PROVE  Place(leg["bm25"], hits[i].chunk) < Place(leg["bm25"], hits[j].chunk)
        <3>1. Lone(leg, "bm25")
            BY <2>1, <2>6, LegNames DEF Own, Lone
        <3>2. \A x, y \in DOMAIN ranked :
                 x < y => Place(leg["bm25"], ranked[x]) < Place(leg["bm25"], ranked[y])
            BY <2>1, <2>6, <3>1, RankingLone
        <3> DEFINE n == Cardinality(Keys(leg))
        <3>3. /\ n \in Nat /\ DOMAIN ranked = 1 .. n /\ ranked \in [1 .. n -> Keys(leg)]
              /\ \A x, y \in 1 .. n : ranked[x] = ranked[y] => x = y
            BY <2>1, RankingIs
        <3> HIDE DEF n
        <3>4. DOMAIN top \subseteq 1 .. n /\ \A x \in DOMAIN top : top[x] = ranked[x]
            <4>1. /\ DOMAIN Cut(ranked) \subseteq 1 .. n
                  /\ \A x \in DOMAIN Cut(ranked) : Cut(ranked)[x] = ranked[x]
                <5>1. call \in Config
                    BY <2>1
                <5> QED
                    BY <3>3, <5>1, CutIs
            <4> QED
                BY <2>1, <4>1
        <3>5. DOMAIN top = 1 .. Len(top)
            <4>1. top \in Seq(Keys(leg))
                BY <1>1 DEF AnswerInv, TopInv
            <4> QED
                BY <4>1, LenProperties
        <3>6. PICK p \in [1 .. Len(hits) -> Held] :
                  /\ Held \subseteq 1 .. Len(top)
                  /\ DOMAIN hits = 1 .. Len(hits)
                  /\ \A k \in 1 .. Len(hits) : hits[k].chunk = top[p[k]]
                  /\ \A k, m \in 1 .. Len(hits) : k < m => p[k] < p[m]
            BY <1>1, AnswerIs
        <3>7. /\ p[i] \in DOMAIN top /\ p[j] \in DOMAIN top /\ p[i] < p[j]
              /\ hits[i].chunk = top[p[i]] /\ hits[j].chunk = top[p[j]]
            BY <2>6, <3>5, <3>6
        <3> QED
            BY <3>2, <3>3, <3>4, <3>7
    <2> QED
        BY <2>4, <2>5, <2>6
<1> QED
    BY <1>1, AnswerInductive, PTL

-----------------------------------------------------------------------------
(* Links.                                                                  *)

-----------------------------------------------------------------------------
(* Only answers the member of a singleton, and nothing else.               *)
LEMMA OnlyOne ==
  ASSUME NEW S \in SUBSET Path
  PROVE  /\ Only(S) # Nil => S = {Only(S)}
         /\ \A p \in Path : S = {p} => Only(S) = p
<1>1. ASSUME NEW p \in Path, S = {p}
      PROVE  Only(S) = p
  BY <1>1 DEF Only
<1>2. ASSUME Only(S) # Nil
      PROVE  S = {Only(S)}
  <2>1. PICK p \in S : S = {p}
    BY <1>2 DEF Only
  <2> QED
    BY <2>1, <1>1
<1> QED
  BY <1>1, <1>2

(* A key that is looked up is a key of the index.                          *)
LEMMA LookupKeys ==
  ASSUME NEW t \in Title
  PROVE  /\ NormalizeBase(t) \in Key \cup {Nil}
         /\ NormalizeForMatch(t) \in Key \cup {Nil}
<1>1. NormalizeBase(t) \in Key \cup {Nil}
  BY DEF NormalizeBase, Title, Key
<1>2. ASSUME NEW k \in Key
      PROVE  StemPlural(k) \in Key
  BY DEF StemPlural, Key
<1> QED
  BY <1>1, <1>2 DEF NormalizeForMatch

(* The pages that bear a title lie under its key.                          *)
LEMMA BearersUnder ==
  ASSUME NEW S \in SUBSET Path, NEW t \in Title
  PROVE  Bearing(S, t) \subseteq Under(S, NormalizeBase(t))
BY WikilinkAssumption DEF Bearing, Under

(* Pages and documents are paths.                                          *)
LEMMA Universes ==
  /\ Vault \in SUBSET Path /\ Source \in SUBSET Path
  /\ Vault \ Wisdom \in SUBSET Path /\ Vault \cup Source = Path
BY WikilinkAssumption DEF Vault

(* What only the pages bear and what only the sources bear.                *)
LEMMA Split ==
  ASSUME NEW t, NEW k
  PROVE  /\ Bearing(Path, t) = Bearing(Vault, t) \cup Bearing(Source, t)
         /\ Under(Path, k) = Under(Vault, k) \cup Under(Source, k)
         /\ Bearing(Vault, t) \cap Source = {} /\ Under(Vault, k) \cap Source = {}
BY WikilinkAssumption DEF Bearing, Under, Vault

(* A link that does not slip and has one page under the key of its lookup  *)
(* is borne by that page or by none.                                       *)
LEMMA SoleBearer ==
  ASSUME NEW link \in Title, ~Slips(link), Only(Bearing(Vault, link)) = Nil,
         NEW p \in Path, Under(Vault, NormalizeForMatch(link)) = {p}
  PROVE  Bearing(Vault, link) = {}
<1>1. SUFFICES ASSUME NEW a \in Bearing(Vault, link)
               PROVE  FALSE
  OBVIOUS
<1>2. a \in Path /\ a # Nil
  BY Universes, WikilinkAssumption DEF Bearing
<1>3. Bearing(Vault, link) # {a}
  <2>1. Bearing(Vault, link) \in SUBSET Path
    BY Universes DEF Bearing
  <2> QED
    BY <1>2, <2>1, OnlyOne
<1>4. Collides(link)
  BY <1>3 DEF Collides
<1>5. NormalizeForMatch(link) = NormalizeBase(link)
  BY <1>4 DEF Slips
<1>6. Bearing(Vault, link) \subseteq {p}
  BY <1>5, BearersUnder, Universes
<1> QED
  BY <1>3, <1>6

(* The first page listed is one of the pages.                              *)
LEMMA FirstIsListed ==
  ASSUME NEW S \in SUBSET Path, S # {}
  PROVE  FirstListed(S) \in S
<1> DEFINE P(p) == (\E q \in S : q \notin Wisdom) => p \notin Wisdom
<1>1. \E p \in S : P(p)
  OBVIOUS
<1> QED
  BY <1>1 DEF FirstListed

-----------------------------------------------------------------------------
(* What the careful index answers.                                         *)
LEMMA ResolvesTo ==
  ASSUME NEW link \in Title, Resolve(link, Titles) # Nil
  PROVE  \/ Bearing(Vault, link) = {Resolve(link, Titles)}
         \/ /\ Only(Bearing(Vault, link)) = Nil
            /\ NormalizeForMatch(link) \in Key
            /\ Under(Vault, NormalizeForMatch(link)) = {Resolve(link, Titles)}
<1> DEFINE p == Resolve(link, Titles)
           k == NormalizeForMatch(link)
<1>1. Titles.exact[link] = Only(Bearing(Vault, link))
  BY DEF Titles
<1>2. CASE Only(Bearing(Vault, link)) # Nil
  <2>1. p = Only(Bearing(Vault, link))
    BY <1>1, <1>2 DEF Resolve
  <2> QED
    BY <2>1, <1>2, OnlyOne, Universes DEF Bearing
<1>3. CASE Only(Bearing(Vault, link)) = Nil
  <2>1. k # Nil /\ p = Only(Titles.fuzzy[k])
    BY <1>1, <1>3 DEF Resolve
  <2>2. k \in Key
    BY <2>1, LookupKeys
  <2>3. Titles.fuzzy[k] = Under(Vault, k)
    BY <2>2 DEF Titles
  <2>4. Under(Vault, k) = {p}
    BY <2>1, <2>3, OnlyOne, Universes DEF Under
  <2> QED
    BY <1>3, <2>2, <2>4
<1> QED
  BY <1>2, <1>3

LEMMA Singles ==
  ASSUME NEW link \in Title, Resolve(link, Titles) # Nil
  PROVE  Resolve(link, Titles) \in Vault
BY ResolvesTo DEF Bearing, Under

(* No wrong merge.                                                         *)
LEMMA Merge == NoWrongMerge
<1> SUFFICES ASSUME NEW link \in Title, Resolve(link, Titles) # Nil, ~Slips(link)
             PROVE  \/ Bearing(Vault, link) = {Resolve(link, Titles)}
                    \/ /\ Bearing(Vault, link) = {}
                       /\ Under(Vault, NormalizeForMatch(link)) = {Resolve(link, Titles)}
  BY DEF NoWrongMerge
<1> QED
  BY ResolvesTo, Singles, SoleBearer, Universes

(* A page the graph view names is the page the careful index names.        *)
LEMMA NodeIsPage ==
  ASSUME NEW link \in Title, GraphResolve(link) \in Vault
  PROVE  GraphResolve(link) = Resolve(link, Titles)
<1> DEFINE k == NormalizeForMatch(link)
           n == GraphResolve(link)
<1>1. n \in Path /\ n # Nil /\ n \notin Source
  BY Universes, WikilinkAssumption DEF Vault
<1>2. Titles.exact[link] = Only(Bearing(Vault, link))
  BY DEF Titles
<1>3. CASE Bearing(Path, link) # {}
  <2>1. n = Only(Bearing(Path, link))
    BY <1>3 DEF GraphResolve
  <2>2. Bearing(Path, link) = {n}
    BY <1>1, <2>1, OnlyOne DEF Bearing
  <2>3. Bearing(Vault, link) = {n}
    BY <1>1, <2>2, Split DEF Bearing
  <2>4. Only(Bearing(Vault, link)) = n
    BY <1>1, <2>3, OnlyOne
  <2> QED
    BY <1>1, <1>2, <2>4 DEF Resolve
<1>4. CASE Bearing(Path, link) = {}
  <2>1. k # Nil /\ n = Only(Under(Path, k))
    BY <1>1, <1>4 DEF GraphResolve
  <2>2. Under(Path, k) = {n}
    BY <1>1, <2>1, OnlyOne DEF Under
  <2>3. Under(Vault, k) = {n} /\ Bearing(Vault, link) = {}
    BY <1>1, <1>4, <2>2, Split DEF Under
  <2>4. Titles.fuzzy[k] = Under(Vault, k)
    BY <2>1, LookupKeys DEF Titles
  <2>5. Only({}) = Nil
    BY DEF Only
  <2>6. Only({n}) = n
    BY <1>1, OnlyOne
  <2> QED
    BY <1>2, <2>1, <2>3, <2>4, <2>5, <2>6 DEF Resolve
<1> QED
  BY <1>3, <1>4

(* The graph view names the page of a link that resolves unless a source   *)
(* document shadows it.                                                    *)
LEMMA PageIsNode ==
  ASSUME NEW link \in Title, Resolve(link, Titles) # Nil, ~Slips(link),
         ~Shadowed(link)
  PROVE  GraphResolve(link) = Resolve(link, Titles)
<1> DEFINE k == NormalizeForMatch(link)
           p == Resolve(link, Titles)
<1>1. p \in Path /\ Only({p}) = p
  BY Singles, Universes, OnlyOne
<1>2. Bearing(Path, link) = Bearing(Vault, link)
  BY Split DEF Shadowed
<1>3. CASE Bearing(Vault, link) = {p}
  BY <1>1, <1>2, <1>3 DEF GraphResolve
<1>4. CASE Bearing(Vault, link) = {} /\ Under(Vault, k) = {p} /\ k \in Key
  <2>1. k # Nil
    BY <1>4, WikilinkAssumption
  <2>2. Under(Path, k) = {p}
    BY <1>4, <2>1, Split DEF Shadowed
  <2> QED
    BY <1>1, <1>2, <1>4, <2>1, <2>2 DEF GraphResolve
<1> QED
  BY <1>1, <1>3, <1>4, ResolvesTo, SoleBearer

(* A shadowed link is another node's, or nobody's.                         *)
LEMMA ShadowIsOther ==
  ASSUME NEW link \in Title, Resolve(link, Titles) # Nil, Shadowed(link)
  PROVE  GraphResolve(link) # Resolve(link, Titles)
<1> DEFINE k == NormalizeForMatch(link)
           p == Resolve(link, Titles)
<1>1. p \in Path /\ p \notin Source
  BY Singles, Universes DEF Vault
<1>2. SUFFICES ASSUME GraphResolve(link) = p
               PROVE  FALSE
  OBVIOUS
<1>3. CASE Bearing(Source, link) # {}
  <2>1. PICK a \in Bearing(Source, link) : TRUE
    BY <1>3
  <2>2. a \in Bearing(Path, link) /\ a \in Source
    BY <2>1, Split DEF Bearing
  <2>3. p = Only(Bearing(Path, link))
    BY <1>2, <2>2 DEF GraphResolve
  <2>4. Bearing(Path, link) = {p}
    BY <2>3, OnlyOne DEF Bearing
  <2> QED
    BY <1>1, <2>2, <2>4
<1>4. CASE /\ Bearing(Source, link) = {} /\ Bearing(Vault, link) = {}
           /\ k # Nil /\ Under(Source, k) # {}
  <2>1. Bearing(Path, link) = {}
    BY <1>4, Split
  <2>2. p = Only(Under(Path, k))
    BY <1>2, <1>4, <2>1 DEF GraphResolve
  <2>3. Under(Path, k) = {p}
    BY <2>2, OnlyOne DEF Under
  <2> QED
    BY <1>1, <1>4, <2>3, Split DEF Under
<1> QED
  BY <1>3, <1>4 DEF Shadowed

LEMMA Graph == GraphAgrees
BY NodeIsPage, PageIsNode, ShadowIsOther DEF GraphAgrees

-----------------------------------------------------------------------------
(* The pages a first-wins index keeps under a key are pages under it.      *)
LEMMA FirstUnder ==
  ASSUME LinkTypeOK, NEW S \in SUBSET Path, NEW k \in Key,
         NEW p \in Path, Under(S, k) = {p}
  PROVE  FirstWins(S).fuzzy[k] = {p}
<1> DEFINE exact == [t \in Title |-> IF Bearing(S, t) = {} THEN Nil
                                     ELSE FirstListed(Bearing(S, t))]
           T == { u \in Title : exact[u] # Nil /\ NormalizeBase(u) = k }
<1>1. FirstWins(S).fuzzy[k] = { exact[t] : t \in T }
  BY DEF FirstWins, FuzzyIndex
<1>2. ASSUME NEW t \in Title, Bearing(S, t) # {}
      PROVE  exact[t] \in Bearing(S, t)
  BY <1>2, FirstIsListed DEF Bearing
<1>3. ASSUME NEW t \in T
      PROVE  exact[t] = p
  <2>1. Bearing(S, t) # {}
    OBVIOUS
  <2> QED
    BY <2>1, <1>2, BearersUnder
<1>4. title[p] \in T
  <2>1. title[p] \in Title /\ NormalizeBase(title[p]) = k
    BY DEF Under, LinkTypeOK
  <2>2. p \in Bearing(S, title[p])
    BY DEF Bearing, Under
  <2>3. exact[title[p]] \in Path
    BY <2>1, <2>2, <1>2 DEF Bearing
  <2> QED
    BY <2>1, <2>3, WikilinkAssumption
<1> HIDE DEF T, exact
<1> QED
  BY <1>1, <1>3, <1>4

(* A first-wins map over some of the pages, among them the page a link     *)
(* resolves to, resolves it alike.                                         *)
LEMMA FirstAgrees ==
  ASSUME LinkTypeOK, NEW link \in Title, Resolve(link, Titles) # Nil,
         ~Slips(link), NEW S \in SUBSET Vault, Resolve(link, Titles) \in S
  PROVE  Resolve(link, FirstWins(S)) = Resolve(link, Titles)
<1> DEFINE p == Resolve(link, Titles)
           k == NormalizeForMatch(link)
<1>1. p \in Path /\ p # Nil /\ S \in SUBSET Path
  BY Universes, WikilinkAssumption
<1>2. FirstWins(S).exact[link] = IF Bearing(S, link) = {} THEN Nil
                                 ELSE FirstListed(Bearing(S, link))
  BY DEF FirstWins
<1>3. CASE Bearing(Vault, link) = {p}
  <2>1. Bearing(S, link) = {p}
    BY <1>3 DEF Bearing
  <2>2. FirstWins(S).exact[link] = p
    BY <1>1, <1>2, <2>1, FirstIsListed
  <2> QED
    BY <2>2, <1>1 DEF Resolve
<1>4. CASE Bearing(Vault, link) = {} /\ Under(Vault, k) = {p} /\ k \in Key
  <2>1. Bearing(S, link) = {} /\ Under(S, k) = {p}
    BY <1>4 DEF Bearing, Under
  <2>2. FirstWins(S).exact[link] = Nil /\ FirstWins(S).fuzzy[k] = {p}
    BY <1>1, <1>2, <1>4, <2>1, FirstUnder
  <2>3. Only({p}) = p
    BY <1>1, OnlyOne
  <2> QED
    BY <2>2, <2>3, <1>4, WikilinkAssumption DEF Resolve
<1> QED
  BY <1>1, <1>3, <1>4, ResolvesTo, SoleBearer

(* A batch names the page the careful index names.                         *)
LEMMA Batch ==
  ASSUME LinkTypeOK
  PROVE  BatchNeverRetargets
<1> SUFFICES ASSUME NEW link \in Title, Resolve(link, Titles) # Nil, ~Slips(link)
             PROVE  /\ Resolve(link, ApplyMap) = Resolve(link, Titles)
                    /\ Resolve(link, Titles) \notin Wisdom =>
                         Resolve(link, SynthMap) = Resolve(link, Titles)
  BY DEF BatchNeverRetargets
<1>1. Resolve(link, Titles) \in Vault
  BY Singles
<1>2. Resolve(link, ApplyMap) = Resolve(link, Titles)
  BY <1>1, FirstAgrees DEF ApplyMap
<1>3. ASSUME Resolve(link, Titles) \notin Wisdom
      PROVE  Resolve(link, SynthMap) = Resolve(link, Titles)
  BY <1>1, <1>3, FirstAgrees DEF SynthMap
<1> QED
  BY <1>2, <1>3

-----------------------------------------------------------------------------
(* The titles of rows are titles (schema.sql documents; page_index.py).    *)
THEOREM LinksTyped == LinkSpec => []LinkTypeOK
<1>1. LinkInit => LinkTypeOK
  BY DEF LinkInit, LinkTypeOK
<1>2. LinkTypeOK /\ [LinkNext]_title => LinkTypeOK'
  BY DEF LinkTypeOK, LinkNext, Persist, RemovePage
<1> QED
  BY <1>1, <1>2, PTL DEF LinkSpec

(* A link that resolves names the one page that bears it, or, if none      *)
(* does, the one page under its key, whatever pages there are; only a      *)
(* stemmed link that two pages bear is excepted (links.py,                 *)
(* build_title_indexes and resolve_links).                                 *)
THEOREM NeverWronglyMerged == LinkSpec => []NoWrongMerge
BY Merge, PTL

(* A page the graph view names is the page of the stored edge, and it      *)
(* names that page exactly when no source document shadows the link        *)
(* (api_graph.py over all layers against links.py over the pages).         *)
THEOREM ViewsAgree == LinkSpec => []GraphAgrees
BY Graph, PTL

(* A page that lint apply or synth persists keeps the edges it has when it *)
(* is persisted alone, those to wisdom pages excepted in synth             *)
(* (lint_fix.py's and api_synth.py's maps against page_index.py's).        *)
THEOREM BatchAgrees == LinkSpec => []BatchNeverRetargets
BY LinksTyped, Batch, PTL
=============================================================================

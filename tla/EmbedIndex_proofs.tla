--------------------------- MODULE EmbedIndex_proofs ---------------------------
(***************************************************************************)
(* What TLAPS proves of the vectors of a base, for any files, pages,       *)
(* identities and contents, any batch size and any bounds: a live chunk's  *)
(* vector is its own (VectorsMatch), an ingest that ends well leaves no    *)
(* chunk without one (NothingMissed), and none is paid for again without a *)
(* mishap (PaidOnce).                                                      *)
(***************************************************************************)
EXTENDS EmbedIndex, FiniteSetTheorems, SequenceTheorems, TLAPS

ChunkOf(n) == [id : 1..n, text : Text]

-----------------------------------------------------------------------------
(* The inductive invariant.                                                *)

(* Types, and what of a task is set at which of its awaits.                *)
TypeInv ==
    /\ TypeOK
    /\ lastId \in Nat /\ todo \subseteq File
    /\ queue \in Seq(ChunkOf(lastId))
    /\ held \subseteq [text : Text, by : Identity]
    /\ at \notin {"provider", "store", "upsert"} => held = {}
    /\ op \in Inline => page \in Page
    /\ at = "idle" <=> op = "none"
    /\ at \in {"register", "scan"} => op = "ingest"
    /\ at \in {"resolve", "persist"} => op \in Inline
    /\ IF at \in {"idle", "register", "resolve"}
         THEN ver = None ELSE prov = None <=> ver = None
    /\ at \in {"idle", "register", "resolve", "persist"} => queue = <<>>
    /\ at \in {"provider", "store", "upsert"} => queue # <<>>
    /\ queue # <<>> => prov # None

(* A chunk id belongs to one chunk, of one document, for ever.             *)
IdsDistinct ==
    /\ \A d, e \in Doc : \A c \in ToSet(chunks[d]), x \in ToSet(chunks[e]) :
         c.id = x.id => d = e /\ c = x
    /\ \A c \in Live, x \in ToSet(queue) : c.id = x.id => c = x

(* Vectors on their way, and those stored, are what they are taken for.    *)
Honest ==
    ~mixed =>
        /\ prov # None /\ ver # None => prov = ver
        /\ \A h \in held : h.by = ver

(* A meta row has its vector; before an upsert the batch is in hand.       *)
MetaBacked ==
    /\ \A m \in meta : \E r \in vec : r.id = m[1] /\ r.ver = m[2]
    /\ at \in {"store", "upsert"} => \A c \in ToSet(InBatch) : Held(c.text)

(* While an ingest embeds, a chunk has its meta row, or is queued, or was  *)
(* skipped.                                                                *)
Underway ==
    op = "ingest" /\ prov # None /\ at # "register" =>
        /\ ver = active
        /\ at # "scan" => \A c \in Live : \/ <<c.id, ver>> \in meta
                                          \/ c \in ToSet(queue)
                                          \/ c.id \in skipped

IInv ==
    /\ TypeInv /\ IdsDistinct
    /\ Honest /\ VectorsMatch
    /\ MetaBacked /\ Underway
    /\ op # "none" => ended = "none"
    /\ NothingMissed

-----------------------------------------------------------------------------
(* Sequences.                                                              *)

LEMMA ElementsOfSeq ==
    ASSUME NEW S, NEW s \in Seq(S)
    PROVE  /\ ToSet(s) \subseteq S
           /\ \A x : x \in ToSet(s) <=> \E k \in 1..Len(s) : s[k] = x
BY LenProperties, ElementOfSeq DEF ToSet

LEMMA FunctionIsSeq ==
    ASSUME NEW S, NEW n \in Nat, NEW f \in [1..n -> S]
    PROVE  f \in Seq(S)
OBVIOUS

LEMMA ElementsOfEmpty == ToSet(<<>>) = {}
BY DEF ToSet

LEMMA ElementsOfConcat ==
    ASSUME NEW S, NEW s \in Seq(S), NEW t \in Seq(S)
    PROVE  s \o t \in Seq(S) /\ ToSet(s \o t) = ToSet(s) \cup ToSet(t)
<1>1. s \o t \in Seq(S) /\ Len(s \o t) = Len(s) + Len(t)
    BY ConcatProperties
<1>2. Len(s) \in Nat /\ Len(t) \in Nat
    BY LenProperties
<1>3. ASSUME NEW x \in ToSet(s \o t) PROVE x \in ToSet(s) \cup ToSet(t)
    <2>1. PICK k \in 1..Len(s \o t) : (s \o t)[k] = x
        BY <1>1, <1>3, ElementsOfSeq
    <2>2. CASE k <= Len(s)
        <3>1. s[k] = x /\ k \in 1..Len(s)
            BY <1>1, <1>2, <2>1, <2>2, ConcatProperties
        <3> QED
            BY <3>1, ElementsOfSeq
    <2>3. CASE k > Len(s)
        <3>1. t[k - Len(s)] = x /\ k - Len(s) \in 1..Len(t)
            BY <1>1, <1>2, <2>1, <2>3, ConcatProperties
        <3> QED
            BY <3>1, ElementsOfSeq
    <2> QED
        BY <1>1, <1>2, <2>1, <2>2, <2>3
<1>4. ASSUME NEW x \in ToSet(s) PROVE x \in ToSet(s \o t)
    <2>1. PICK k \in 1..Len(s) : s[k] = x
        BY <1>4, ElementsOfSeq
    <2>2. (s \o t)[k] = x /\ k \in 1..Len(s \o t)
        BY <1>1, <1>2, <2>1, ConcatProperties
    <2> QED
        BY <1>1, <2>2, ElementsOfSeq
<1>5. ASSUME NEW x \in ToSet(t) PROVE x \in ToSet(s \o t)
    <2>1. PICK k \in 1..Len(t) : t[k] = x
        BY <1>5, ElementsOfSeq
    <2>2. (s \o t)[k + Len(s)] = x /\ k + Len(s) \in 1..Len(s \o t)
        BY <1>1, <1>2, <2>1, ConcatProperties
    <2> QED
        BY <1>1, <2>2, ElementsOfSeq
<1> QED
    BY <1>1, <1>3, <1>4, <1>5

(* The head of a sequence up to some place, and the rest.                  *)
LEMMA ElementsOfSplit ==
    ASSUME NEW S, NEW s \in Seq(S), NEW n \in 0..Len(s)
    PROVE  LET front == SubSeq(s, 1, n)
               rest  == SubSeq(s, n + 1, Len(s))
           IN /\ front \in Seq(S) /\ Len(front) = n
              /\ rest \in Seq(S)
              /\ ToSet(s) = ToSet(front) \cup ToSet(rest)
<1> DEFINE front == SubSeq(s, 1, n)
           rest  == SubSeq(s, n + 1, Len(s))
<1>1. Len(s) \in Nat /\ n \in Nat /\ \A k \in 1..Len(s) : s[k] \in S
    BY LenProperties, ElementOfSeq
<1>2. /\ front \in Seq(S) /\ Len(front) = n
      /\ \A k \in 1..n : front[k] = s[k]
    <2>1. \A k \in 1..n : s[k] \in S
        BY <1>1
    <2>2. /\ front \in Seq(S) /\ Len(front) = IF 1 <= n THEN n - 1 + 1 ELSE 0
          /\ \A k \in 1..n - 1 + 1 : front[k] = s[1 + k - 1]
        BY <1>1, <2>1, SubSeqProperties DEF front
    <2> QED
        BY <1>1, <2>2
<1>3. /\ rest \in Seq(S) /\ Len(rest) = Len(s) - n
      /\ \A k \in 1..Len(s) - n : rest[k] = s[n + k]
    BY <1>1, SubSeqProperties
<1> HIDE DEF front, rest
<1>4. ASSUME NEW x \in ToSet(s) PROVE x \in ToSet(front) \cup ToSet(rest)
    <2>1. PICK k \in 1..Len(s) : s[k] = x
        BY <1>4, ElementsOfSeq
    <2>2. CASE k <= n
        <3>1. front[k] = x /\ k \in 1..Len(front)
            BY <1>1, <1>2, <2>1, <2>2
        <3>2. x \in ToSet(front)
            BY <1>2, <3>1, ElementsOfSeq
        <3> QED
            BY <3>2
    <2>3. CASE k > n
        <3>1. rest[k - n] = x /\ k - n \in 1..Len(rest)
            BY <1>1, <1>3, <2>1, <2>3
        <3>2. x \in ToSet(rest)
            BY <1>3, <3>1, ElementsOfSeq
        <3> QED
            BY <3>2
    <2> QED
        BY <1>1, <2>1, <2>2, <2>3
<1>5. ASSUME NEW x \in ToSet(front) PROVE x \in ToSet(s)
    <2>1. PICK k \in 1..n : front[k] = x
        BY <1>2, <1>5, ElementsOfSeq
    <2>2. s[k] = x /\ k \in 1..Len(s)
        BY <1>1, <1>2, <2>1
    <2> QED
        BY <2>2, ElementsOfSeq
<1>6. ASSUME NEW x \in ToSet(rest) PROVE x \in ToSet(s)
    <2>1. PICK k \in 1..Len(rest) : rest[k] = x
        BY <1>3, <1>6, ElementsOfSeq
    <2>2. s[n + k] = x /\ n + k \in 1..Len(s)
        BY <1>1, <1>3, <2>1
    <2> QED
        BY <2>2, ElementsOfSeq
<1> QED
    BY <1>2, <1>3, <1>4, <1>5, <1>6 DEF front, rest

-----------------------------------------------------------------------------
(* Chunks.                                                                 *)

LEMMA Contents ==
    ASSUME NEW v \in Body
    PROVE  /\ Cut[v] \in Seq(Text) /\ Len(Cut[v]) \in Nat
           /\ DOMAIN Cut[v] = 1..Len(Cut[v])
           /\ \A k \in 1..Len(Cut[v]) : Cut[v][k] \in Text
BY EmbedAssumption, LenProperties, ElementOfSeq

(* The chunks of a content get the ids after the last.                     *)
LEMMA Numbering ==
    ASSUME lastId \in Nat, NEW d \in Doc, NEW v \in Body
    PROVE  LET new == NewChunks(d, v)
           IN /\ new \in Seq(ChunkOf(lastId + Len(Cut[v])))
              /\ \A c \in ToSet(new) :
                   c.id \in lastId + 1..lastId + Len(Cut[v]) /\ c.text \in Text
              /\ \A c, x \in ToSet(new) : c.id = x.id => c = x
<1> DEFINE n   == Len(Cut[v])
           new == NewChunks(d, v)
<1>1. n \in Nat /\ new = [k \in 1..n |-> [id |-> lastId + k, text |-> Cut[v][k]]]
    BY Contents DEF NewChunks, NumberedFrom
<1>2. \A k \in 1..n : new[k] \in ChunkOf(lastId + n)
    BY <1>1, Contents DEF ChunkOf
<1>3. new \in Seq(ChunkOf(lastId + n))
    <2>1. new \in [1..n -> ChunkOf(lastId + n)]
        BY <1>1, <1>2
    <2> QED
        BY <1>1, <2>1, FunctionIsSeq
<1>4. ASSUME NEW c \in ToSet(new)
      PROVE  \E k \in 1..n : c = [id |-> lastId + k, text |-> Cut[v][k]]
    BY <1>1, <1>4 DEF ToSet
<1>5. ASSUME NEW c \in ToSet(new)
      PROVE  c.id \in lastId + 1..lastId + n /\ c.text \in Text
    BY <1>1, <1>4, Contents
<1>6. ASSUME NEW c \in ToSet(new), NEW x \in ToSet(new), c.id = x.id PROVE c = x
    <2>1. PICK k \in 1..n : c = [id |-> lastId + k, text |-> Cut[v][k]]
        BY <1>4
    <2>2. PICK l \in 1..n : x = [id |-> lastId + l, text |-> Cut[v][l]]
        BY <1>4
    <2> QED
        BY <1>1, <1>6, <2>1, <2>2
<1> QED
    BY <1>3, <1>5, <1>6

LEMMA LiveTyped ==
    ASSUME TypeInv
    PROVE  /\ \A d \in Doc : ToSet(chunks[d]) \subseteq ChunkOf(lastId)
           /\ Live \subseteq ChunkOf(lastId)
           /\ ToSet(queue) \subseteq ChunkOf(lastId)
<1>1. \A d \in Doc : chunks[d] \in Seq(ChunkOf(lastId))
    BY DEF TypeInv, TypeOK, ChunkOf
<1>2. \A d \in Doc : ToSet(chunks[d]) \subseteq ChunkOf(lastId)
    BY <1>1, ElementsOfSeq
<1>3. ToSet(queue) \subseteq ChunkOf(lastId)
    BY ElementsOfSeq DEF TypeInv
<1> QED
    BY <1>2, <1>3 DEF Live

(* What replace_chunks makes of the index.                                 *)
LEMMA Replaced ==
    ASSUME TypeInv, IdsDistinct, NEW d \in Doc, NEW v \in Body,
           ReplaceChunks(d, v)
    PROVE  /\ lastId' = lastId + Len(Cut[v]) /\ lastId' \in Nat
           /\ chunks' \in [Doc -> Seq(ChunkOf(lastId'))]
           /\ \A e \in Doc : ToSet(chunks[e])' =
                IF e = d THEN ToSet(NewChunks(d, v)) ELSE ToSet(chunks[e])
           /\ Live' \subseteq Live \cup ToSet(NewChunks(d, v))
           /\ meta' \subseteq Ids(Live') \X Identity
<1>1. lastId' = lastId + Len(Cut[v]) /\ lastId' \in Nat /\ lastId \in Nat
    BY Contents DEF ReplaceChunks, TypeInv
<1>2. /\ chunks \in [Doc -> Seq(ChunkOf(lastId))]
      /\ chunks' = [chunks EXCEPT ![d] = NewChunks(d, v)]
    BY DEF ReplaceChunks, TypeInv, TypeOK, ChunkOf
<1>3. ASSUME NEW e \in Doc
      PROVE  /\ chunks'[e] \in Seq(ChunkOf(lastId'))
             /\ ToSet(chunks[e])' =
                  IF e = d THEN ToSet(NewChunks(d, v)) ELSE ToSet(chunks[e])
    <2>1. CASE e = d
        <3>1. chunks'[e] = NewChunks(d, v)
            BY <1>2, <2>1
        <3> QED
            BY <1>1, <2>1, <3>1, Numbering DEF TypeInv
    <2>2. CASE e # d
        <3>1. chunks'[e] = chunks[e] /\ chunks[e] \in Seq(ChunkOf(lastId))
            BY <1>2, <2>2
        <3>2. ChunkOf(lastId) \subseteq ChunkOf(lastId')
            BY <1>1, Contents DEF ChunkOf
        <3>3. chunks[e] \in Seq(ChunkOf(lastId'))
            BY <3>1, <3>2, SeqMonotonic
        <3> QED
            BY <2>2, <3>1, <3>3
    <2> QED
        BY <2>1, <2>2
<1>4. chunks' \in [Doc -> Seq(ChunkOf(lastId'))]
    BY <1>2, <1>3
<1>5. Live' = UNION {ToSet(chunks[e])' : e \in Doc}
    BY DEF Live
<1>6. Live' \subseteq Live \cup ToSet(NewChunks(d, v))
    <2> SUFFICES ASSUME NEW c \in Live' PROVE c \in Live \cup ToSet(NewChunks(d, v))
        OBVIOUS
    <2>1. PICK e \in Doc : c \in ToSet(chunks[e])'
        BY <1>5
    <2> QED
        BY <1>3, <2>1 DEF Live
<1>7. meta' \subseteq Ids(Live') \X Identity
    <2> SUFFICES ASSUME NEW m \in meta' PROVE m \in Ids(Live') \X Identity
        OBVIOUS
    <2>1. /\ m \in Ids(Live) \X Identity
          /\ m[1] \notin Ids(ToSet(chunks[d]))
        BY DEF ReplaceChunks, TypeInv, TypeOK
    <2>2. PICK e \in Doc : \E c \in ToSet(chunks[e]) : c.id = m[1]
        BY <2>1 DEF Ids, Live
    <2>3. e # d
        BY <2>1, <2>2 DEF Ids
    <2>4. m[1] \in Ids(Live')
        BY <1>3, <1>5, <2>2, <2>3 DEF Ids
    <2> QED
        BY <2>1, <2>4
<1> QED
    BY <1>1, <1>3, <1>4, <1>6, <1>7

LEMMA MissingFinite ==
    ASSUME TypeInv, IdsDistinct, NEW S \in SUBSET Live
    PROVE  IsFiniteSet(S) /\ Cardinality(S) \in Nat
<1> DEFINE number == [c \in S |-> c.id]
<1>1. \A c \in S : c.id \in 1..lastId
    BY LiveTyped DEF ChunkOf
<1>2. \A c \in S, x \in S : c.id = x.id => c = x
    BY DEF IdsDistinct, Live
<1>3. number \in Injection(S, 1..lastId)
    BY <1>1, <1>2 DEF Injection, IsInjective
<1>4. IsFiniteSet(1..lastId)
    BY FS_Interval DEF TypeInv
<1>5. IsFiniteSet(S)
    BY <1>3, <1>4, FS_Injection
<1> QED
    BY <1>5, FS_CardinalityType

(* The resume scan queues what is missing, and nothing that is not live.   *)
LEMMA Resumed ==
    ASSUME TypeInv, IdsDistinct, Resume
    PROVE  /\ queue' \in Seq(ChunkOf(lastId))
           /\ queue' # <<>> => prov # None
           /\ ToSet(queue') =
                IF prov = None THEN ToSet(queue)
                ELSE ToSet(queue) \cup {c \in Missing : c.id \notin Ids(ToSet(queue))}
<1> DEFINE more == {c \in Missing : c.id \notin Ids(ToSet(queue))}
<1>1. queue \in Seq(ChunkOf(lastId)) /\ (queue # <<>> => prov # None)
    BY DEF TypeInv
<1>2. CASE prov = None
    BY <1>1, <1>2 DEF Resume
<1>3. CASE prov # None
    <2>1. PICK q \in [1..Cardinality(more) -> more] :
                 ToSet(q) = more /\ queue' = queue \o q
        BY <1>3 DEF Resume
    <2>2. more \subseteq Live /\ more \subseteq ChunkOf(lastId)
        BY LiveTyped DEF Missing
    <2>3. Cardinality(more) \in Nat
        BY <2>2, MissingFinite
    <2>4. q \in Seq(more)
        BY <2>3, FunctionIsSeq
    <2>5. q \in Seq(ChunkOf(lastId))
        BY <2>2, <2>4, SeqMonotonic
    <2> QED
        BY <1>1, <1>3, <2>1, <2>5, ElementsOfConcat
<1> QED
    BY <1>2, <1>3

LEMMA Batches ==
    ASSUME TypeInv
    PROVE  /\ InBatch \in Seq(ChunkOf(lastId)) /\ Rest \in Seq(ChunkOf(lastId))
           /\ ToSet(queue) = ToSet(InBatch) \cup ToSet(Rest)
<1>1. queue \in Seq(ChunkOf(lastId)) /\ Len(queue) \in Nat /\ Batch \in Nat
    BY EmbedAssumption, LenProperties DEF TypeInv
<1>2. CASE op = "ingest" /\ Len(queue) > Batch
    <2>1. Batch \in 0..Len(queue) /\ InBatch = SubSeq(queue, 1, Batch)
        BY <1>1, <1>2 DEF InBatch
    <2>2. Len(InBatch) = Batch /\ InBatch \in Seq(ChunkOf(lastId))
        BY <1>1, <2>1, ElementsOfSplit
    <2>3. Rest = SubSeq(queue, Batch + 1, Len(queue))
        BY <2>2 DEF Rest
    <2> QED
        BY <1>1, <2>1, <2>2, <2>3, ElementsOfSplit
<1>3. CASE ~(op = "ingest" /\ Len(queue) > Batch)
    <2>1. InBatch = queue /\ Rest = SubSeq(queue, Len(queue) + 1, Len(queue))
        BY <1>3 DEF InBatch, Rest
    <2>2. Rest = <<>>
        BY <1>1, <2>1, SubSeqEmpty
    <2>3. Rest \in Seq(ChunkOf(lastId)) /\ ToSet(Rest) = {}
        BY <2>2, ElementsOfEmpty, EmptySeq
    <2> QED
        BY <1>1, <2>1, <2>3
<1> QED
    BY <1>2, <1>3

-----------------------------------------------------------------------------
(* Types are kept.                                                         *)

LEMMA InitTypes == Init => TypeInv
<1> SUFFICES ASSUME Init PROVE TypeInv
    OBVIOUS
<1> USE EmbedAssumption DEF Init
<1>1. <<>> \in Seq(ChunkOf(lastId))
    BY EmptySeq
<1>2. chunks \in [Doc -> Seq([id : 1..lastId, text : Text])]
    BY EmptySeq
<1>3. TypeOK
    BY <1>2 DEF TypeOK, Body
<1> QED
    BY <1>1, <1>3 DEF TypeInv, Inline

(* The end of a task.                                                      *)
LEMMA ClosedTypes ==
    ASSUME TypeInv, NEW how, Close(how), lastId' = lastId,
           UNCHANGED <<text, cfg, active, hash, chunks>>,
           shown' \subseteq shown,
           meta' \subseteq Ids(Live) \X Identity, vec' \subseteq Vector,
           cache' \subseteq [text : Text, ver : Identity, by : Identity]
    PROVE  TypeInv'
<1>1. Live' = Live /\ Vector' = Vector
    BY DEF Live, Vector
<1>2. <<>> \in Seq(ChunkOf(lastId))
    BY EmptySeq
<1>3. TypeOK'
    BY <1>1 DEF TypeInv, TypeOK, Close
<1> QED
    BY <1>2, <1>3 DEF TypeInv, Close, Inline, ChunkOf

(* What was inserted is typed.                                             *)
LEMMA Inserted ==
    ASSUME TypeInv, at = "upsert", Insert(ToSet(InBatch))
    PROVE  /\ meta' \subseteq Ids(Live) \X Identity
           /\ vec' \subseteq Vector
<1>1. ver \in Identity
    BY DEF TypeInv, TypeOK
<1>2. meta' \subseteq Ids(Live) \X Identity
    <2>1. {<<c.id, ver>> : c \in ToSet(InBatch)} \subseteq Ids(Live) \X Identity
        BY <1>1 DEF Insert, Insertable, Ids
    <2> QED
        BY <2>1 DEF Insert, TypeInv, TypeOK
<1>3. ToSet(InBatch) \subseteq ChunkOf(lastId)
    BY Batches, ElementsOfSeq
<1>4. ASSUME NEW c \in ToSet(InBatch) PROVE VectorsOf(c) \subseteq Vector
    BY <1>1, <1>3 DEF VectorsOf, Vector, ChunkOf, TypeInv
<1>5. vec' \subseteq Vector
    BY <1>4 DEF Insert, TypeInv, TypeOK
<1> QED
    BY <1>2, <1>5

LEMMA CacheTyped ==
    ASSUME TypeInv, at = "store", CacheWrite
    PROVE  cache' \subseteq [text : Text, ver : Identity, by : Identity]
BY DEF CacheWrite, TypeInv, TypeOK

(* The index alone, and the rest.                                          *)
IndexTyped ==
    /\ lastId \in Nat
    /\ hash \in [Doc -> 0..MaxBody] /\ shown \subseteq {d \in Doc : hash[d] # 0}
    /\ chunks \in [Doc -> Seq([id : 1..lastId, text : Text])]
    /\ meta \subseteq Ids(Live) \X Identity
    /\ vec \subseteq Vector
    /\ cache \subseteq [text : Text, ver : Identity, by : Identity]

QueueTyped == queue \in Seq(ChunkOf(lastId))

TaskTyped ==
    /\ text \in [File -> Body] /\ cfg \in Identity /\ active \in Identity \cup {None}
    /\ op \in {"none", "ingest"} \cup Inline
    /\ at \in {"idle", "register", "scan", "resolve", "persist", "batch", "provider",
               "store", "upsert"}
    /\ {prov, ver} \subseteq Identity \cup {None}
    /\ todo \subseteq File
    /\ held \subseteq [text : Text, by : Identity]
    /\ at \notin {"provider", "store", "upsert"} => held = {}
    /\ op \in Inline => page \in Page
    /\ at = "idle" <=> op = "none"
    /\ at \in {"register", "scan"} => op = "ingest"
    /\ at \in {"resolve", "persist"} => op \in Inline
    /\ IF at \in {"idle", "register", "resolve"}
         THEN ver = None ELSE prov = None <=> ver = None
    /\ at \in {"idle", "register", "resolve", "persist"} => queue = <<>>
    /\ at \in {"provider", "store", "upsert"} => queue # <<>>
    /\ queue # <<>> => prov # None

LEMMA TypeParts == TypeInv <=> IndexTyped /\ QueueTyped /\ TaskTyped
BY DEF TypeInv, TypeOK, IndexTyped, QueueTyped, TaskTyped

LEMMA IndexUntouched ==
    ASSUME TypeInv, UNCHANGED <<hash, shown, chunks, lastId, meta, vec>>,
           cache' \subseteq [text : Text, ver : Identity, by : Identity]
    PROVE  IndexTyped' /\ (queue' = queue => QueueTyped')
<1>1. Live' = Live /\ Vector' = Vector /\ ChunkOf(lastId)' = ChunkOf(lastId)
    BY DEF Live, Vector, ChunkOf
<1>2. IndexTyped /\ QueueTyped
    BY TypeParts
<1>3. IndexTyped'
    BY <1>1, <1>2 DEF IndexTyped
<1> QED
    BY <1>1, <1>2, <1>3 DEF QueueTyped

(* A document's new chunks leave the index typed, and the queue.           *)
LEMMA PersistedTypes ==
    ASSUME TypeInv, IdsDistinct, NEW d \in Doc, NEW v \in Body,
           ReplaceChunks(d, v) \/ UNCHANGED <<chunks, lastId, meta>>,
           hash' = [hash EXCEPT ![d] = v],
           shown' \in {shown \cup {d}, shown \ {d}},
           UNCHANGED <<vec, cache>>
    PROVE  /\ IndexTyped'
           /\ queue' = queue => QueueTyped'
           /\ ReplaceChunks(d, v) /\ queue' = queue \o NewChunks(d, v) => QueueTyped'
           /\ ReplaceChunks(d, v) /\ queue' = NewChunks(d, v) => QueueTyped'
<1>0. IndexTyped /\ QueueTyped
    BY TypeParts
<1>1. v \in 0..MaxBody /\ v # 0
    BY EmbedAssumption DEF Body
<1>2. hash' \in [Doc -> 0..MaxBody] /\ shown' \subseteq {e \in Doc : hash'[e] # 0}
    BY <1>0, <1>1 DEF IndexTyped
<1>3. CASE ReplaceChunks(d, v)
    <2>1. /\ lastId' \in Nat /\ lastId <= lastId'
          /\ lastId' = lastId + Len(Cut[v])
          /\ chunks' \in [Doc -> Seq(ChunkOf(lastId'))]
          /\ meta' \subseteq Ids(Live') \X Identity
        BY <1>0, <1>3, Replaced, Contents DEF IndexTyped
    <2>2. Vector \subseteq Vector'
        BY <1>0, <2>1 DEF Vector, IndexTyped
    <2>3. IndexTyped'
        BY <1>0, <1>2, <2>1, <2>2 DEF IndexTyped, ChunkOf
    <2>4. queue \in Seq(ChunkOf(lastId'))
        <3>1. ChunkOf(lastId) \subseteq ChunkOf(lastId')
            BY <1>0, <2>1 DEF ChunkOf, IndexTyped
        <3> QED
            BY <1>0, <3>1, SeqMonotonic DEF QueueTyped
    <2>5. NewChunks(d, v) \in Seq(ChunkOf(lastId'))
        BY <1>0, <2>1, Numbering DEF IndexTyped
    <2>6. queue \o NewChunks(d, v) \in Seq(ChunkOf(lastId'))
        BY <2>4, <2>5, ElementsOfConcat
    <2> QED
        BY <2>3, <2>4, <2>5, <2>6 DEF QueueTyped, ChunkOf
<1>4. CASE UNCHANGED <<chunks, lastId, meta>> /\ ~ReplaceChunks(d, v)
    <2>1. Live' = Live /\ Vector' = Vector
        BY <1>4 DEF Live, Vector
    <2> QED
        BY <1>0, <1>2, <1>4, <2>1 DEF IndexTyped, QueueTyped, ChunkOf
<1> QED
    BY <1>3, <1>4

LEMMA TypesKept == TypeInv /\ IdsDistinct /\ [Next]_vars => TypeInv'
<1> SUFFICES ASSUME TypeInv, IdsDistinct, [Next]_vars PROVE TypeInv'
    OBVIOUS
<1> USE EmbedAssumption DEF Inline
<1>0. IndexTyped /\ QueueTyped /\ TaskTyped
    BY TypeParts
<1>c. cache \subseteq [text : Text, ver : Identity, by : Identity]
    BY <1>0 DEF IndexTyped
<1>s. ASSUME IndexTyped', QueueTyped', TaskTyped' PROVE TypeInv'
    BY <1>s, TypeParts, PTL
<1>1. CASE BeginIngest
    <2>1. cache' \subseteq [text : Text, ver : Identity, by : Identity]
        BY <1>c, <1>1 DEF BeginIngest
    <2>2. IndexTyped'
        BY <1>1, <2>1, IndexUntouched DEF BeginIngest, base
    <2>3. QueueTyped'
        BY <1>1, <2>1, IndexUntouched DEF BeginIngest, base
    <2>5. TaskTyped'
        BY <1>0, <1>1 DEF BeginIngest, base, TaskTyped
    <2> QED
        BY <1>s, <2>2, <2>3, <2>5
<1>2. CASE Register
    <2>1. cache' \subseteq [text : Text, ver : Identity, by : Identity]
        BY <1>c, <1>2 DEF Register
    <2>2. IndexTyped'
        BY <1>2, <2>1, IndexUntouched DEF Register, base, counts
    <2>3. QueueTyped'
        BY <1>2, <2>1, IndexUntouched DEF Register, base, counts
    <2>5. TaskTyped'
        BY <1>0, <1>2 DEF Register, base, counts, TaskTyped
    <2> QED
        BY <1>s, <2>2, <2>3, <2>5
<1>3. CASE Scan
    <2> DEFINE file == First(todo)
    <2>1. file \in File /\ Key[file] \in Doc /\ text[file] \in Body
        BY <1>0, <1>3 DEF Scan, First, TaskTyped, Doc
    <2>2. IndexTyped' /\ QueueTyped'
        <3>1. CASE UNCHANGED <<base, queue>>
            BY <1>3, <1>c, <3>1, IndexUntouched DEF Scan, base
        <3>2. CASE ~UNCHANGED <<base, queue>>
            <4>1. /\ ReplaceChunks(Key[file], text[file])
                  /\ hash' = [hash EXCEPT ![Key[file]] = text[file]]
                  /\ shown' = shown \cup {Key[file]}
                  /\ UNCHANGED <<vec, cache>>
                  /\ queue' \in {queue, queue \o NewChunks(Key[file], text[file])}
                BY <1>3, <3>2 DEF Scan
            <4> QED
                BY <2>1, <4>1, PersistedTypes
        <3> QED
            BY <3>1, <3>2
    <2>3. queue' # <<>> => prov # None
        BY <1>0, <1>3 DEF Scan, TaskTyped
    <2>4. TaskTyped'
        BY <1>0, <1>3, <2>3 DEF Scan, counts, TaskTyped
    <2> QED
        BY <1>s, <2>2, <2>4
<1>4. CASE ScanFails
    <2> DEFINE file == First(todo)
    <2>1. file \in File /\ Key[file] \in Doc /\ text[file] \in Body
        BY <1>0, <1>4 DEF ScanFails, First, TaskTyped, Doc
    <2>2. /\ ReplaceChunks(Key[file], text[file]) \/ UNCHANGED <<chunks, lastId, meta>>
          /\ hash' = [hash EXCEPT ![Key[file]] = text[file]]
          /\ shown' = shown \ {Key[file]}
          /\ UNCHANGED <<vec, cache, queue>>
        BY <1>4 DEF ScanFails
    <2>3. IndexTyped' /\ QueueTyped'
        BY <2>1, <2>2, PersistedTypes
    <2>4. TaskTyped'
        BY <1>0, <1>4 DEF ScanFails, TaskTyped
    <2> QED
        BY <1>s, <2>3, <2>4
<1>5. CASE Resume
    <2>1. cache' \subseteq [text : Text, ver : Identity, by : Identity]
        BY <1>c, <1>5 DEF Resume
    <2>2. IndexTyped'
        BY <1>5, <2>1, IndexUntouched DEF Resume, base, counts
    <2>3. QueueTyped'
        BY <1>5, Resumed DEF Resume, base, QueueTyped, ChunkOf
    <2>4. queue' # <<>> => prov # None
        BY <1>5, Resumed
    <2>5. TaskTyped'
        BY <1>0, <1>5, <2>4 DEF Resume, base, counts, TaskTyped
    <2> QED
        BY <1>s, <2>2, <2>3, <2>5
<1>6. CASE BeginInline
    <2>1. cache' \subseteq [text : Text, ver : Identity, by : Identity]
        BY <1>c, <1>6 DEF BeginInline
    <2>2. IndexTyped'
        BY <1>6, <2>1, IndexUntouched DEF BeginInline, base
    <2>3. QueueTyped'
        BY <1>6, <2>1, IndexUntouched DEF BeginInline, base
    <2>5. TaskTyped'
        BY <1>0, <1>6 DEF BeginInline, base, TaskTyped
    <2> QED
        BY <1>s, <2>2, <2>3, <2>5
<1>7. CASE Resolve
    <2>1. cache' \subseteq [text : Text, ver : Identity, by : Identity]
        BY <1>c, <1>7 DEF Resolve
    <2>2. IndexTyped'
        BY <1>7, <2>1, IndexUntouched DEF Resolve, base, counts, Usable
    <2>3. QueueTyped'
        BY <1>7, <2>1, IndexUntouched DEF Resolve, base, counts, Usable
    <2>5. TaskTyped'
        BY <1>0, <1>7 DEF Resolve, base, counts, Usable, TaskTyped
    <2> QED
        BY <1>s, <2>2, <2>3, <2>5
<1>8. CASE Persist
    <2>1. page \in Page /\ page \in Doc
        BY <1>0, <1>8 DEF Persist, TaskTyped, Doc
    <2>2. PICK v \in Body :
            /\ hash' = [hash EXCEPT ![page] = v] /\ shown' = shown \cup {page}
            /\ ReplaceChunks(page, v)
            /\ queue' = IF prov = None THEN <<>> ELSE NewChunks(page, v)
        BY <1>8 DEF Persist
    <2>3. queue = <<>> /\ UNCHANGED <<vec, cache>>
        BY <1>0, <1>8 DEF Persist, TaskTyped
    <2>4. IndexTyped' /\ QueueTyped'
        BY <2>1, <2>2, <2>3, PersistedTypes
    <2>5. TaskTyped'
        BY <1>0, <1>8, <2>2 DEF Persist, counts, TaskTyped
    <2> QED
        BY <1>s, <2>4, <2>5
<1>9. CASE Lookup
    <2>1. cache' \subseteq [text : Text, ver : Identity, by : Identity]
        BY <1>c, <1>9 DEF Lookup
    <2>2. IndexTyped'
        BY <1>9, <2>1, IndexUntouched DEF Lookup, base
    <2>3. QueueTyped'
        BY <1>9, <2>1, IndexUntouched DEF Lookup, base
    <2>4. held' \subseteq [text : Text, by : Identity]
        BY <1>c, <1>9 DEF Lookup
    <2>5. TaskTyped'
        BY <1>0, <1>9, <2>4 DEF Lookup, base, TaskTyped
    <2> QED
        BY <1>s, <2>2, <2>3, <2>5
<1>10. CASE Provide
    <2>1. cache' \subseteq [text : Text, ver : Identity, by : Identity]
        BY <1>c, <1>10 DEF Provide
    <2>2. IndexTyped'
        BY <1>10, <2>1, IndexUntouched DEF Provide, base, counts
    <2>3. QueueTyped'
        BY <1>10, <2>1, IndexUntouched DEF Provide, base, counts
    <2>0. prov \in Identity
        BY <1>0, <1>10 DEF Provide, TaskTyped
    <2>a. \A c \in Misses : c.text \in Text
        <3>1. ToSet(InBatch) \subseteq ChunkOf(lastId)
            BY Batches, ElementsOfSeq
        <3> QED
            BY <3>1 DEF Misses, ChunkOf
    <2>4. held' \subseteq [text : Text, by : Identity]
        BY <1>0, <1>10, <2>0, <2>a DEF Provide, TaskTyped
    <2>5. TaskTyped'
        BY <1>0, <1>10, <2>4 DEF Provide, base, counts, TaskTyped
    <2> QED
        BY <1>s, <2>2, <2>3, <2>5
<1>11. CASE Transient
    <2>1. cache' \subseteq [text : Text, ver : Identity, by : Identity]
        BY <1>c, <1>11 DEF Transient
    <2>2. IndexTyped'
        BY <1>11, <2>1, IndexUntouched DEF Transient, base
    <2>3. QueueTyped'
        BY <1>0, <1>11, Batches DEF Transient, base, QueueTyped, ChunkOf
    <2>5. TaskTyped'
        BY <1>0, <1>11 DEF Transient, base, TaskTyped
    <2> QED
        BY <1>s, <2>2, <2>3, <2>5
<1>12. CASE Store
    <2>1. cache' \subseteq [text : Text, ver : Identity, by : Identity]
        BY <1>12, <1>c, CacheTyped DEF Store
    <2>2. IndexTyped'
        BY <1>12, <2>1, IndexUntouched DEF Store, base
    <2>3. QueueTyped'
        BY <1>12, <2>1, IndexUntouched DEF Store, base
    <2>5. TaskTyped'
        BY <1>0, <1>12 DEF Store, base, TaskTyped
    <2> QED
        BY <1>s, <2>2, <2>3, <2>5
<1>13. CASE Upsert
    <2>1. meta' \subseteq Ids(Live) \X Identity /\ vec' \subseteq Vector
        BY <1>13, Inserted DEF Upsert
    <2>2. Live' = Live /\ Vector' = Vector /\ ChunkOf(lastId)' = ChunkOf(lastId)
        BY <1>13 DEF Upsert, Live, Vector, ChunkOf
    <2>3. IndexTyped'
        BY <1>0, <1>13, <2>1, <2>2 DEF Upsert, IndexTyped
    <2>4. QueueTyped'
        BY <1>13, <2>2, Batches DEF Upsert, QueueTyped
    <2>5. TaskTyped'
        BY <1>0, <1>13 DEF Upsert, counts, TaskTyped
    <2> QED
        BY <1>s, <2>3, <2>4, <2>5
<1>14. CASE UpsertRefused
    BY <1>0, <1>14, ClosedTypes DEF UpsertRefused, base, IndexTyped
<1>15. CASE Finish
    BY <1>0, <1>15, ClosedTypes DEF Finish, base, IndexTyped
<1>16. CASE Stop
    <2>1. /\ meta' \subseteq Ids(Live) \X Identity /\ vec' \subseteq Vector
          /\ cache' \subseteq [text : Text, ver : Identity, by : Identity]
        <3>1. CASE UNCHANGED <<meta, vec, cache>>
            BY <1>0, <3>1 DEF IndexTyped
        <3>2. CASE at = "store" /\ CacheWrite /\ UNCHANGED <<meta, vec>>
            BY <1>0, <3>2, CacheTyped DEF IndexTyped
        <3>3. CASE at = "upsert" /\ Insert(ToSet(InBatch)) /\ UNCHANGED cache
            BY <1>0, <3>3, Inserted DEF IndexTyped
        <3> QED
            BY <1>16, <3>1, <3>2, <3>3 DEF Stop
    <2>2. /\ Close("failed") /\ lastId' = lastId /\ shown' \subseteq shown
          /\ UNCHANGED <<text, cfg, active, hash, chunks>>
        BY <1>16 DEF Stop
    <2> QED
        BY <2>1, <2>2, ClosedTypes
<1>17. CASE Delete
    <2>1. PICK p \in Page :
            /\ hash' = [hash EXCEPT ![p] = 0] /\ shown' = shown \ {p}
            /\ chunks' = [chunks EXCEPT ![p] = <<>>]
            /\ meta' = {m \in meta : m[1] \notin Ids(ToSet(chunks[p]))}
            /\ vec'  = {r \in vec : r.id \notin Ids(ToSet(chunks[p]))}
        BY <1>17 DEF Delete
    <2>2. p \in Doc /\ UNCHANGED <<lastId, cache, queue>>
        BY <1>17 DEF Delete, task, Doc
    <2>3. 0 \in 0..MaxBody /\ <<>> \in Seq([id : 1..lastId, text : Text])
        BY EmptySeq
    <2>4. chunks' \in [Doc -> Seq([id : 1..lastId, text : Text])]
        BY <1>0, <2>1, <2>3 DEF IndexTyped
    <2>5. hash' \in [Doc -> 0..MaxBody] /\ shown' \subseteq {d \in Doc : hash'[d] # 0}
        BY <1>0, <2>1, <2>2, <2>3 DEF IndexTyped
    <2>6. meta' \subseteq Ids(Live') \X Identity
        <3> SUFFICES ASSUME NEW m \in meta' PROVE m \in Ids(Live') \X Identity
            OBVIOUS
        <3>1. m \in Ids(Live) \X Identity /\ m[1] \notin Ids(ToSet(chunks[p]))
            BY <1>0, <2>1 DEF IndexTyped
        <3>2. PICK e \in Doc : \E c \in ToSet(chunks[e]) : c.id = m[1]
            BY <3>1 DEF Ids, Live
        <3>3. e # p /\ chunks'[e] = chunks[e]
            BY <1>0, <2>1, <3>1, <3>2 DEF Ids, IndexTyped
        <3>4. m[1] \in Ids(Live')
            BY <3>2, <3>3 DEF Ids, Live
        <3> QED
            BY <3>1, <3>4
    <2>7. Vector' = Vector /\ ChunkOf(lastId)' = ChunkOf(lastId)
        BY <2>2 DEF Vector, ChunkOf
    <2>8. IndexTyped' /\ QueueTyped'
        BY <1>0, <2>1, <2>2, <2>4, <2>5, <2>6, <2>7 DEF IndexTyped, QueueTyped
    <2>9. TaskTyped'
        BY <1>0, <1>17 DEF Delete, task, TaskTyped
    <2> QED
        BY <1>s, <2>8, <2>9
<1>18. CASE Edit
    <2>1. cache' \subseteq [text : Text, ver : Identity, by : Identity]
        BY <1>c, <1>18 DEF Edit
    <2>2. IndexTyped'
        BY <1>18, <2>1, IndexUntouched DEF Edit, base, task
    <2>3. QueueTyped'
        BY <1>18, <2>1, IndexUntouched DEF Edit, base, task
    <2>5. TaskTyped'
        BY <1>0, <1>18 DEF Edit, base, task, TaskTyped
    <2> QED
        BY <1>s, <2>2, <2>3, <2>5
<1>19. CASE UNCHANGED vars
    <2>1. cache' \subseteq [text : Text, ver : Identity, by : Identity]
        BY <1>c, <1>19 DEF vars
    <2>2. IndexTyped'
        BY <1>19, <2>1, IndexUntouched DEF vars, base, task, counts
    <2>3. QueueTyped'
        BY <1>19, <2>1, IndexUntouched DEF vars, base, task, counts
    <2>5. TaskTyped'
        BY <1>0, <1>19 DEF vars, base, task, counts, TaskTyped
    <2> QED
        BY <1>s, <2>2, <2>3, <2>5
<1> QED
    BY <1>1, <1>2, <1>3, <1>4, <1>5, <1>6, <1>7, <1>8, <1>9, <1>10, <1>11,
       <1>12, <1>13, <1>14, <1>15, <1>16, <1>17, <1>18, <1>19 DEF Next

-----------------------------------------------------------------------------
(* Ids are never given out twice.                                          *)

LEMMA IdsAfterReplace ==
    ASSUME TypeInv, IdsDistinct, NEW d \in Doc, NEW v \in Body, ReplaceChunks(d, v)
    PROVE  /\ \A a, e \in Doc : \A c \in ToSet(chunks[a])', x \in ToSet(chunks[e])' :
                c.id = x.id => a = e /\ c = x
           /\ \A c \in Live', x \in ToSet(queue) \cup ToSet(NewChunks(d, v)) :
                c.id = x.id => c = x
<1> DEFINE new == NewChunks(d, v)
<1>1. \A e \in Doc : ToSet(chunks[e])' = IF e = d THEN ToSet(new) ELSE ToSet(chunks[e])
    BY Replaced
<1>2. Live' \subseteq Live \cup ToSet(new)
    BY Replaced
<1>3. /\ \A c \in ToSet(new) : c.id > lastId /\ c.id \in Nat
      /\ \A c, x \in ToSet(new) : c.id = x.id => c = x
    BY Numbering, Contents DEF TypeInv
<1>4. /\ \A e \in Doc : \A c \in ToSet(chunks[e]) : c.id \in 1..lastId
      /\ \A c \in Live \cup ToSet(queue) : c.id \in 1..lastId
    BY LiveTyped DEF ChunkOf
<1>5. lastId \in Nat
    BY DEF TypeInv
<1>6. ASSUME NEW a \in Doc, NEW e \in Doc,
             NEW c \in ToSet(chunks[a])', NEW x \in ToSet(chunks[e])', c.id = x.id
      PROVE  a = e /\ c = x
    <2>1. CASE a = d /\ e = d
        BY <1>1, <1>3, <1>6, <2>1
    <2>2. CASE a # d /\ e # d
        <3>1. c \in ToSet(chunks[a]) /\ x \in ToSet(chunks[e])
            BY <1>1, <2>2
        <3> QED
            BY <1>6, <3>1 DEF IdsDistinct
    <2>3. CASE a = d /\ e # d
        BY <1>1, <1>3, <1>4, <1>5, <1>6, <2>3
    <2>4. CASE a # d /\ e = d
        BY <1>1, <1>3, <1>4, <1>5, <1>6, <2>4
    <2> QED
        BY <2>1, <2>2, <2>3, <2>4
<1>7. ASSUME NEW c \in Live', NEW x \in ToSet(queue) \cup ToSet(new), c.id = x.id
      PROVE  c = x
    <2>1. CASE c \in Live /\ x \in ToSet(queue)
        BY <1>7, <2>1 DEF IdsDistinct
    <2>2. CASE c \in ToSet(new) /\ x \in ToSet(new)
        BY <1>3, <1>7, <2>2
    <2>3. CASE c \in Live /\ x \in ToSet(new)
        BY <1>3, <1>4, <1>5, <1>7, <2>3
    <2>4. CASE c \in ToSet(new) /\ x \in ToSet(queue)
        BY <1>3, <1>4, <1>5, <1>7, <2>4
    <2> QED
        BY <1>2, <2>1, <2>2, <2>3, <2>4
<1> QED
    BY <1>6, <1>7

(* No new chunks, and nothing queued but what was, or what is live.        *)
LEMMA IdsUntouched ==
    ASSUME TypeInv, IdsDistinct, chunks' = chunks,
           ToSet(queue') \subseteq ToSet(queue) \cup Live
    PROVE  IdsDistinct'
<1>1. Live' = Live
    BY DEF Live
<1>2. \A c, x \in Live : c.id = x.id => c = x
    BY DEF IdsDistinct, Live
<1> QED
    BY <1>1, <1>2 DEF IdsDistinct

LEMMA IdsKept == TypeInv /\ IdsDistinct /\ [Next]_vars => IdsDistinct'
<1> SUFFICES ASSUME TypeInv, IdsDistinct, [Next]_vars PROVE IdsDistinct'
    OBVIOUS
<1>1. CASE Scan
    <2> DEFINE file == First(todo)
    <2>1. Key[file] \in Doc /\ text[file] \in Body
        BY <1>1 DEF Scan, First, TypeInv, TypeOK, Doc
    <2>2. CASE UNCHANGED <<base, queue>>
        BY <2>2, IdsUntouched DEF base
    <2>3. CASE ~UNCHANGED <<base, queue>>
        <3>1. /\ ReplaceChunks(Key[file], text[file])
              /\ queue' \in {queue, queue \o NewChunks(Key[file], text[file])}
            BY <1>1, <2>3 DEF Scan
        <3>2. ToSet(queue') \subseteq ToSet(queue) \cup ToSet(NewChunks(Key[file], text[file]))
            <4>1. CASE queue' = queue
                BY <4>1
            <4>2. CASE queue' = queue \o NewChunks(Key[file], text[file])
                <5>1. NewChunks(Key[file], text[file]) \in Seq(ChunkOf(lastId + Len(Cut[text[file]])))
                    BY <2>1, Numbering DEF TypeInv
                <5>2. queue \in Seq(ChunkOf(lastId + Len(Cut[text[file]])))
                    <6>1. ChunkOf(lastId) \subseteq ChunkOf(lastId + Len(Cut[text[file]]))
                        BY <2>1, Contents DEF ChunkOf, TypeInv
                    <6> QED
                        BY <6>1, SeqMonotonic DEF TypeInv
                <5> QED
                    BY <4>2, <5>1, <5>2, ElementsOfConcat
            <4> QED
                BY <3>1, <4>1, <4>2
        <3> QED
            BY <2>1, <3>1, <3>2, IdsAfterReplace DEF IdsDistinct
    <2> QED
        BY <2>2, <2>3
<1>2. CASE ScanFails
    <2> DEFINE file == First(todo)
    <2>1. Key[file] \in Doc /\ text[file] \in Body
        BY <1>2 DEF ScanFails, First, TypeInv, TypeOK, Doc
    <2>2. /\ ReplaceChunks(Key[file], text[file]) \/ chunks' = chunks
          /\ queue' = queue
        BY <1>2 DEF ScanFails
    <2>3. CASE chunks' = chunks
        BY <2>2, <2>3, IdsUntouched
    <2>4. CASE ReplaceChunks(Key[file], text[file])
        BY <2>1, <2>2, <2>4, IdsAfterReplace DEF IdsDistinct
    <2> QED
        BY <2>2, <2>3, <2>4
<1>3. CASE Persist
    <2>1. page \in Doc
        BY <1>3 DEF Persist, TypeInv, Doc
    <2>2. PICK v \in Body : /\ ReplaceChunks(page, v)
                            /\ queue' \in {<<>>, NewChunks(page, v)}
        BY <1>3 DEF Persist
    <2> QED
        BY <2>1, <2>2, IdsAfterReplace, ElementsOfEmpty DEF IdsDistinct
<1>4. CASE Resume
    <2>1. ToSet(queue') \subseteq ToSet(queue) \cup Live
        BY <1>4, Resumed DEF Missing
    <2> QED
        BY <1>4, <2>1, IdsUntouched DEF Resume, base
<1>5. CASE Transient
    <2>1. queue' \in {queue, Rest}
        BY <1>5 DEF Transient
    <2> QED
        BY <1>5, <2>1, Batches, IdsUntouched DEF Transient, base
<1>6. CASE Upsert
    BY <1>6, Batches, IdsUntouched DEF Upsert
<1>7. CASE UpsertRefused \/ Finish \/ Stop
    BY <1>7, ElementsOfEmpty, IdsUntouched DEF UpsertRefused, Finish, Stop, Close, base
<1>8. CASE Delete
    <2>1. PICK p \in Page : chunks' = [chunks EXCEPT ![p] = <<>>]
        BY <1>8 DEF Delete
    <2>2. \A e \in Doc : ToSet(chunks[e])' \subseteq ToSet(chunks[e])
        BY <2>1, ElementsOfEmpty DEF TypeInv, TypeOK, Doc
    <2>3. Live' \subseteq Live
        BY <2>2 DEF Live
    <2>4. queue' = queue
        BY <1>8 DEF Delete, task
    <2> QED
        BY <2>2, <2>3, <2>4 DEF IdsDistinct
<1>9. CASE BeginIngest \/ Register \/ BeginInline \/ Resolve \/ Lookup \/ Provide \/ Store
           \/ Edit \/ UNCHANGED vars
    <2>1. chunks' = chunks /\ queue' = queue
        BY <1>9 DEF BeginIngest, Register, BeginInline, Resolve, Lookup, Provide, Store, Edit,
                    vars, base, task
    <2> QED
        BY <2>1, IdsUntouched
<1> QED
    BY <1>1, <1>2, <1>3, <1>4, <1>5, <1>6, <1>7, <1>8, <1>9 DEF Next

-----------------------------------------------------------------------------
(* A vector is its chunk's own.                                            *)

OwnVectors == \A r \in vec, c \in Live : r.id = c.id => r.text = c.text /\ r.by = r.ver

OwnCache == \A e \in cache : e.by = e.ver

LEMMA OwnAfterReplace ==
    ASSUME TypeInv, IdsDistinct, OwnVectors, NEW d \in Doc, NEW v \in Body,
           ReplaceChunks(d, v), vec' = vec
    PROVE  OwnVectors'
<1>1. Live' \subseteq Live \cup ToSet(NewChunks(d, v))
    BY Replaced
<1>2. \A c \in ToSet(NewChunks(d, v)) : c.id > lastId
    BY Numbering, Contents DEF TypeInv
<1>3. \A r \in vec : r.id \in 1..lastId
    BY DEF TypeInv, TypeOK, Vector
<1>4. ASSUME NEW r \in vec, NEW c \in Live', r.id = c.id
      PROVE  r.text = c.text /\ r.by = r.ver
    <2>1. c \in Live
        BY <1>1, <1>2, <1>3, <1>4 DEF TypeInv
    <2> QED
        BY <1>4, <2>1 DEF OwnVectors
<1> QED
    BY <1>4 DEF OwnVectors

LEMMA OwnAfterInsert ==
    ASSUME TypeInv, IdsDistinct, OwnVectors, \A h \in held : h.by = ver,
           at = "upsert", Insert(ToSet(InBatch)), chunks' = chunks
    PROVE  OwnVectors'
<1>1. Live' = Live
    BY DEF Live
<1>2. ToSet(InBatch) \subseteq ToSet(queue)
    BY Batches
<1>3. ASSUME NEW r \in vec', NEW c \in Live, r.id = c.id
      PROVE  r.text = c.text /\ r.by = r.ver
    <2>1. CASE r \in vec
        BY <1>3, <2>1 DEF OwnVectors
    <2>2. CASE r \notin vec
        <3>1. PICK b \in ToSet(InBatch) : r \in VectorsOf(b)
            BY <2>2 DEF Insert
        <3>2. PICK h \in held : /\ h.text = b.text
                                /\ r = [id |-> b.id, ver |-> ver, text |-> h.text, by |-> h.by]
            BY <3>1 DEF VectorsOf
        <3>3. b = c
            BY <1>2, <1>3, <3>1, <3>2 DEF IdsDistinct
        <3> QED
            BY <3>2, <3>3
    <2> QED
        BY <2>1, <2>2
<1> QED
    BY <1>1, <1>3 DEF OwnVectors

LEMMA OwnAfterWrite ==
    ASSUME OwnCache, \A h \in held : h.by = ver, CacheWrite
    PROVE  OwnCache'
BY DEF OwnCache, CacheWrite

LEMMA OwnUntouched ==
    ASSUME OwnVectors, chunks' = chunks, vec' \subseteq vec
    PROVE  OwnVectors'
BY DEF OwnVectors, Live

LEMMA HonestKept ==
    TypeInv /\ IdsDistinct /\ Honest /\ VectorsMatch /\ [Next]_vars
        => Honest' /\ VectorsMatch'
<1> SUFFICES ASSUME TypeInv, IdsDistinct, Honest, VectorsMatch, [Next]_vars, ~mixed'
             PROVE  /\ prov' # None /\ ver' # None => prov' = ver'
                    /\ \A h \in held' : h.by = ver'
                    /\ OwnVectors' /\ OwnCache'
    BY DEF Honest, VectorsMatch, OwnVectors, OwnCache
<1>0. ~mixed
    BY DEF Next, BeginIngest, Register, Scan, ScanFails, Resume, BeginInline, Resolve, Persist,
           Lookup, Provide, Transient, Store, Upsert, UpsertRefused, Finish, Stop, Delete, Edit,
           vars
<1>1. /\ prov # None /\ ver # None => prov = ver
      /\ \A h \in held : h.by = ver
      /\ OwnVectors /\ OwnCache
    BY <1>0 DEF Honest, VectorsMatch, OwnVectors, OwnCache
<1>e. at \notin {"provider", "store", "upsert"} => held = {}
    BY DEF TypeInv
<1>2. CASE BeginIngest \/ BeginInline
    <2>1. UNCHANGED <<base, cache, held, ver>> /\ ver = None /\ held = {}
        BY <1>2, <1>e DEF BeginIngest, BeginInline, TypeInv
    <2> QED
        BY <1>1, <2>1, OwnUntouched DEF base, OwnCache
<1>3. CASE Register
    <2>1. /\ UNCHANGED <<base, cache, held, prov>> /\ held = {}
          /\ prov = None \/ (ver' = cfg /\ prov = cfg)
        BY <1>3, <1>e DEF Register
    <2> QED
        BY <1>1, <2>1, OwnUntouched DEF base, OwnCache
<1>4. CASE Resolve
    <2>1. UNCHANGED <<base, cache, held>> /\ held = {}
        BY <1>4, <1>e DEF Resolve
    <2>2. prov' = None \/ prov' = ver'
        BY <1>4 DEF Resolve, Usable
    <2> QED
        BY <1>1, <2>1, <2>2, OwnUntouched DEF base, OwnCache
<1>5. CASE Scan
    <2> DEFINE file == First(todo)
    <2>1. Key[file] \in Doc /\ text[file] \in Body
        BY <1>5 DEF Scan, First, TypeInv, TypeOK, Doc
    <2>2. UNCHANGED <<vec, cache, held, ver, prov>>
        BY <1>5 DEF Scan, base
    <2>3. UNCHANGED chunks \/ ReplaceChunks(Key[file], text[file])
        BY <1>5 DEF Scan, base
    <2>4. OwnVectors'
        BY <1>1, <2>1, <2>2, <2>3, OwnUntouched, OwnAfterReplace
    <2> QED
        BY <1>1, <2>2, <2>4 DEF OwnCache
<1>6. CASE ScanFails
    <2> DEFINE file == First(todo)
    <2>1. Key[file] \in Doc /\ text[file] \in Body
        BY <1>6 DEF ScanFails, First, TypeInv, TypeOK, Doc
    <2>2. UNCHANGED <<vec, cache, held, ver, prov>>
        BY <1>6 DEF ScanFails
    <2>3. UNCHANGED chunks \/ ReplaceChunks(Key[file], text[file])
        BY <1>6 DEF ScanFails
    <2>4. OwnVectors'
        BY <1>1, <2>1, <2>2, <2>3, OwnUntouched, OwnAfterReplace
    <2> QED
        BY <1>1, <2>2, <2>4 DEF OwnCache
<1>7. CASE Persist
    <2>1. page \in Doc
        BY <1>7 DEF Persist, TypeInv, Doc
    <2>2. UNCHANGED <<vec, cache, held, ver, prov>>
        BY <1>7 DEF Persist
    <2>3. \E v \in Body : ReplaceChunks(page, v)
        BY <1>7 DEF Persist
    <2>4. OwnVectors'
        BY <1>1, <2>1, <2>2, <2>3, OwnAfterReplace
    <2> QED
        BY <1>1, <2>2, <2>4 DEF OwnCache
<1>8. CASE Lookup
    <2>1. UNCHANGED <<base, cache, ver, prov>>
        BY <1>8 DEF Lookup
    <2>2. \A h \in held' : h.by = ver
        BY <1>1, <1>8 DEF Lookup, OwnCache
    <2> QED
        BY <1>1, <2>1, <2>2, OwnUntouched DEF base, OwnCache
<1>9. CASE Provide
    <2>1. UNCHANGED <<base, cache, ver, prov>>
        BY <1>9 DEF Provide
    <2>2. prov # None /\ ver # None
        BY <1>9 DEF Provide, TypeInv
    <2>3. \A h \in held' : h.by = ver
        BY <1>1, <1>9, <2>2 DEF Provide
    <2> QED
        BY <1>1, <2>1, <2>3, OwnUntouched DEF base, OwnCache
<1>10. CASE Store
    <2>1. UNCHANGED <<base, held, ver, prov>>
        BY <1>10 DEF Store
    <2>2. OwnCache'
        BY <1>1, <1>10, OwnAfterWrite DEF Store, OwnCache
    <2> QED
        BY <1>1, <2>1, <2>2, OwnUntouched DEF base
<1>11. CASE Upsert
    <2>1. UNCHANGED <<chunks, cache, ver, prov>> /\ held' = {}
        BY <1>11 DEF Upsert
    <2>2. OwnVectors'
        BY <1>1, <1>11, OwnAfterInsert DEF Upsert
    <2> QED
        BY <1>1, <2>1, <2>2 DEF OwnCache
<1>12. CASE Stop
    <2>1. prov' = None /\ held' = {} /\ chunks' = chunks
        BY <1>12 DEF Stop, Close
    <2>2. OwnVectors' /\ OwnCache'
        <3>1. CASE UNCHANGED <<meta, vec, cache>>
            BY <1>1, <2>1, <3>1, OwnUntouched DEF OwnCache
        <3>2. CASE at = "store" /\ CacheWrite /\ UNCHANGED <<meta, vec>>
            BY <1>1, <2>1, <3>2, OwnUntouched, OwnAfterWrite
        <3>3. CASE at = "upsert" /\ Insert(ToSet(InBatch)) /\ UNCHANGED cache
            BY <1>1, <2>1, <3>3, OwnAfterInsert DEF OwnCache
        <3> QED
            BY <1>12, <3>1, <3>2, <3>3 DEF Stop
    <2> QED
        BY <2>1, <2>2
<1>13. CASE UpsertRefused \/ Finish
    <2>1. prov' = None /\ held' = {} /\ UNCHANGED <<base, cache>>
        BY <1>13 DEF UpsertRefused, Finish, Close
    <2> QED
        BY <1>1, <2>1, OwnUntouched DEF base, OwnCache
<1>14. CASE Delete
    <2>1. PICK p \in Page :
            /\ chunks' = [chunks EXCEPT ![p] = <<>>]
            /\ vec'  = {r \in vec : r.id \notin Ids(ToSet(chunks[p]))}
        BY <1>14 DEF Delete
    <2>2. \A e \in Doc : ToSet(chunks[e])' \subseteq ToSet(chunks[e])
        BY <2>1, ElementsOfEmpty DEF TypeInv, TypeOK, Doc
    <2>3. Live' \subseteq Live
        BY <2>2 DEF Live
    <2>4. OwnVectors'
        BY <1>1, <2>1, <2>3 DEF OwnVectors
    <2> QED
        BY <1>1, <1>14, <2>4 DEF Delete, task, OwnCache
<1>15. CASE Resume \/ Transient \/ Edit \/ UNCHANGED vars
    <2>1. UNCHANGED <<base, cache, ver, prov>> /\ held' \subseteq held
        BY <1>15 DEF Resume, Transient, Edit, vars, task
    <2> QED
        BY <1>1, <2>1, OwnUntouched DEF base, OwnCache
<1> QED
    BY <1>2, <1>3, <1>4, <1>5, <1>6, <1>7, <1>8, <1>9, <1>10, <1>11, <1>12, <1>13, <1>14, <1>15
       DEF Next

-----------------------------------------------------------------------------
(* A meta row has its vector.                                              *)

Backed == \A m \in meta : \E r \in vec : r.id = m[1] /\ r.ver = m[2]

LEMMA BackedAfterInsert ==
    ASSUME Backed, \A c \in ToSet(InBatch) : Held(c.text), Insert(ToSet(InBatch))
    PROVE  Backed'
<1>1. ASSUME NEW c \in ToSet(InBatch)
      PROVE  \E r \in vec' : r.id = c.id /\ r.ver = ver
    <2>1. PICK h \in held : h.text = c.text
        BY DEF Held
    <2> DEFINE r == [id |-> c.id, ver |-> ver, text |-> h.text, by |-> h.by]
    <2>2. r \in VectorsOf(c)
        BY <2>1 DEF VectorsOf
    <2>3. r \in vec'
        BY <2>2 DEF Insert
    <2> QED
        BY <2>3
<1>2. ASSUME NEW m \in meta' PROVE \E r \in vec' : r.id = m[1] /\ r.ver = m[2]
    <2>1. CASE m \in {<<c.id, ver>> : c \in ToSet(InBatch)}
        BY <1>1, <2>1
    <2>2. CASE m \in meta
        <3>1. PICK r \in vec : r.id = m[1] /\ r.ver = m[2]
            BY <2>2 DEF Backed
        <3>2. CASE r.ver # ver \/ r.id \notin Ids(ToSet(InBatch))
            BY <3>1, <3>2 DEF Insert
        <3>3. CASE ~(r.ver # ver \/ r.id \notin Ids(ToSet(InBatch)))
            <4>1. PICK c \in ToSet(InBatch) : r.id = c.id
                BY <3>3 DEF Ids
            <4> QED
                BY <1>1, <3>1, <3>3, <4>1
        <3> QED
            BY <3>2, <3>3
    <2> QED
        BY <2>1, <2>2 DEF Insert
<1> QED
    BY <1>2 DEF Backed

LEMMA BackedUntouched ==
    ASSUME Backed, meta' \subseteq meta, vec' = vec
    PROVE  Backed'
BY DEF Backed

LEMMA MetaKept == TypeInv /\ MetaBacked /\ [Next]_vars => MetaBacked'
<1> SUFFICES ASSUME TypeInv, MetaBacked, [Next]_vars PROVE MetaBacked'
    OBVIOUS
<1> DEFINE InHand == at \in {"store", "upsert"} => \A c \in ToSet(InBatch) : Held(c.text)
<1>1. Backed /\ InHand
    BY DEF MetaBacked, Backed
<1>q. ASSUME Backed', at' \notin {"store", "upsert"} PROVE MetaBacked'
    BY <1>q DEF MetaBacked, Backed
<1>2. CASE Scan
    <2>1. at' = "scan" /\ vec' = vec /\ meta' \subseteq meta
        BY <1>2 DEF Scan, base, ReplaceChunks
    <2> QED
        BY <1>1, <1>q, <2>1, BackedUntouched
<1>3. CASE ScanFails
    <2>1. at' = "scan" /\ vec' = vec /\ meta' \subseteq meta
        BY <1>3 DEF ScanFails, ReplaceChunks
    <2> QED
        BY <1>1, <1>q, <2>1, BackedUntouched
<1>4. CASE Persist
    <2>1. at' = "batch" /\ vec' = vec /\ meta' \subseteq meta
        BY <1>4 DEF Persist, ReplaceChunks
    <2> QED
        BY <1>1, <1>q, <2>1, BackedUntouched
<1>5. CASE Provide
    <2>1. Backed'
        BY <1>1, <1>5, BackedUntouched DEF Provide, base
    <2>2. InBatch' = InBatch
        BY <1>5 DEF Provide, InBatch
    <2>3. ASSUME NEW c \in ToSet(InBatch) PROVE \E h \in held' : h.text = c.text
        <3>1. CASE Held(c.text)
            BY <1>5, <3>1 DEF Provide, Held
        <3>2. CASE ~Held(c.text)
            <4>1. c \in Misses
                BY <3>2 DEF Misses
            <4>2. [text |-> c.text, by |-> prov] \in held'
                BY <1>5, <4>1 DEF Provide
            <4> QED
                BY <4>2
        <3> QED
            BY <3>1, <3>2
    <2> QED
        BY <2>1, <2>2, <2>3 DEF MetaBacked, Backed, Held
<1>6. CASE Store
    <2>1. Backed'
        BY <1>1, <1>6, BackedUntouched DEF Store, base
    <2>2. InBatch' = InBatch /\ held' = held /\ at = "store"
        BY <1>6 DEF Store, InBatch
    <2> QED
        BY <1>1, <2>1, <2>2 DEF MetaBacked, Backed, Held
<1>7. CASE Upsert
    <2>1. Backed' /\ at' = "batch"
        BY <1>1, <1>7, BackedAfterInsert DEF Upsert
    <2> QED
        BY <1>q, <2>1
<1>8. CASE Stop
    <2>1. at' = "idle"
        BY <1>8 DEF Stop, Close
    <2>2. CASE at = "upsert" /\ Insert(ToSet(InBatch))
        BY <1>1, <1>q, <2>1, <2>2, BackedAfterInsert
    <2>3. CASE UNCHANGED <<meta, vec>>
        BY <1>1, <1>q, <2>1, <2>3, BackedUntouched
    <2> QED
        BY <1>8, <2>2, <2>3 DEF Stop
<1>9. CASE Delete
    <2>1. PICK p \in Page :
            /\ meta' = {m \in meta : m[1] \notin Ids(ToSet(chunks[p]))}
            /\ vec'  = {r \in vec : r.id \notin Ids(ToSet(chunks[p]))}
        BY <1>9 DEF Delete
    <2>2. Backed'
        BY <1>1, <2>1 DEF Backed
    <2>3. at' = "idle"
        BY <1>9 DEF Delete, task
    <2> QED
        BY <1>q, <2>2, <2>3
<1>10. CASE Edit \/ UNCHANGED vars
    <2>1. UNCHANGED <<meta, vec, at, op, queue, held>>
        BY <1>10 DEF Edit, vars, base, task
    <2>2. Backed' /\ InBatch' = InBatch
        BY <1>1, <2>1, BackedUntouched DEF InBatch
    <2> QED
        BY <1>1, <2>1, <2>2 DEF MetaBacked, Backed, Held
<1>11. CASE BeginIngest \/ Register \/ Resume \/ BeginInline \/ Resolve \/ Lookup
            \/ Transient \/ UpsertRefused \/ Finish
    <2>1. at' \notin {"store", "upsert"} /\ UNCHANGED <<meta, vec>>
        BY <1>11 DEF BeginIngest, Register, Resume, BeginInline, Resolve, Lookup, Transient,
                     UpsertRefused, Finish, Close, base
    <2> QED
        BY <1>1, <1>q, <2>1, BackedUntouched
<1> QED
    BY <1>2, <1>3, <1>4, <1>5, <1>6, <1>7, <1>8, <1>9, <1>10, <1>11 DEF Next

-----------------------------------------------------------------------------
(* An ingest misses no chunk.                                              *)

Covered ==
    \A c \in Live : \/ <<c.id, ver>> \in meta
                    \/ c \in ToSet(queue)
                    \/ c.id \in skipped

LEMMA UnderwayKept ==
    TypeInv /\ IdsDistinct /\ Underway /\ [Next]_vars => Underway'
<1> SUFFICES ASSUME TypeInv, IdsDistinct, Underway, [Next]_vars,
                    op' = "ingest", prov' # None, at' # "register"
             PROVE  ver' = active' /\ (at' # "scan" => Covered')
    BY DEF Underway, Covered
<1>u. op = "ingest" /\ prov # None /\ at # "register" =>
        ver = active /\ (at # "scan" => Covered)
    BY DEF Underway, Covered
<1>l. chunks' = chunks => Live' = Live
    BY DEF Live
<1>1. CASE Register
    BY <1>1 DEF Register
<1>2. CASE Scan
    BY <1>2, <1>u DEF Scan, TypeInv
<1>3. CASE ScanFails
    BY <1>3, <1>u DEF ScanFails, TypeInv
<1>4. CASE Resume
    <2>1. /\ UNCHANGED <<base, ver, active, op, prov, skipped>> /\ at = "scan"
        BY <1>4 DEF Resume
    <2>2. ver = active /\ Live' = Live /\ prov # None
        BY <1>u, <1>l, <2>1 DEF base
    <2>3. ToSet(queue') =
            ToSet(queue) \cup {c \in Missing : c.id \notin Ids(ToSet(queue))}
        BY <1>4, <2>2, Resumed
    <2>4. ASSUME NEW c \in Live PROVE <<c.id, ver>> \in meta \/ c \in ToSet(queue')
        <3>1. CASE c.id \in Ids(ToSet(queue))
            <4>1. PICK x \in ToSet(queue) : x.id = c.id
                BY <3>1 DEF Ids
            <4>2. c = x
                BY <4>1 DEF IdsDistinct
            <4> QED
                BY <2>3, <4>2
        <3>2. CASE c.id \notin Ids(ToSet(queue))
            BY <2>3, <3>2 DEF Missing
        <3> QED
            BY <3>1, <3>2
    <2> QED
        BY <2>1, <2>2, <2>4 DEF Covered, base
<1>5. CASE Lookup \/ Provide \/ Store
    <2>1. UNCHANGED <<base, ver, active, op, prov, queue, skipped>>
          /\ at \notin {"scan", "register"}
        BY <1>5 DEF Lookup, Provide, Store
    <2> QED
        BY <1>u, <1>l, <2>1 DEF Covered, base
<1>6. CASE Transient
    <2>1. UNCHANGED <<base, ver, active, op, prov>> /\ at = "provider"
        BY <1>6 DEF Transient
    <2>2. \/ UNCHANGED <<queue, skipped>>
          \/ queue' = Rest /\ skipped' = skipped \cup Ids(ToSet(InBatch))
        BY <1>6 DEF Transient
    <2>3. ver = active /\ Covered /\ Live' = Live
        BY <1>u, <1>l, <2>1 DEF base
    <2>4. ASSUME NEW c \in Live
          PROVE  <<c.id, ver>> \in meta \/ c \in ToSet(queue') \/ c.id \in skipped'
        BY <2>2, <2>3, Batches DEF Covered, Ids
    <2> QED
        BY <2>1, <2>3, <2>4 DEF Covered, base
<1>7. CASE Upsert
    <2>1. /\ UNCHANGED <<chunks, ver, active, op, prov, skipped>> /\ at = "upsert"
          /\ queue' = Rest
          /\ meta' = meta \cup {<<c.id, ver>> : c \in ToSet(InBatch)}
        BY <1>7 DEF Upsert, Insert
    <2>2. ver = active /\ Covered /\ Live' = Live
        BY <1>u, <1>l, <2>1
    <2>3. ASSUME NEW c \in Live
          PROVE  <<c.id, ver>> \in meta' \/ c \in ToSet(queue') \/ c.id \in skipped
        BY <2>1, <2>2, Batches DEF Covered
    <2> QED
        BY <2>1, <2>2, <2>3 DEF Covered
<1>8. CASE Edit \/ UNCHANGED vars
    <2>1. UNCHANGED <<base, ver, active, op, prov, at, queue, skipped>>
        BY <1>8 DEF Edit, vars, task
    <2> QED
        BY <1>u, <1>l, <2>1 DEF Covered, base
<1>9. CASE BeginIngest
    BY <1>9 DEF BeginIngest
<1>10. CASE BeginInline \/ Resolve \/ Persist
    BY <1>10 DEF BeginInline, Resolve, Persist, TypeInv, Inline
<1>11. CASE UpsertRefused \/ Finish \/ Stop
    BY <1>11 DEF UpsertRefused, Finish, Stop, Close
<1>12. CASE Delete
    BY <1>12 DEF Delete, task, TypeInv
<1> QED
    BY <1>1, <1>2, <1>3, <1>4, <1>5, <1>6, <1>7, <1>8, <1>9, <1>10, <1>11, <1>12 DEF Next

LEMMA NothingMissedKept ==
    IInv /\ [Next]_vars => (op # "none" => ended = "none")' /\ NothingMissed'
<1> SUFFICES ASSUME IInv, [Next]_vars
             PROVE  (op' # "none" => ended' = "none") /\ NothingMissed'
    OBVIOUS
<1>0. /\ TypeInv /\ IdsDistinct /\ NothingMissed
      /\ op # "none" => ended = "none"
      /\ at = "idle" <=> op = "none"
    BY DEF IInv, TypeInv
<1>1. CASE Finish
    <2>1. /\ op' = "none" /\ UNCHANGED <<base, active, skipped>>
          /\ ended' = IF op = "ingest" /\ prov # None THEN "embedded" ELSE "done"
          /\ at = "batch" /\ queue = <<>>
        BY <1>1 DEF Finish, Close
    <2>2. ASSUME op = "ingest", prov # None, NEW c \in Live
          PROVE  HasVec(c, active) \/ c.id \in skipped
        <3>1. ver = active /\ (<<c.id, ver>> \in meta \/ c.id \in skipped)
            BY <2>1, <2>2, ElementsOfEmpty DEF IInv, Underway
        <3>2. ASSUME <<c.id, ver>> \in meta PROVE HasVec(c, active)
            BY <3>1, <3>2 DEF IInv, MetaBacked, HasVec
        <3> QED
            BY <3>1, <3>2
    <2> QED
        BY <2>1, <2>2 DEF NothingMissed, HasVec, Live, base
<1>2. CASE Delete
    <2>1. PICK p \in Page :
            /\ chunks' = [chunks EXCEPT ![p] = <<>>]
            /\ vec'  = {r \in vec : r.id \notin Ids(ToSet(chunks[p]))}
        BY <1>2 DEF Delete
    <2>2. UNCHANGED <<active, skipped, ended, op>> /\ p \in Doc
        BY <1>2 DEF Delete, task, Doc
    <2>3. \A e \in Doc : ToSet(chunks[e])' = IF e = p THEN {} ELSE ToSet(chunks[e])
        BY <1>0, <2>1, <2>2, ElementsOfEmpty DEF TypeInv, TypeOK
    <2>4. ASSUME ended = "embedded", NEW c \in Live'
          PROVE  (\E r \in vec' : r.id = c.id /\ r.ver = active) \/ c.id \in skipped
        <3>1. PICK e \in Doc : e # p /\ c \in ToSet(chunks[e])
            BY <2>3, <2>4 DEF Live
        <3>2. c \in Live /\ c.id \notin Ids(ToSet(chunks[p]))
            BY <1>0, <2>2, <3>1 DEF Live, Ids, IdsDistinct
        <3>3. HasVec(c, active) \/ c.id \in skipped
            BY <1>0, <2>4, <3>2 DEF NothingMissed
        <3> QED
            BY <2>1, <3>2, <3>3 DEF HasVec
    <2> QED
        BY <1>0, <2>2, <2>4 DEF NothingMissed, HasVec
<1>3. CASE Edit \/ UNCHANGED vars
    BY <1>0, <1>3 DEF Edit, vars, base, task, NothingMissed, HasVec, Live
<1>4. CASE BeginIngest \/ BeginInline
    BY <1>4 DEF BeginIngest, BeginInline, NothingMissed
<1>5. CASE UpsertRefused \/ Stop
    BY <1>5 DEF UpsertRefused, Stop, Close, NothingMissed
<1>6. CASE Register \/ Scan \/ ScanFails \/ Resume \/ Resolve \/ Persist \/ Lookup \/ Provide
           \/ Transient \/ Store \/ Upsert
    <2>1. at # "idle" /\ ended' = ended
        BY <1>6 DEF Register, Scan, ScanFails, Resume, Resolve, Persist, Lookup, Provide,
                    Transient, Store, Upsert
    <2> QED
        BY <1>0, <2>1 DEF NothingMissed
<1> QED
    BY <1>1, <1>2, <1>3, <1>4, <1>5, <1>6 DEF Next

-----------------------------------------------------------------------------
(* The theorems.                                                           *)

LEMMA InitInv == Init => IInv
<1> SUFFICES ASSUME Init PROVE IInv
    OBVIOUS
<1>1. TypeInv
    BY InitTypes
<1>2. Live = {} /\ \A d \in Doc : ToSet(chunks[d]) = {}
    BY ElementsOfEmpty DEF Init, Live
<1> QED
    BY <1>1, <1>2, ElementsOfEmpty
       DEF Init, IInv, IdsDistinct, Honest, VectorsMatch, MetaBacked, Underway, NothingMissed

LEMMA InvKept == IInv /\ [Next]_vars => IInv'
BY TypesKept, IdsKept, HonestKept, MetaKept, UnderwayKept, NothingMissedKept DEF IInv

(* IInv holds from the start and every step of a task, of the writers and  *)
(* of the owner of dikw.yml keeps it.                                      *)
LEMMA Inductive == Spec => []IInv
BY InitInv, InvKept, PTL DEF Spec

(* Whatever is embedded again, replaced, deleted, skipped, cancelled or    *)
(* left by a dead process, the vector of a live chunk is of its own text   *)
(* and by its own version's identity, and the cache's entries are, unless  *)
(* dikw.yml was edited between two readings of one task (replace_chunks,   *)
(* upsert_embeddings, _embed_one_batch).                                   *)
THEOREM OwnVectorsOnly == Spec => []VectorsMatch
<1>1. IInv => VectorsMatch
    BY DEF IInv
<1> QED
    BY <1>1, Inductive, PTL

(* An ingest that embeds and ends without an error leaves every chunk with *)
(* a vector in the active version's table, but for those whose batch it    *)
(* skipped itself (the resume scan of api.ingest).                         *)
THEOREM NoneMissed == Spec => []NothingMissed
<1>1. IInv => NothingMissed
    BY DEF IInv
<1> QED
    BY <1>1, Inductive, PTL

-----------------------------------------------------------------------------
(* What is paid for.  A vector that was paid for is in the cache or on its *)
(* way there, or a mishap lost it; and what a batch asks for is neither,   *)
(* unless a mishap hid the cache from it.                                  *)

Cached(x)   == \E e \in cache : e.text = x[1] /\ e.ver = x[2]
OnItsWay(x) == at = "store" /\ ver = x[2] /\ Held(x[1])

PaidInv ==
    /\ mishaps \in Nat
    /\ paid \in [Text \X Identity -> Nat]
    /\ \A x \in Text \X Identity :
         /\ Cached(x) \/ OnItsWay(x) \/ paid[x] <= mishaps
         /\ paid[x] <= mishaps + 1
         /\ at = "provider" /\ ver = x[2] /\ Asked(x[1]) = 1 => paid[x] <= mishaps

(* Steps that pay for nothing and leave the cache no smaller, and after    *)
(* which no batch is at the provider or on its way to the cache.           *)
LEMMA NothingPaid ==
    ASSUME PaidInv, paid' = paid, mishaps' \in {mishaps, mishaps + 1},
           cache \subseteq cache',
           at' # "provider",
           \/ at # "store"
           \/ mishaps' = mishaps + 1
           \/ \A x \in Text \X Identity : OnItsWay(x) => Cached(x)'
    PROVE  PaidInv'
<1>1. \A x \in Text \X Identity : Cached(x) => Cached(x)'
    BY DEF Cached
<1>2. \A x \in Text \X Identity : Cached(x)' \/ OnItsWay(x)' \/ paid'[x] <= mishaps'
    BY <1>1 DEF PaidInv, OnItsWay
<1> QED
    BY <1>2 DEF PaidInv

(* What is in hand is in the cache once the cache has been written.        *)
LEMMA WrittenThrough ==
    ASSUME CacheWrite, NEW x, at = "store", OnItsWay(x)
    PROVE  Cached(x)'
<1>1. PICK h \in held : h.text = x[1]
    BY DEF OnItsWay, Held
<1>2. CASE \E e \in cache : e.ver = ver /\ e.text = h.text
    BY <1>1, <1>2 DEF CacheWrite, Cached, OnItsWay
<1>3. CASE \A e \in cache : e.ver = ver => e.text # h.text
    <2>1. [text |-> h.text, ver |-> ver, by |-> h.by] \in cache'
        BY <1>3 DEF CacheWrite
    <2> QED
        BY <1>1, <2>1 DEF Cached, OnItsWay
<1> QED
    BY <1>2, <1>3

LEMMA PaidKept == PaidInv /\ [Next]_vars => PaidInv'
<1> SUFFICES ASSUME PaidInv, [Next]_vars PROVE PaidInv'
    OBVIOUS
<1>0. mishaps \in Nat
    BY DEF PaidInv
<1>1. CASE BeginIngest \/ Register \/ Scan \/ ScanFails \/ Resume \/
           BeginInline \/ Resolve \/ Persist
    <2>1. /\ at \notin {"provider", "store"} /\ at' \notin {"provider", "store"}
          /\ paid' = paid /\ cache' = cache /\ mishaps' \in {mishaps, mishaps + 1}
        BY <1>1 DEF BeginIngest, Register, Scan, ScanFails, Resume,
                    BeginInline, Resolve, Persist, counts
    <2> QED
        BY <2>1, NothingPaid
<1>2. CASE Lookup
    <2>1. /\ at = "batch" /\ at' = "provider" /\ paid' = paid /\ cache' = cache
          /\ UNCHANGED <<op, ver, queue>> /\ mishaps' \in {mishaps, mishaps + 1}
        BY <1>2 DEF Lookup
    <2>2. \A x \in Text \X Identity : Cached(x)' <=> Cached(x)
        BY <2>1 DEF Cached
    <2>3. ASSUME NEW x \in Text \X Identity, ver = x[2], Asked(x[1])' = 1
          PROVE  paid[x] <= mishaps'
        <3>1. CASE mishaps' = mishaps + 1
            BY <1>0, <3>1 DEF PaidInv
        <3>2. CASE mishaps' = mishaps
            <4>1. held' = {[text |-> e.text, by |-> e.by] :
                             e \in {y \in cache :
                                      y.ver = ver /\ y.text \in {c.text : c \in ToSet(InBatch)}}}
                BY <1>0, <1>2, <3>2 DEF Lookup
            <4>2. PICK c \in ToSet(InBatch) : c.text = x[1] /\ ~Held(c.text)'
                BY <2>1, <2>3 DEF Asked, Misses, InBatch
            <4>3. ~Cached(x)
                <5> SUFFICES ASSUME NEW e \in cache, e.text = x[1], e.ver = x[2]
                             PROVE  FALSE
                    BY DEF Cached
                <5>1. [text |-> e.text, by |-> e.by] \in held'
                    BY <2>3, <4>1, <4>2
                <5> QED
                    BY <4>2, <5>1 DEF Held
            <4> QED
                BY <2>1, <3>2, <4>3 DEF PaidInv, OnItsWay
        <3> QED
            BY <2>1, <3>1, <3>2
    <2>4. \A x \in Text \X Identity : Cached(x)' \/ paid'[x] <= mishaps'
        BY <1>0, <2>1, <2>2 DEF PaidInv, OnItsWay
    <2> QED
        BY <1>0, <2>1, <2>3, <2>4 DEF PaidInv
<1>3. CASE Provide
    <2>1. /\ at = "provider" /\ at' = IF Misses = {} THEN "upsert" ELSE "store"
          /\ held' = held \cup {[text |-> c.text, by |-> prov] : c \in Misses}
          /\ paid' = [x \in DOMAIN paid |->
                        IF x[2] = ver THEN paid[x] + Asked(x[1]) ELSE paid[x]]
          /\ cache' = cache /\ ver' = ver /\ mishaps' = mishaps
        BY <1>3 DEF Provide, counts
    <2>2. \A t : Asked(t) \in {0, 1}
        BY DEF Asked
    <2>3. paid' \in [Text \X Identity -> Nat]
        BY <2>1, <2>2 DEF PaidInv
    <2>4. ASSUME NEW x \in Text \X Identity
          PROVE  /\ Cached(x)' \/ OnItsWay(x)' \/ paid'[x] <= mishaps
                 /\ paid'[x] <= mishaps + 1
        <3>1. CASE ver = x[2] /\ Asked(x[1]) = 1
            <4>1. paid'[x] = paid[x] + 1 /\ paid[x] <= mishaps /\ paid[x] \in Nat
                BY <2>1, <3>1 DEF PaidInv
            <4>2. PICK c \in Misses : c.text = x[1]
                BY <3>1 DEF Asked
            <4>3. Held(x[1])'
                <5>1. [text |-> c.text, by |-> prov] \in held'
                    BY <2>1
                <5> QED
                    BY <4>2, <5>1 DEF Held
            <4> QED
                BY <1>0, <2>1, <3>1, <4>1, <4>2, <4>3 DEF OnItsWay
        <3>2. CASE ~(ver = x[2] /\ Asked(x[1]) = 1)
            <4>1. paid'[x] = paid[x]
                BY <2>1, <2>2, <3>2 DEF PaidInv
            <4> QED
                BY <2>1, <4>1 DEF PaidInv, OnItsWay, Cached
        <3> QED
            BY <3>1, <3>2
    <2> QED
        BY <1>0, <2>1, <2>3, <2>4 DEF PaidInv
<1>4. CASE Transient \/ Upsert \/ UpsertRefused \/ Finish \/ Delete
    <2>1. /\ at # "store" /\ at' # "provider"
          /\ paid' = paid /\ cache' = cache /\ mishaps' \in {mishaps, mishaps + 1}
        BY <1>4 DEF Transient, Upsert, UpsertRefused, Finish, Delete, Close,
                    counts, task
    <2> QED
        BY <2>1, NothingPaid
<1>5. CASE Store \/ Stop
    <2>1. /\ at' # "provider" /\ paid' = paid
          /\ \/ cache' = cache /\ mishaps' = mishaps + 1
             \/ CacheWrite /\ at = "store" /\ mishaps' \in {mishaps, mishaps + 1}
        BY <1>5 DEF Store, Stop, Close
    <2>2. CacheWrite => cache \subseteq cache'
        BY DEF CacheWrite
    <2> QED
        BY <2>1, <2>2, WrittenThrough, NothingPaid
<1>6. CASE Edit \/ UNCHANGED vars
    <2>1. UNCHANGED <<cache, task, paid, mishaps>>
        BY <1>6 DEF Edit, vars, counts
    <2> QED
        BY <2>1 DEF PaidInv, Cached, OnItsWay, Held, Asked, Misses, InBatch, task
<1> QED
    BY <1>1, <1>2, <1>3, <1>4, <1>5, <1>6 DEF Next

(* Cache and deduplication keep from the provider what it has returned     *)
(* before: a text is paid for once under an identity, and once more at     *)
(* most for every fault, cancel or crash (_embed_one_batch).               *)
THEOREM PaidOnceEach == Spec => []PaidOnce
<1>1. Init => PaidInv
    BY DEF Init, PaidInv
<1>2. PaidInv => PaidOnce
    BY DEF PaidInv, PaidOnce
<1> QED
    BY <1>1, <1>2, PaidKept, PTL DEF Spec
===============================================================================

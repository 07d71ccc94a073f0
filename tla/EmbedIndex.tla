----------------------------- MODULE EmbedIndex -----------------------------
(***************************************************************************)
(* The vectors of a base: how the chunks of documents get them, which      *)
(* vector space they are in, and what a later ingest makes up for.         *)
(*                                                                         *)
(* Every text embedding identity (endpoint, model, revision, ...) that an  *)
(* ingest has registered has a vector table of its own; the active one is  *)
(* searched.  Only ingest registers and activates; synth, lint apply and   *)
(* wisdom write embed inline, the pages they touch, under the active       *)
(* version, and not at all when the configuration has drifted from it.     *)
(* A batch whose provider fails transiently is retried and then skipped;   *)
(* an ingest ends with a scan for chunks that the version has no meta row  *)
(* for: those of skipped batches, of crashed runs, of pages written        *)
(* without vectors, and all of them after a change of version.             *)
(*                                                                         *)
(* ingest and synth are handed an embedder built from a first reading of   *)
(* dikw.yml and then read the file again (`mixed').  Tasks hold            *)
(* ingest_lock, so there is one at a time.  A storage call that was        *)
(* cancelled may still commit.                                             *)
(*                                                                         *)
(* Abstractions: a document's content is a number, its hash, and Cut says  *)
(* which texts it is chunked into; a vector is the text and the identity   *)
(* it was made by.  Persisting a document is one step (BaseIndex and       *)
(* PageIndex have its calls), and so is a synth of one page.  Identities   *)
(* have one dimension; another one is refused by upsert_embeddings.        *)
(***************************************************************************)
EXTENDS Naturals, Sequences, FiniteSets, SequencesExt

CONSTANTS
    File, Key,              \* source files; Key[f]: the document id of f
    Page,                   \* pages, which are written with their index
    MaxBody, Cut,           \* contents; Cut[v]: the texts of its chunks
    Identity,               \* embedding identities of the configuration
    None,
    Batch,                  \* embedding_batch_size, of ingest
    Retries,                \* embedding_error_retries
    MaxRuns, MaxEdits, MaxMishaps   \* bounds

VARIABLES
    text,                   \* text[f]: the content of the file
    cfg,                    \* the identity dikw.yml describes
    active,                 \* the active version, None before an ingest
    hash, shown,            \* hash[d]: of d's row, 0 for none; active rows
    chunks, lastId,         \* chunks[d]: its chunks; AUTOINCREMENT
    meta, vec,              \* chunk_embed_meta, the vec_chunks tables
    cache,                  \* embed_cache
    op, at,                 \* the task and its await
    prov, ver,              \* who makes its vectors, their version
    todo, page,             \* files to scan; the page it writes
    queue,                  \* chunks to embed
    held, tries,            \* the batch: vectors in hand, attempts made
    skipped,                \* chunk ids of skipped batches
    ended,                  \* how the last task ended
    mixed,                  \* dikw.yml changed between two readings
    paid,                   \* paid[t, i]: vectors of t that i has returned
    runs, edits, mishaps

base   == <<hash, shown, chunks, lastId, meta, vec>>
task   == <<op, at, prov, ver, todo, page, queue, held, tries, skipped, ended>>
counts == <<runs, edits, mishaps>>
vars   == <<text, cfg, active, base, cache, task, mixed, paid, counts>>

Body == 1..MaxBody
Text == UNION {ToSet(Cut[v]) : v \in Body}
Doc  == {Key[f] : f \in File} \cup Page
Inline == {"synth", "wisdom"}

ASSUME EmbedAssumption ==
    /\ MaxBody \in Nat \ {0} /\ {Batch, Retries} \subseteq Nat /\ Batch > 0
    /\ None \notin Identity \cup Page
    /\ Cut \in [Body -> Seq(Text)]

Live   == UNION {ToSet(chunks[d]) : d \in Doc}
Ids(s) == {c.id : c \in s}
HasVec(c, i) == \E r \in vec : r.id = c.id /\ r.ver = i

Init ==
    /\ text = [f \in File |-> 1] /\ cfg \in Identity /\ active = None
    /\ hash = [d \in Doc |-> 0] /\ shown = {}
    /\ chunks = [d \in Doc |-> <<>>] /\ lastId = 0
    /\ meta = {} /\ vec = {} /\ cache = {}
    /\ op = "none" /\ at = "idle" /\ prov = None /\ ver = None
    /\ todo = {} /\ page = None /\ queue = <<>> /\ held = {} /\ tries = 0
    /\ skipped = {} /\ ended = "none" /\ mixed = FALSE
    /\ paid = [x \in Text \X Identity |-> 0]
    /\ runs = 0 /\ edits = 0 /\ mishaps = 0

-----------------------------------------------------------------------------
(* The storage calls.                                                      *)

(* Mutant: chunk_id without AUTOINCREMENT, the next free one.              *)
FromHighest(d) ==
    LET others == Ids(UNION {ToSet(chunks[e]) : e \in Doc \ {d}})
    IN IF others = {} THEN 0 ELSE CHOOSE i \in others : \A j \in others : j <= i

(* replace_chunks numbers the new chunks from here.                        *)
NumberedFrom(d) == lastId

NewChunks(d, v) ==
    [i \in DOMAIN Cut[v] |-> [id |-> NumberedFrom(d) + i, text |-> Cut[v][i]]]

(* Foreign keys take the meta rows of the old chunks; their vectors stay   *)
(* in the virtual tables.                                                  *)
ReplaceChunks(d, v) ==
    /\ chunks' = [chunks EXCEPT ![d] = NewChunks(d, v)]
    /\ lastId' = lastId + Len(Cut[v])
    /\ meta'   = {m \in meta : m[1] \notin Ids(ToSet(chunks[d]))}

(* What is written for a chunk: the vector in hand of its text.            *)
VectorsOf(c) ==
    {[id |-> c.id, ver |-> ver, text |-> h.text, by |-> h.by] :
       h \in {g \in held : g.text = c.text}}

(* One transaction writes meta rows and vectors; a chunk that is gone      *)
(* fails its foreign key.                                                  *)
Insertable(cs) == Ids(cs) \subseteq Ids(Live)
Insert(cs) ==
    /\ Insertable(cs)
    /\ meta' = meta \cup {<<c.id, ver>> : c \in cs}
    /\ vec'  = {r \in vec : r.ver # ver \/ r.id \notin Ids(cs)} \cup
               UNION {VectorsOf(c) : c \in cs}

(* INSERT OR IGNORE.                                                       *)
CacheWrite ==
    cache' = cache \cup {[text |-> h.text, ver |-> ver, by |-> h.by] :
                           h \in {g \in held : \A e \in cache : e.ver = ver => e.text # g.text}}

(* Mutant: only the chunks without a vector anywhere.                      *)
MissingAny == {c \in Live : \A m \in meta : m[1] # c.id}

(* list_chunks_missing_embedding.                                          *)
Missing == {c \in Live : <<c.id, ver>> \notin meta}

-----------------------------------------------------------------------------
(* Tasks.                                                                  *)

Close(how) ==
    /\ op' = "none" /\ at' = "idle" /\ prov' = None /\ ver' = None
    /\ todo' = {} /\ page' = None /\ queue' = <<>> /\ held' = {} /\ tries' = 0
    /\ ended' = how

(* The runner reads dikw.yml and builds the embedder, or is told not to.   *)
BeginIngest ==
    /\ at = "idle" /\ runs < MaxRuns /\ runs' = runs + 1
    /\ op' = "ingest" /\ at' = "register" /\ prov' \in {cfg, None}
    /\ skipped' = {} /\ ended' = "none"
    /\ UNCHANGED <<text, cfg, active, base, cache, ver, todo, page, queue, held, tries,
                   mixed, paid, edits, mishaps>>

(* api.ingest reads dikw.yml and makes what it describes the active        *)
(* version.                                                                *)
Register ==
    /\ at = "register" /\ at' = "scan" /\ todo' = File
    /\ IF prov = None
         THEN UNCHANGED <<active, ver, mixed>>
         ELSE active' = cfg /\ ver' = cfg /\ mixed' = (mixed \/ prov # cfg)
    /\ UNCHANGED <<text, cfg, base, cache, op, prov, page, queue, held, tries, skipped,
                   ended, paid, counts>>

First(s) == CHOOSE f \in s : TRUE

(* A file whose row is active and current is passed over; any other is     *)
(* persisted and its chunks are queued.                                    *)
Scan ==
    /\ at = "scan" /\ todo # {}
    /\ LET file == First(todo)
           d == Key[file]
       IN /\ todo' = todo \ {file}
          /\ IF hash[d] = text[file] /\ d \in shown
               THEN UNCHANGED <<base, queue>>
               ELSE /\ hash' = [hash EXCEPT ![d] = text[file]] /\ shown' = shown \cup {d}
                    /\ ReplaceChunks(d, text[file])
                    /\ queue' = IF prov = None THEN queue
                                ELSE queue \o NewChunks(d, text[file])
                    /\ UNCHANGED vec
    /\ UNCHANGED <<text, cfg, active, cache, op, at, prov, ver, page, held, tries, skipped,
                   ended, mixed, paid, counts>>

(* A call of persist_source raises: the row is deactivated, its chunks are *)
(* the old ones or the new ones, and the scan goes on.                     *)
ScanFails ==
    /\ at = "scan" /\ todo # {} /\ mishaps < MaxMishaps /\ mishaps' = mishaps + 1
    /\ LET file == First(todo)
           d == Key[file]
       IN /\ ~(hash[d] = text[file] /\ d \in shown)
          /\ todo' = todo \ {file}
          /\ hash' = [hash EXCEPT ![d] = text[file]] /\ shown' = shown \ {d}
          /\ \/ ReplaceChunks(d, text[file])
             \/ UNCHANGED <<chunks, lastId, meta>>
    /\ UNCHANGED <<text, cfg, active, vec, cache, op, at, prov, ver, page, queue, held,
                   tries, skipped, ended, mixed, paid, runs, edits>>

(* The resume scan: what is missing and not queued yet.                    *)
Resume ==
    /\ at = "scan" /\ todo = {}
    /\ at' = "batch"
    /\ LET more == {c \in Missing : c.id \notin Ids(ToSet(queue))}
       IN IF prov = None THEN UNCHANGED queue
          ELSE \E q \in [1..Cardinality(more) -> more] :
                 /\ ToSet(q) = more
                 /\ \A k, l \in DOMAIN q : k < l => q[k].id < q[l].id
                 /\ queue' = queue \o q
    /\ UNCHANGED <<text, cfg, active, base, cache, op, prov, ver, todo, page, held, tries,
                   skipped, ended, mixed, paid, counts>>

(* A page is written, by synth with the embedder its runner built, or by   *)
(* wisdom write or lint apply, which build their own when they resolve.    *)
BeginInline ==
    /\ at = "idle" /\ runs < MaxRuns /\ runs' = runs + 1
    /\ op' \in Inline /\ at' = "resolve" /\ page' \in Page
    /\ prov' \in IF op' = "synth" THEN {cfg, None} ELSE {None}
    /\ skipped' = {} /\ ended' = "none"
    /\ UNCHANGED <<text, cfg, active, base, cache, ver, todo, queue, held, tries, mixed,
                   paid, edits, mishaps>>

(* Mutant: the active version whatever the configuration says.             *)
DriftAccepted == active # None

(* _resolve_active_text_version_for_inline_embed.                          *)
Usable == active # None /\ cfg = active

Resolve ==
    /\ at = "resolve" /\ at' = "persist"
    /\ \E by \in IF op = "synth" THEN {prov} ELSE {cfg, None} :
         IF by # None /\ Usable
           THEN prov' = by /\ ver' = active /\ mixed' = (mixed \/ (op = "synth" /\ by # cfg))
           ELSE prov' = None /\ UNCHANGED <<ver, mixed>>
    /\ UNCHANGED <<text, cfg, active, base, cache, op, todo, page, queue, held, tries,
                   skipped, ended, paid, counts>>

Persist ==
    /\ at = "persist" /\ at' = "batch"
    /\ \E v \in Body :
         /\ hash' = [hash EXCEPT ![page] = v] /\ shown' = shown \cup {page}
         /\ ReplaceChunks(page, v)
         /\ queue' = IF prov = None THEN <<>> ELSE NewChunks(page, v)
    /\ UNCHANGED <<text, cfg, active, vec, cache, op, prov, ver, todo, page, held, tries,
                   skipped, ended, mixed, paid, counts>>

-----------------------------------------------------------------------------
(* The batches of embed_chunks and consume_embedding_stream.               *)

InBatch == IF op = "ingest" /\ Len(queue) > Batch THEN SubSeq(queue, 1, Batch) ELSE queue
Rest    == SubSeq(queue, Len(InBatch) + 1, Len(queue))
Held(t) == \E h \in held : h.text = t
Misses  == {c \in ToSet(InBatch) : ~Held(c.text)}

(* Mutant: each chunk that missed is sent, its text twice or not.          *)
EachMiss(t) == Cardinality({c \in Misses : c.text = t})

(* A text that several chunks missed is sent once.                         *)
Asked(t) == IF \E c \in Misses : c.text = t THEN 1 ELSE 0

(* The cache is asked; if that raises the batch goes on without it.        *)
Lookup ==
    /\ at = "batch" /\ queue # <<>> /\ at' = "provider"
    /\ \/ held' = {[text |-> e.text, by |-> e.by] :
                     e \in {x \in cache : x.ver = ver /\ x.text \in {c.text : c \in ToSet(InBatch)}}}
          /\ UNCHANGED mishaps
       \/ held' = {} /\ mishaps < MaxMishaps /\ mishaps' = mishaps + 1
    /\ UNCHANGED <<text, cfg, active, base, cache, op, prov, ver, todo, page, queue, tries,
                   skipped, ended, mixed, paid, runs, edits>>

(* The misses go to the provider.                                          *)
Provide ==
    /\ at = "provider" /\ at' = IF Misses = {} THEN "upsert" ELSE "store"
    /\ held' = held \cup {[text |-> c.text, by |-> prov] : c \in Misses}
    /\ paid' = [x \in DOMAIN paid |->
                  IF x[2] = ver THEN paid[x] + Asked(x[1]) ELSE paid[x]]
    /\ UNCHANGED <<text, cfg, active, base, cache, op, prov, ver, todo, page, queue, tries,
                   skipped, ended, mixed, counts>>

(* TransientProviderError: the batch is tried again, from its cache        *)
(* lookup, and skipped after the last attempt.                             *)
Transient ==
    /\ at = "provider" /\ Misses # {} /\ mishaps < MaxMishaps /\ mishaps' = mishaps + 1
    /\ at' = "batch" /\ held' = {}
    /\ IF tries < Retries
         THEN tries' = tries + 1 /\ UNCHANGED <<queue, skipped>>
         ELSE /\ tries' = 0 /\ queue' = Rest
              /\ skipped' = skipped \cup Ids(ToSet(InBatch))
    /\ UNCHANGED <<text, cfg, active, base, cache, op, prov, ver, todo, page, ended, mixed,
                   paid, runs, edits>>

(* The new vectors go to the cache; if that raises it is passed over.      *)
Store ==
    /\ at = "store" /\ at' = "upsert"
    /\ \/ CacheWrite /\ UNCHANGED mishaps
       \/ UNCHANGED cache /\ mishaps < MaxMishaps /\ mishaps' = mishaps + 1
    /\ UNCHANGED <<text, cfg, active, base, op, prov, ver, todo, page, queue, held, tries,
                   skipped, ended, mixed, paid, runs, edits>>

Upsert ==
    /\ at = "upsert" /\ at' = "batch"
    /\ Insert(ToSet(InBatch))
    /\ queue' = Rest /\ held' = {} /\ tries' = 0
    /\ UNCHANGED <<text, cfg, active, hash, shown, chunks, lastId, cache, op, prov, ver,
                   todo, page, skipped, ended, mixed, paid, counts>>

(* The foreign key fails: the stream raises and the ingest with it.        *)
UpsertRefused ==
    /\ at = "upsert" /\ ~Insertable(ToSet(InBatch))
    /\ Close("refused")
    /\ UNCHANGED <<text, cfg, active, base, cache, skipped, mixed, paid, counts>>

Finish ==
    /\ at = "batch" /\ queue = <<>>
    /\ Close(IF op = "ingest" /\ prov # None THEN "embedded" ELSE "done")
    /\ UNCHANGED <<text, cfg, active, base, cache, skipped, mixed, paid, counts>>

(* A call raises, the task is cancelled, or the process dies.  The call    *)
(* may have committed; whoever wrote a page deactivates it, unless it is   *)
(* dead.  A scan is left with the file's row inactive.                     *)
Stop ==
    /\ at # "idle" /\ mishaps < MaxMishaps /\ mishaps' = mishaps + 1
    /\ \/ UNCHANGED <<meta, vec, cache>>
       \/ at = "store" /\ CacheWrite /\ UNCHANGED <<meta, vec>>
       \/ at = "upsert" /\ Insert(ToSet(InBatch)) /\ UNCHANGED cache
    /\ \/ UNCHANGED shown
       \/ /\ op \in Inline /\ at \notin {"resolve", "persist"}
          /\ shown' = shown \ {page}
    /\ Close("failed")
    /\ UNCHANGED <<text, cfg, active, hash, chunks, lastId, skipped, mixed, paid, runs, edits>>

(* delete_document, which takes the vectors too.                           *)
Delete ==
    /\ at = "idle" /\ runs < MaxRuns /\ runs' = runs + 1
    /\ \E p \in Page :
         /\ hash[p] # 0
         /\ hash' = [hash EXCEPT ![p] = 0] /\ shown' = shown \ {p}
         /\ chunks' = [chunks EXCEPT ![p] = <<>>]
         /\ meta' = {m \in meta : m[1] \notin Ids(ToSet(chunks[p]))}
         /\ vec'  = {r \in vec : r.id \notin Ids(ToSet(chunks[p]))}
    /\ UNCHANGED <<text, cfg, active, lastId, cache, task, mixed, paid, edits, mishaps>>

(* The user edits a source file, or dikw.yml.                              *)
Edit ==
    /\ edits < MaxEdits /\ edits' = edits + 1
    /\ \/ /\ \E f \in File, v \in Body : text[f] # v /\ text' = [text EXCEPT ![f] = v]
          /\ UNCHANGED cfg
       \/ cfg' \in Identity \ {cfg} /\ UNCHANGED text
    /\ UNCHANGED <<active, base, cache, task, mixed, paid, runs, mishaps>>

Next ==
    \/ BeginIngest \/ Register \/ Scan \/ ScanFails \/ Resume
    \/ BeginInline \/ Resolve \/ Persist
    \/ Lookup \/ Provide \/ Transient \/ Store \/ Upsert \/ UpsertRefused
    \/ Finish \/ Stop \/ Delete \/ Edit

Spec == Init /\ [][Next]_vars

-----------------------------------------------------------------------------
(* Properties.                                                             *)

(* The type invariant: meta rows are of live chunks, vectors of any chunk  *)
(* there has been (the schema's foreign keys, replace_chunks).             *)
Vector == [id : 1..lastId, ver : Identity, text : Text, by : Identity]
TypeOK ==
    /\ text \in [File -> Body] /\ cfg \in Identity /\ active \in Identity \cup {None}
    /\ hash \in [Doc -> 0..MaxBody] /\ shown \subseteq {d \in Doc : hash[d] # 0}
    /\ chunks \in [Doc -> Seq([id : 1..lastId, text : Text])]
    /\ meta \subseteq Ids(Live) \X Identity
    /\ vec \subseteq Vector
    /\ cache \subseteq [text : Text, ver : Identity, by : Identity]
    /\ op \in {"none", "ingest"} \cup Inline
    /\ at \in {"idle", "register", "scan", "resolve", "persist", "batch", "provider",
               "store", "upsert"}
    /\ {prov, ver} \subseteq Identity \cup {None}

(* The vector a live chunk has in a version's table is of the chunk's own  *)
(* text and was made by that version's identity, and so is what the cache  *)
(* holds, as long as dikw.yml is not edited between the two readings of    *)
(* one task (_resolve_active_text_version_for_inline_embed,                *)
(* replace_chunks, _embed_one_batch).                                      *)
VectorsMatch ==
    ~mixed =>
        /\ \A r \in vec, c \in Live : r.id = c.id => r.text = c.text /\ r.by = r.ver
        /\ \A e \in cache : e.by = e.ver

(* When an ingest that embeds has ended without an error, every chunk of   *)
(* the base has a vector in the active table but those whose batch this    *)
(* ingest itself skipped, whatever crashed, was cancelled, was written     *)
(* without vectors or changed version before (the resume scan of           *)
(* api.ingest).                                                            *)
NothingMissed ==
    ended = "embedded" => \A c \in Live : HasVec(c, active) \/ c.id \in skipped

(* The provider returns a vector for the same text and version once, and   *)
(* once more at most for every fault, cancel or crash: cache and the       *)
(* deduplication in a batch keep the rest away from it                     *)
(* (_embed_one_batch).                                                     *)
PaidOnce == \A x \in DOMAIN paid : paid[x] <= 1 + mishaps

(* The resume scan is there so that a half embedded base is finished by a  *)
(* later ingest (api_ingest.py:402-410): an ingest that meets no fault     *)
(* gets to the end.                                                        *)
IngestEnds == ended # "refused"
=============================================================================

# A TLA+ development of dikw-core

dikw-core is a knowledge engine behind an HTTP server. Documents are imported
into a base directory (D), chunked, embedded and indexed (I), synthesised into
linked knowledge pages (K) and distilled into wisdom pages (W). Everything that
writes runs as an asynchronous task whose events a client follows.

These modules model the parts of it whose correctness rests on the order of
things (awaits, worker threads, cancels, crashes, failing calls, several
processes on one file) or on two pieces of code agreeing with each other. TLC
checks them on small instances; TLAPS proves every safety property that the
runs check, for every size and every bound. Paths of code are under
`src/dikw_core/`, those of docs and tests under the root of the repository.

## 1. Inventory

### The parts, their state, their operations

| part | state | operations | modelled |
|---|---|---|---|
| Task manager, `server/tasks/manager.py` | `_running` (the coroutines), cancel tokens, one Condition per task | `submit`, `_run`, `cancel`, `shutdown`, `restart_cleanup`, `condition_for` | `TaskManager` |
| Task store, `server/tasks/store*.py`, `events.py` | a row and an event tape per task, in SQLite or PostgreSQL | `create`, `get`, `update_status`, `append_event`, `list_events`, `max_seq`, `list_running`, `list_tasks` | `TaskStore`, `TaskFollow`; not `list_tasks` |
| Task routes, `server/routes_tasks.py` | none | submit and cancel (into the manager), `GET events` long poll, listings, `/result` | `TaskFollow` (long poll) |
| Following client, `client/task_follow.py` | cursor, quiet-poll counter | `follow_to_terminal` | `TaskFollow` |
| Runtime, `server/runtime.py` | the wired server, `ingest_lock`, the base id file | `build_runtime` (cleanup, reaping), `close_runtime`, `_base_scope_id` | in `TaskManager`, `ImportCommit`; not `_base_scope_id` |
| Import, `server/routes_import.py` | `sources/`, `.dikw/staging/<id>`, `*.bak.import` | receive, verify, commit package by package, undo | `ImportCommit` |
| Task runners, `server/*_op.py` | none (they hold `ingest_lock`) | one runner per operation | as the manager sees them in `TaskManager`; what they do in `BaseIndex`, `Synth`, `LintApply`, `EmbedIndex` |
| Ingest, `api_ingest.py`, `domains/data` | document rows, chunks, log | scan, skip unchanged, `persist_source`, deactivate on failure, embed, resume | `BaseIndex`, `EmbedIndex` |
| Embedding, `domains/info/embed.py` | versions, vectors, embed cache | register, batches, retry, skip, upsert, inline embedding | `EmbedIndex`; not the assets' side |
| Knowledge pages, `domains/knowledge/page_index.py` | page files, rows and what hangs on them | `_persist_layered_page`, five calls that commit one by one | `PageIndex` |
| Synthesis, `api_synth.py` | `synth_source_done/failed` markers and the sentinel in the log | fold, backfill, sources, pages, handlers | `Synth` |
| Lint, `domains/knowledge/lint_fix.py`, `lint_fixers/` | proposals | propose, apply in phases | `LintApply` |
| Links, `domains/knowledge/links.py`, `api_graph.py` | none; indexes built from the rows | `build_title_indexes`, `build_fuzzy_index`, `resolve_links`, the graph view's resolver | `Wikilinks` |
| Search, `domains/info/search.py` | none; it reads the index while others write | embed the query, legs, fusion, penalty, rerank, rows | `Fusion`, `Retrieve` |
| Codex tokens, `providers/codex_auth.py` | `auth.json`, its lock file, codex CLI's file | locked refresh, atomic write, migration, import, login, logout | `CodexAuth` |
| Wisdom, `api_wisdom.py` | wisdom pages | write, delete | only as pages of `PageIndex`, `EmbedIndex`, `Wikilinks` |
| Index storage, `storage/` | SQLite or PostgreSQL index | upserts, replaces, searches | the calls the modules above make; SQL not |
| Providers, other routes, CLI, evaluation, prompts, schemas, configuration, telemetry | none of interest | adapters, rendering, offline metrics, declarations | no, see section 7 |

### How they interact

A request handler calls `TaskManager.submit`, which inserts a PENDING row and
creates the coroutine `_run`. `_run` awaits store calls, each of which runs in
a worker thread on a connection of its own, and the runner; the runner reports
progress through the same store and, for writers, holds `ingest_lock`. Every
append notifies the task's Condition, on which long polls wait. The client
polls, page by page, until it sees a final event or a terminal row without
one. At boot, `restart_cleanup` fails what an earlier process left unfinished
and `_cleanup_orphan_staging` wipes staging.

Import moves files into the tree that ingest later scans; both hold
`ingest_lock`, as do delete, synth, lint apply and wisdom writes. All of these
change one index by calls that commit one by one, and leave a row active or
inactive to say whether the rest may be seen. Ingest alone chooses the active
embedding version; the others embed under it. Searches take no lock: they read
the index in several calls while any of the others writes it. Token refresh is
shared with other dikw processes and, through a copied file, with codex CLI.

### What is hard, and what correct means

* **A cancel does not stop a worker thread.** The call it interrupts may commit
  afterwards, behind the coroutine's back and in any order with the calls of
  the arm that handles the cancel. Correct: a terminal row never changes
  (`TerminalIsFinal`), nothing follows a final (`TapeShape`), a final agrees
  with the row (`FinalMatchesRow`), the cancel arm's re-read is not stale
  (`CancelArmReads`).
* **Everything may die between two awaits**, the cleanup of the next boot
  included. Correct: once cleanup is over nothing of an earlier process is left
  unfinished (`OrphansReaped`); an undisturbed task settles (`Settles`).
* **A reader has no snapshot.** The long poll reads row, page, row and highest
  seq with separate calls. Correct: every event is rendered once, in order
  (`RenderedOnce`), none but a late final is missed (`OnlyFinalMissed`), the
  answer is the row's (`ResultMatchesRow`), lost notifies delay but do not stop
  (`Delivered`), and a missing final does not hang the client (`FollowEnds`).
  A search reads the index in up to eight calls. Correct: what it answers was
  visible at some moment (`HiddenStaysHidden`) and nothing is lost on the way
  to the answer (`Complete`).
* **A package is many renames.** Correct: all of its files or none
  (`PackageAtomic`), originals are never lost (`OriginalsSurvive`), a later
  package does not undo an earlier one (`CommittedInPlace`).
* **Persisting a document or a page is several transactions**, and the first
  writes the row as active with the new hash, so that the next ingest skips it.
  Correct: a failing call is made up for (`OneFailureHides`,
  `HalfWrittenHidden`); an ingest that ends without error has indexed what it
  read, whatever earlier tasks left (`IngestIndexes`); a delete that stops
  half-way leaves a file without a row, never a row without a file
  (`NoStrandedRow`, `RowsKeepFiles`).
* **The log decides what a later synth skips.** Correct: no source is skipped
  that was never worked through (`SkipsOnlyFinished`), and none whose page a
  failure took down (`NoPageStranded`).
* **Proposals are older than their application.** Correct: what the owner of a
  vault writes meanwhile is not overwritten (`EditsSurvive`), a proposal that is
  out of date does nothing at all (`ProposalAtomic`), and the links stored
  afterwards for the pages it relinks are those of the pages as they are
  (`LinksCurrent`).
* **Vectors outlive what they were made of.** Correct: a live chunk's vector is
  of its text and of its version (`VectorsMatch`), a later ingest makes up for
  whatever has none (`NothingMissed`), and the provider is not paid twice
  (`PaidOnce`).
* **A refresh token can be used once.** Correct: no two processes send the same
  one (`NeverReused`), and what is in the store is good (`StoreUsable`).
* **One question answered in four places.** Correct: a wikilink never names a
  page it should not (`NoWrongMerge`), and four resolvers over three different
  sets of documents disagree only where those sets do (`GraphAgrees`,
  `BatchNeverRetargets`).
* **Providers fail in two ways.** Correct: a search fails exactly when it must
  (`OutagesDegrade`), an ablation is one leg's answer (`AblationPure`), and the
  penalty costs no document its place (`BestNeverDemoted`).

PROJECT.json lists each hazard at its line with the properties that cover it.

## 2. The modules

| module | models | state and actions against the code |
|---|---|---|
| `TaskLifecycle` | what the `TaskStore` protocol and the event schema promise of a task, whoever writes | abstract: `Accept`, `Start`, `Settle`, `Record`, `Conclude`; shares nothing with `TaskStore`, so that a fault there is a fault against it |
| `TaskStore` | `store_sqlite.py`, one transaction per operation | `status[t]` and `tape[t]` are the row and the events; `UpdateStatus` has the terminal guard, `AppendEvent` the final guard; `Execute` runs a call |
| `TaskManager` | `manager.py` and the boot part of `runtime.py` | `pc[t]` is the await `_run` is parked at, `reply[t]` what it will return; `WorkerDone` runs the call in its thread, `Resume`, `Throw`, `Reread` continue the coroutine by the tables `OnReturn`, `OnError`, `OnCancel`, which are the arms of the `try`; `late[t]` holds calls whose awaiter was cancelled; `Crash`, `Boot`, `ReapMark`, `ReapTell`, `Serve` are the process |
| `TaskFollow` | `get_events` and `follow_to_terminal` over `TaskLifecycle` | `stage` is the read the handler, or the step the client, does next; the task moves between any two |
| `ImportCommit` | `_commit_packages`, `_commit_one_file`, `_rollback_moved_files`, `discard_backup`, `_cleanup_orphan_staging` | one step per rename or unlink; `tree`, `backup`, `staged` are the files, `moved` and `already` the variables of the code |
| `BaseIndex` | `api_ingest.py` with `persist_source`, `api_delete.py`, the calls of `storage/` they make | `file[d]` is the file; `hash`, `active`, `chunks`, `refs` are the row and what hangs on it; `at` is the call awaited, `late` the calls whose awaiter was cancelled; `Return`, `Raise`, `Cancel` continue the task by the tables `After`, `AfterError`, `AfterCancel` |
| `PageIndex` | the rows of K and W pages, `_persist_layered_page` | `part[p]` is what chunks, links and provenance were taken from; `Execute` is one storage call, `AfterPersist` their order. Extended by the next two |
| `Synth` | `api_synth.py` | `done`, `failed`, `rows`, `sentinel` are the fold of the log; `Fold`, `Sentinel`, `Backfill`, then `Take`, `Groups`, `WritePage`, `Persist`, `LogPage`, `Mark` per source; `Hide`, `Report`, `Invalidate` are the handlers |
| `LintApply` | `run_lint_propose` (as choices of what the fixers propose) and `run_lint_apply` | `ops` are the operations of the proposals, `next` the one at hand; `Start` is the preflight, then an action per operation, `Seed`, `Take`, `Persist` (phases 1 and 1b), `Referrer` (phase 2); `listed` are the rows of both layers, `PathToDocId` those of knowledge, `resolver` is `title_to_path`; `Edit` and `OtherTask` are the others |
| `EmbedIndex` | `embed.py`, the embedding half of `api_ingest.py`, `_resolve_active_text_version_for_inline_embed`, the storage calls | `cfg` is what dikw.yml says, `active` the active version; `chunks`, `meta`, `vec`, `cache` are the tables; `Lookup`, `Provide` or `Transient`, `Store`, `Upsert` are the awaits of a batch |
| `CodexAuth` | `codex_auth.py`; the endpoint and codex CLI as it relies on them | `tokens` and `cli` are the two files, `lock` the lock file, `at[p]` where a process is in `resolve_access_token`; the endpoint numbers the pairs it mints |
| `Wikilinks` | `links.py`, the resolver in `api_graph.py`, the first-wins maps of lint apply and synth | a title is its word, whether it is a plural and whether it is spelt plainly; `Titles` (knowledge and wisdom), `ApplyMap` (the same), `SynthMap` (knowledge) are the indexes, `Resolve` and, over every layer, `GraphResolve` the resolvers |
| `Fusion` | reciprocal rank fusion, CombSUM, CombMNZ and the same-document penalty, as functions | scores are integers, multiples of every divisor that occurs; a sort lists the elements of a set by `InOrder`, each at the place that counts what is ahead of it |
| `Retrieve` | `HybridSearcher.search`, `_apply_rerank`, `_collect_graph_neighbors` | `pc` is the await; `leg` what each leg found, any ranking its join allows; `Upsert`, `ReplaceChunks`, `Hide`, `Delete` are the other tasks |
| `MC...` | values for TLC | |
| `..._proofs` | theorems, section 5 | |

`TaskManager` implements `TaskLifecycle` (`ImplementsContract`, checked and
proved); `TaskFollow` runs the client against `TaskLifecycle`, hence against
anything the manager can do. Definitions marked "Fault" or "Mutant" are not
used by any specification: each is a plausible bug that makes one property fail.

Choices worth knowing:

* `task.cancel()` and the delivery of its CancelledError are one step: between
  them only the awaited thread can act for the task, which the model has as
  `WorkerDone` before the cancel or `LateLands` after it; a second `cancel()`
  before delivery is absorbed.
* A cancel before the coroutine's first step ends it without running its body,
  not even `finally`: the row stays PENDING and `_running` keeps the key. The
  model has it; `OrphansReaped` says the next boot repairs the row.
* `restart_cleanup` is taken to run at every boot: it does for SQLite, for
  PostgreSQL only when `DIKW_TASK_REAP_ON_START` is set. A store call that
  raises in it aborts the boot, which is the step `Crash`.
* PostgreSQL: an abandoned call that is rolled back is a `LateLands` that never
  happens. An ambiguous error at COMMIT and several servers on one database
  are not modelled.
* Imports: contents are numbers (0 nothing, 1 original, k+1 brought by import
  k), and every import brings the same packages. Unpacking and the manifest's
  schema checks refuse before anything is moved; what they ensure is
  `PackagesAssumption`.
* `BaseIndex`, `Synth`, `LintApply`, `EmbedIndex`: one task at a time, because
  of `ingest_lock`. A content is a number that is also its hash, and what was
  cut from it is that number, so that `Whole` compares them. A call in its
  thread takes the connection's lock in any order with later ones and is lost
  when the connection is closed. Files are edited at any time.
* `BaseIndex`: a document that references assets (`Illustrated`) is never
  skipped, as in the code; the close may be cancelled too, which leaves late
  calls to the next task. `move_to_trash` and the embedding after the scan are
  one await each. A late `replace_chunk_asset_refs` is refused when the chunks
  are of another version: the code refuses it when they are other rows, so the
  model also lets it land after a repetition with the same content.
* `Synth`: the LLM is a choice of the pages a source yields and of their
  content; persisting works with `PageIndex`, embedding is an await that fails.
  The log is what the fold reads off it, which loses nothing the code looks at.
* `LintApply`: a title names pages exactly (the fuzzy part is `Wikilinks`), the
  paths of a proposal are distinct as in every fixer, and the order of paths is
  some fixed order, as `CHOOSE` gives it. Pages are of two layers: lint raises
  issues of both and proposes for both, apply refuses operations outside
  `knowledge/` but for purges and reindexing (`Sandboxed`), and relinks
  referrers among the knowledge pages only (`PathToDocId`).
* `Wikilinks`: `SynthMap` is the map when the batch's own pages are among the
  rows; a page the batch gives a new title keeps its old one in the code's map
  as well. A wisdom write resolves by the careful index with the page itself in
  it, which is `Titles` after `Persist`.
* `EmbedIndex`: a vector is the text and the identity that made it. Persisting
  is one step there; its steps are in the modules above.
* `CodexAuth`: tokens are the numbers under which the endpoint minted them; a
  refresh may or may not rotate. The lock's time limit, a dead process and a
  lost answer are one action, `GiveUp`, at any point.
* `Retrieve`: `shown` collects the chunks that were visible at some moment. The
  over-fetch for a layer filter, snippets and asset references are left out. The
  asset leg brings in chunks, however few images it found (`MaxPromoted`).
* All of it is the SQLite adapter.

## 3. The runs

| run | bounds | shows |
|---|---|---|
| `manager_safety` | 2 tasks, 1 report each, 2 cancels, 1 store fault, 1 crash or shutdown; a cleanup killed in its turn is in `manager_live` and the proofs | all safety properties of the manager and the refinement, under every interleaving of coroutines, threads and late writes |
| `manager_live` | 1 task, 3 cancels, 2 faults, 2 crashes | coroutines end, undisturbed tasks settle, cleanup settles the rest |
| `follow` | pages of 2 events, 6 events, 3 quiet polls | the follower renders the tape once, returns how the row ended, gets events without notifies, and ends |
| `import_safety` | 2 imports of 2 packages sharing an asset, 2 faults, 1 crash | packages are atomic, originals survive, committed files stay |
| `index_safety` | 2 documents, one with assets; 3 tasks, 1 edit, 2 cancels, 2 faults, 1 crash | a failure is hidden, an ingest indexes, no row loses its file |
| `synth_safety` | 2 sources sharing a page, one older than the markers; 3 runs, 1 error, cancel or death | half-written pages are hidden and found again, nothing is skipped that was not finished |
| `lint_safety` | 4 pages: two of each of two titles, one of them wisdom, one yet to be created; a knowledge or the wisdom page drifted (`MaxDrifted`); pages start with 3 of the 4 contents (`Earlier`); 2 proposals, 1 error, cancel, edit or other task | apply overwrites nobody, keeps rows with their files, leaves the links it computes current |
| `embed_safety` | 2 documents (one of two files) and a page, texts shared; 2 identities, batches of 2, 3 tasks, 2 edits, 2 mishaps | vectors match, nothing is missed, nothing is paid twice |
| `codex_safety` | 2 processes, codex CLI, 4 pairs | the refresh token is used once and the store stays usable |
| `links_agree` | 4 paths: two of knowledge, one of wisdom, one of a source; 3 words of the three kinds normalisation tells apart | the resolvers agree and never merge wrongly, in every state of the pages |
| `links_collision` | the same | **violation**, section 4 |
| `retrieve_safety` | 4 chunks of 2 documents, 2 hits per leg (of the asset leg, 2 chunks brought in; the code brings in all that show one of its images), 6 kinds of call, 2 writes in between | outages, ablations, the penalty, the rerank window and writers do what they should to an answer |

Why the bounds are enough. Tasks share the event loop, the shutdown and the
boot, and nothing else: two of them make every interference there is, and the
proofs cover any number. One task needs a cancel to leave the try block and a
second to leave the except arm; a third finds nothing new to leave. One fault
can hit any call; a second can hit the arm that handles the first (in
`manager_live`). Its two crashes let the cleanup itself be killed and repeated,
which the one crash of `manager_safety` does not: `TapeShape` and
`OrphansReaped` after it rest on the theorems of section 5.
A full page and a page that is cut short both occur with 2 events per page and
6 on the tape; 3 is the code's `_MAX_TERMINAL_WITHOUT_FINAL_POLLS`. For
imports, the first package has a file after the shared asset, so that it can
fail once the asset is moved; two imports let the second find backups and files
of a first that crashed; the second fault can hit the undo of the first. For
the index, a document with assets and one without are the two kinds the code
tells apart; three tasks are one that breaks something, one that finds it, and
one between or after them; the second fault or cancel can hit the handler of
the first. In synth, the shared page is the one whose marker two sources
decide on, and the third run reads the marker the second leaves after the
first failed. `HalfWrittenHidden` and `NoPageStranded` promise one mishap, and
that is the bound. In lint, two proposals are what can collide, and two pages
of one title, in one layer and across the two, what makes the first win; a page
that drifts in each layer reaches every kind of operation a layer has. For the vectors, two files that are one
document, a text that two chunks share and two identities are the ways a vector
may be mistaken; three tasks switch forth and back; the identities are
interchangeable, which the run uses (SYMMETRY). Two processes race for one
lock; four pairs let the token of a refresh expire and be refreshed again, with
codex CLI in between. For links, three pages are two that collide and a third
that may be named by mistake, a source document is what can shadow one of them;
the resolution of a link looks at the documents only, so every state of them is
every case. For searches, one document of two
chunks and one of one are what the penalty tells apart; two writes are one
between the legs and the rows and one more (re-index and hide, hide and
re-index, delete and re-create).

Deadlock is checked in every run but `embed_safety`, whose tasks and edits are
counted and come to an end, and `retrieve_safety`, whose search does. `Idle`,
`Over` and `Closed` are the states in which the other systems have nothing to
do, and say so in their guards.

The modules with state have a type invariant (`Retrieve`'s is the part of
`AnswerInv` that types legs, ranking, top and hits). Types are proved, alone or
as part of an inductive invariant (section 5); the runs spend their time on the
other properties.

### Fairness

`manager_live`: weak fairness of each task's coroutine (the event loop resumes
what is ready, and a runner ends), of its worker threads (SQLite's
`busy_timeout` bounds a call) and of the cleanup. Nothing is assumed of
submitters, cancellers, faults, crashes or reboots: the properties name them as
the ways out. `follow`: weak fairness of the handler and the client together;
the Condition wait ends after 0.5 s at the latest, which is what `Woken` and
`Reread` rely on, not the notify. Nothing is assumed of the task, and no
deadline is assumed to expire.

## 4. Findings

**A link two pages share may name a third** (`links_collision`).
`build_title_indexes` (`domains/knowledge/links.py:131-149`) drops a title two
pages bear, and says that the link is then refused because the pair lies under
its fuzzy key. The key a link is looked up by is stemmed, the key a page lies
under is not: with two pages titled "Networks" and one titled "Network",
`[[Networks]]` finds nothing under its exact title, looks up `network`, and
names the third page. The graph view refuses the same link. `NoWrongMerge`,
`GraphAgrees` and `BatchNeverRetargets` say what holds of all other links.
`Slips` is exactly this case: two pages bear the link itself, and its stem is
another key. A plural title that one page bears is not excused.

### Other disagreements of code and text

The following were found with the same modules. Each has a configuration that
TLC refutes, with the property named; they are not among the listed runs.

| configuration | property | what the code says, and does |
|---|---|---|
| `MCTaskManager_lostfinal` | `SucceededOwnsFinal` | a cancel that lands while the SUCCEEDED write is in its thread leaves the task without a final for ever: the cancel arm stays silent because "the succeeded arm owns the final" (`server/tasks/manager.py:321-322`), but that arm has been left. Followers recover by their fallback (`FollowEnds`) |
| `MCTaskManager_recancel` | `CancelledOwnsFinal` | a second cancel in the cancel arm loses the final, which "is the contract" (`:337-338`), although `cancel` is documented as idempotent (`:378`) |
| `MCImportCommit_shared` | `SharedFileAvailable` | the undo of a package removes an asset it shares with the next from the tree and does not return it to staging, so the next package is refused as well; `server/routes_import.py:412-416` calls skipping moved files safe |
| `MCImportCommit_orphan` | `OrphanStagingUncommitted` | an import that died may have changed `sources/`, half a package and stray `.bak.import` files included; `server/runtime.py:274` says "no commit happened" |
| `BaseIndex_resubmit` | `ResubmitRecovers` | a process that dies between `upsert_document` and `replace_chunks` leaves the row active with the new hash, and the next ingest takes it for unchanged; `docs/server.md:135-138` calls re-submitting the correct recovery. `IngestIndexes` says what does hold |
| `BaseIndex_cancelled` | `CancelStrandsNothing` | the interrupted upsert may commit after the deactivate that was to undo it; `docs/architecture.md:186-189` says a cancellation cannot strand such a row |
| `MCSynth_backfill` | `BackfillsOnlyLegacy` | `api_synth.py:171-176` says the sentinel is written on the first run, whatever it is; a first run with `--all` does not reach the code, and rows it leaves when it crashes are backfilled as done by the next. `SkipsOnlyFinished` says what holds |
| `MCLintApply_siblings` | `SiblingsAtomic` | the preflight of a proposal is to flag a path that a sibling proposal of the pass mutates (`lint_fix.py:744-752`, `1138-1140`), but all proposals are preflighted before any is applied: a second proposal may be broken off half-way |
| `MCLintApply_outlived` | `TitlesLive` | a pass that removes a page drops its title from the resolver, and `lint_fix.py:872-881` says referrers then "resolve to the live replacement instead of staying falsely orphaned"; but `title_to_path` keeps the first page of a title only (`:707-710`), so when that page is removed (`:884-886`) the links to another, untouched page of the same title are dropped. `LinksCurrent` excuses just this (`Outlived`) |
| `MCLintApply_wisdom` | `ReferrersRelinked` | phase 2 relinks the page whose broken link a proposal grounds, since otherwise "the source page's storage links" stay stale and the new page counts as an orphan (`lint_fix.py:1012-1020`); a wisdom page has issues like any other (`lint.py:331-343`) and proposals are made for them, but `path_to_doc_id` has knowledge pages only (`:698-705`), so the wisdom page is passed over (`:1035-1037`). `LinksCurrent` is about the pages that are relinked (`Relinked`) |
| `Wikilinks_graphview` | `GraphMatchesStore` | "Resolution semantics match the K-layer link store" (`api_graph.py:409-411`), but the view resolves over every layer (`:433`): a source document of the same title ends the search, or takes a link no page answers, as `tests/test_api_graph.py:214-236` and `:319-350` want it. `GraphAgrees` says where the two differ (`Shadowed`) and that they do nowhere else |
| `Wikilinks_synth` | `SynthReachesWisdom` | pages link across the two layers (`docs/getting-started.md:425-427`, `page_index.py:162-163`), but synth hands `persist_knowledge` a map of knowledge only (`api_synth.py:385-394`): a link to a wisdom page is not stored, or leads to a knowledge page of the same key, until another task persists the page. `BatchNeverRetargets` says what holds of knowledge targets |
| `MCEmbedIndex_twins` | `IngestEnds` | two files that are one document (names that differ in case or Unicode form) queue chunks of which the second replaces the first; the upsert fails its foreign key, and so does every later ingest that embeds both, although the resume scan is there so that a later ingest finishes (`api_ingest.py:393-404`) |
| `CodexAuth_logout` | `LogoutHolds` | a migration that looked before a login and saves after the logout undoes it; `codex_auth.py:733-736` says it "won't auto-undo a deliberate logout" |
| `MCRetrieve_hidden` | `NoHiddenHit` | `storage/sqlite.py:755-760` filters deactivated documents so that they do not leak into results; chunks that an image brings in are read without the filter |
| `MCRetrieve_silenced` | `DisabledLegHarmless` | `search.py:289-292` keeps legs of weight 0 out of CombMNZ's multiplier; a chunk that only such a leg found has no multiplier and the search raises a KeyError |
| `MCRetrieve_halfformed` | `NoHalfFormedHit` | `search.py:745-749` skips a chunk that is gone "rather than emit a half-formed Hit"; a document deleted after its chunk was read gives a hit without path and title |

Read off the code while modelling, without a property: the vectors of replaced
chunks stay in the tables and take places among the nearest (`vec_search` drops
them after the limit); the first-wins maps of synth and lint apply resolve a
title that a knowledge and a wisdom page share, which the docs say stays broken
(`docs/getting-started.md:425-427`); lint proposes updates, deletes and
provenance for wisdom pages that apply refuses as outside `knowledge/`, so that
those issues come back with every pass;
`[[networks]]` in lower case does not find a page "Networks"; the lock on the
token store times out after 30 s while the request under it may take longer,
phase by phase; the knowledge log is ordered by wall-clock time, so that a
clock set back can put a done marker before the failure it follows.

Known and not counted as findings: when appending the succeeded final raises,
a failed final stands on a SUCCEEDED row (`FinalMatchesRow` allows exactly
this, under a fault); a cancel before the first step strands a PENDING row
(`tests/server/test_task_manager.py` says so); a failed undo of an import is
best effort by its docstring; a second cancel in synth's handlers is accepted by
the comment at `api_synth.py:433-438`; a lost answer of the token endpoint costs
the login, which no client can prevent.

## 5. What is proved

Each theorem is of the form `Spec => []P`, for every value of the constants that
the named assumption allows; the bounds on faults, cancels, crashes, edits and
tasks are such constants, so that the theorems hold for any number of them.

| module, assumption | theorem | property |
|---|---|---|
| `TaskManager_proofs`, `BoundsAssumption` | `TypeCorrect` | `TypeOK` |
| | `CancelArm` | `CancelArmReads` |
| | `NoOrphans` | `OrphansReaped` |
| | `FinalAgrees` | `FinalMatchesRow` |
| | `Implements` | `ImplementsContract`: the manager refines `TaskLifecycle` |
| | `TapesShaped`, `TerminalRows` | `TapeShape`, `TerminalIsFinal`, from the contract's own `ShapeInvariant`, `TerminalImmutable` |
| `Routes_proofs`, `PackagesAssumption` | `AllOrNothing` | `PackageAtomic` |
| | `NothingLost` | `OriginalsSurvive` |
| | `CommitsStay` | `CommittedInPlace` |
| `Routes_proofs`, `FollowAssumption` | `RendersOnce` | `RenderedOnce` |
| | `MissesOnlyFinals` | `OnlyFinalMissed` |
| | `ReturnsTheEnd` | `ResultMatchesRow` |
| | `NeverRefused` | `NotRefused`: no cursor of the client is out of range |
| `BaseIndex_proofs`, `BaseAssumption` | `TypeCorrect` | `TypeOK` |
| | `RowsHaveFiles` | `NoStrandedRow` |
| | `OneFailureIsHidden` | `OneFailureHides` |
| | `IngestCompletes` | `IngestIndexes` |
| `EmbedIndex_proofs`, `EmbedAssumption` | `OwnVectorsOnly` | `VectorsMatch` |
| | `NoneMissed` | `NothingMissed` |
| | `PaidOnceEach` | `PaidOnce` |
| `Synth_proofs`, `SynthAssumption`, `PageAssumption` | `Typed` | `TypeInv`, hence `TypeOK` |
| | `SkipsFinished` | `SkipsOnlyFinished` |
| | `NoHalfWritten` | `HalfWrittenHidden` |
| | `Unstranded` | `NoPageStranded` |
| `LintApply_proofs`, `LintAssumption`, `PageAssumption` | `Typed` | `TypeOK` |
| | `FilesKept` | `RowsKeepFiles` |
| | `OwnersWin` | `EditsSurvive` |
| | `NoHalfWritten` | `HalfWrittenHidden` |
| | `LinksFollow` | `LinksCurrent` |
| | `WholeOrNothing` | `ProposalAtomic` |
| `CodexAuth_proofs`, `CodexAssumption` | `TypeCorrect` | `TypeOK` |
| | `RefreshedOnce` | `NeverReused` |
| | `StoreStaysUsable` | `StoreUsable` |
| `Reading_proofs`, `RetrieveAssumption` | `AnswerInductive` | `AnswerInv`, the types and what each value is |
| | `OutagesSorted` | `OutagesDegrade`, under `WeightsSet` |
| | `HiddenHeld` | `HiddenStaysHidden` |
| | `NothingDropped` | `Complete` |
| | `BestKept` | `BestNeverDemoted` |
| | `Ablations` | `AblationPure` |
| `Reading_proofs`, `WikilinkAssumption` | `LinksTyped` | `LinkTypeOK` |
| | `NeverWronglyMerged` | `NoWrongMerge` |
| | `ViewsAgree` | `GraphAgrees` |
| | `BatchAgrees` | `BatchNeverRetargets` |

`WeightsSet` is a hypothesis of the one theorem: no searcher fuses by CombMNZ a
text or image leg of weight 0. With one the fusion raises, which is what
`MCRetrieve_silenced` shows.

Hardly one of these properties is inductive. What follows is the strengthening
each needed, which is where the argument is.

**The manager.** `IInv == TypeOK /\ BootInv /\ \A t : TaskInv(t)`, with three
parts per task:

* `RowInv`: for every await, what the row and the tape look like (while
  `announce` is awaited the row is RUNNING and the tape empty unless the call
  has run, and so on);
* `LateInv`: for every await, which abandoned calls may still be under way, and
  what they would find; an abandoned final, for instance, is only ever one that
  agrees with a terminal row and has no rival. This is the part that makes late
  writes harmless, and the part an intuition about the code is likeliest to get
  wrong;
* `FinalInv`: a final on the tape agrees with the row.

`BootInv` relates `orphans` and `marked` to the rows while the cleanup runs.
One lemma per group of actions keeps it (`CoroutineKeeps`, `WorkerKeeps`,
`FaultKeeps`, `LateKeeps`, `CancelKeeps`, `CrashStep`, `ReapStep`);
`StepRefines` shows that under `IInv` each step is a step of `TaskLifecycle` or
a stutter.

**The follower.** It is proved against the contract alone, so the task may do
whatever `TaskLifecycle` allows between any two reads. `ContractInv` is what the
contract keeps of one task; `Onward` is what any step of it does to a reader:
the tape grows, and from a terminal row on only by a final. `CursorInv` ties the
client's cursor to what it has rendered, `PageInv` says that the page in the
handler's hands continues exactly that, and `QuietInv` that a row once read as
terminal is still the row, so that whatever `max_seq` did not count is a final.
The last is why four reads without a snapshot are enough.

**Imports.** `Booked` relates the bookkeeping of the code to the tree:
`already_moved` is what committed packages brought and what this one has moved,
the two are disjoint, and all of it is in place. `Undoable` says that the undo
would succeed if it were called now: whatever was moved and had a predecessor
has it in its backup, whatever was not moved is as the import found it, and of
the file between two renames it is known which of them is done. `Between` says
what a request leaves behind. A failed undo or a crash ends `Undoable`, and
`PackageAtomic` excuses just these; `OriginalsSurvive` holds through both.

**Ingest and delete.** `TypeInv` adds to the types that the content is known
wherever an upsert is ahead or under way. `StrandInv` adds to `NoStrandedRow`
that the file is there while its document is being persisted, and that the row
is gone when delete moves the file: the order of the two calls is what the
theorem rests on. `WholeInv` says which active row may be partial, only the one
being persisted or about to be hidden, and that the calls of the pipeline find
what the one before wrote, so that none is refused; a task about to hide a row
has had its one failure, and what a second one breaks is outside the theorem.
`CourseInv` is about an ingest that began with no call of an earlier task under
way and has not been cancelled: each document it has read is indexed, in hand,
or among the errors of its report, and a row it still has to look at is whole or
was torn before. The last clause is what makes skipping by hash right.

**Vectors.** Four parts beside the types, which also say what of a task is set
at which await. `IdsDistinct`: a chunk id belongs to one chunk of one document
for ever, queues of running tasks included; this is why vectors that outlive
their chunks do no harm. `Honest`: unless the task has read two versions of
dikw.yml, what it holds was made by the identity it writes under. `MetaBacked`:
a meta row has its vector, and before an upsert every text of the batch is in
hand. `Underway`: while an ingest embeds, each live chunk has its meta row, or
is queued, or was skipped; the resume scan establishes it and each batch keeps
it, which gives `NothingMissed` when the queue is empty. `PaidInv`, for the
number of calls: what was paid for is in the cache, or on its way there, or a
mishap has been spent on it, and what a batch asks for is none of these.

**Synth.** `MarkInv`: until the sentinel is written, only rows of old bases can
be backfilled, since no run has come as far as a page. `HalfInv`, while at most
one call was struck: the one page that may be half written is the one at hand,
each call has left what the next relies on, and a call that outlives its awaiter
concerns the page that is being taken down. `StrandInv`: a page that is down
although it is wanted is one the run in hand will write or report, or its
source is marked as failed with no later done (`Remade`); the order of the
handlers' calls is what keeps it.

**Lint apply.** `StageInv` says that the phases follow one another: nothing is
persisted before the last operation, no page is an operation's again once it is
touched. `RowInv`: an upsert under way, or abandoned, is of a page that has its
file or whose owner took it. `EditInv`: what the owner wrote is in the trash
only of a page the pass has deleted, which it does not touch again. `HalfInv`
is that of synth, without its markers. `LinkInv`, of an undisturbed pass, has a part
per phase: while operations run the resolver is the title index of the pages
there were (`Listed`); then it knows exactly titles of pages that will be there
(`Resolves`, `Complete`); each page of the phase is waiting or linked (`InTurn`,
`AtPage`); at the end all that changed and all that refer are (`Rewritten`).
`EffectsApart` carries it over the phases: what is removed is not renewed. That
a trashed page's row is gone rests on its being knowledge, which `StageInv`
remembers from the sandbox check.
`OrderInv` says how operations lie in the list, `AtomInv` that a proposal that
shares no path has been flagged, has come to nothing, or is applied so far and
can go on (`Steady`). The argument is that the preflight's checks stay true for
such a proposal until its turn.

**The token store.** The invariant says in addition what a process between
check and write holds: the pair in the store if it has yet to send it, and a
pair whose refresh token nobody has used if it has; and that a token used up
elsewhere is one of the excused. The lock is what makes it inductive: at most
one process is between the two.

**Searches.** For outages, `IInv` says which failures have been met while the
search goes on (those that kind of call survives), and that one it does not
survive is among them once it has failed; the fusion needs `ConsensusFound`, a
chunk that any leg found has a leg that counts. For the answer, `AnswerInv`
says at each await what the values in hand are: legs without repeats and best
first, all but the image leg's finds visible at some moment (`StoreInv`,
`LegInv`); no leg of another mode (`ModeInv`); the ranking of just these legs
(`RankInv`); with no write meanwhile, a window, a top and rows of the size they
should have (`WindowInv`, `TopInv`, `HeldInv`, `HitsInv`).

The proofs about sorting need no induction over data, because `Fusion` says of
a sorted sequence where each element stands: at the place that counts what is
ahead of it. `OrderedIs` shows that for any finite total order this lists every
element once, and in order. `SortedIs`, `InsertedIs` and `SelectedIs` are its
cases, and sums over legs are written out over the four legs there are.
`BestNeverDemoted` is then a pigeonhole (`RankingIs`): whatever overtakes the
best chunk of a document had been ahead of it without the penalty. Ablations
follow from scores being monotone in the place when there is one leg
(`RankingLone`), for each of the three fusions.

**Links.** The invariants of `Wikilinks` are of a state, not of a history: each
follows from the type invariant by cases on how many pages bear the title and
lie under the key, in each of the sets of documents that a resolver looks at. The proofs rest on lemmas about `Only` (the one element of a
set, or none), and on page keys being finer than lookup keys.

## 6. What is only model-checked

Liveness (`CoroutineEnds`, `Settles`, `Delivered`, `FollowEnds`): TLAPS does not
reason about fairness through ENABLED. The configurations of section 4, which
are refutations. What a search does when CombMNZ fuses a leg of weight 0 is seen
only by `MCRetrieve_silenced`, since `OutagesSorted` assumes it away. That `Unit`
and `Fine` divide evenly matters to TLC's instance alone: the theorems are about
integer quotients, in which two scores that differ by less than one unit tie,
and a tie is resolved as the code resolves equal scores.

## 7. What is not modelled

Prompts, schemas, configuration, logging and telemetry are data and text; so
are page rendering, chunking and tokenising. Providers are adapters of services
outside the repository; their failures are outcomes in `EmbedIndex` and
`Retrieve`. Read-only routes and views hold no state. The CLI makes one HTTP
call per command and renders; serve-and-run handles operating-system processes.
Evaluation is offline. SQL, FTS and vector search are the database's. Assets
are left out of `EmbedIndex` (their pipeline has the same shape) and of
`LintApply`. `write_wisdom_page` decides between create and replace under a
lock per path and the base lock; only what it persists is modelled.
`_base_scope_id` and `list_tasks` are small and stay with the tests.

## 8. Plan

1. The contract between `PageIndex` and its users as an abstract specification
   of one persist (down, half, whole) that `Synth` and `LintApply` both
   implement, with the refinement proved; the two `HalfInv` are a first form.
2. The wisdom writer (`write_wisdom_page`, create or replace under two locks)
   and the assets' side of `EmbedIndex`, which would widen `VectorsMatch`.
3. Two faults in a row in an import's undo, and the twins of one document in an
   ingest: what is true of them, to be stated before it is proved.

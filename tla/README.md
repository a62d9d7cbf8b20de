# Verification of recuerdos-ai

TLA+ models of the daemon in `src/`, TLC configurations that check them on small
instances, and theorems about them whose proofs TLAPS checks. Every definition
is translated from the Rust source; `PROJECT.json` maps each one to its lines.

recuerdos-ai keeps memories for agents: it saves what they submit (verbatim, or
through a language model that extracts candidates and reconciles them with what
is stored), recalls it by meaning, keyword and relation, and consolidates it
once a night. One process, one SQLite file behind one mutex-guarded connection,
one tantivy directory per user. There is no distribution; what is hard is that
each operation is a *sequence* of statements and index writes, with model calls
of up to a minute between them, that others run beside it, and that any step may
fail or be the last one before the process dies.

## 1. Inventory

| Component (source under `src/src/`) | State | Operations | What is hard | Properties that make it correct |
|---|---|---|---|---|
| Ingest queue, worker pool `understanding/infrastructure/{sqlite_job_queue,ingest_workers}.rs` | table `ingest_jobs`; each worker's claimed job; stop flag | enqueue, claim, succeed, fail (retry, dead letter), reclaim at start, stop | claims race; results recorded after a crash or not at all; retries with backoff; shutdown | exclusive claims, bounded attempts, no duplicate run without a reclaim, settled is final, everything settles |
| Ingest over HTTP `understanding/infrastructure/http/handlers.rs` | a request's own job id | batch, async, `wait: true` inline | the inline path runs its content beside the pool and claims *some* row | the pool's guarantees survive it |
| Memory table, audit trail, vector and text index `memories/infrastructure/sqlite_memory_repository.rs`, `sqlite_vector_index.rs`, `tantivy_text_index.rs` | rows, `memory_events`, vectors, documents | insert, update, delete, supersede, upsert/remove of entries, recall bookkeeping | three stores without a common transaction; conditions inside the statements | deleted is final; replacement chains are well-founded; indexes agree with the table |
| Memory writers `memories/application/{direct_memory_saver,memory_updater,memory_forgetter}.rs`, `understanding/application/memory_reconciler.rs`, `consolidation/application/memory_merger.rs` | what each has read and not yet written | save, edit, forget, reconcile (add, update, delete, noop), merge | read, await, write; failures between any two steps | nothing that was saved is lost; never keyword-only |
| Consolidation `consolidation/application/{consolidation_runner,memory_maintainer}.rs`, `consolidation_state`, scheduler | watermarks per group; a pass's plan and budget | pass over users: maintain, plan, skip, merge, record | the watermark is recorded minutes after the group was read; partial failures; the budget | nothing undecided is skipped; the budget holds; duplicates are settled; passes come to rest |
| Duplicate clusters `consolidation/domain/{cluster_builder,similarity}.rs` | – (pure) | union-find over pairs above a threshold | ties, transitivity | clusters are the components |
| Text index and its rebuild `tantivy_text_index.rs`, `text_index_rebuilder.rs` | versioned directories, documents | upsert, upsert_many, remove, startup rebuild, `reindex --text` | a failing chunk, a rebuild that dies, writes before it, upgrades | what the daemon serves is indexed, wholly and once |
| Vector rebuild and the model pin `sqlite_reindexer.rs`, `verify_pin`, `create_vec_table` | vector table and its width, pinned model | pin, check, drop and refill in one transaction | a changed configuration, a failing embedder | vectors are comparable; none is lost |
| Entity graph, backfill `sqlite_entity_graph.rs`, `graph_backfiller.rs` | entities, relations with validity intervals, cursors | record, invalidate, remove, neighbours as of, backfill | out-of-order assertions, two transactions, a cursor that is a time | one open object per subject and predicate; intervals are intervals; the backfill gets everywhere |
| Recall `memory_recaller.rs`, `recall_ranker.rs`, `recall_query.rs`, `reranker.rs` | access counts | legs, fusion, ranking, places for the graph | degraded legs, limits, stale entries | results are active, the user's, distinct and ordered |
| Second stage `memory_recaller.rs`, `fastembed_reranker.rs` | sessions of the model, a channel of batches | judge in batches, answer, give up at the deadline | a recall leaves while its thread goes on; panics | scores are filed under what they are of; no session is lost |
| Session profile `profile_assembler.rs`, `profile_digest_writer.rs`, its store | cached digests with a fingerprint | assemble, refresh | overlapping refreshes; a model that fails | a digest is never served as covering memories it does not cover |
| Session distiller `session_distiller.rs` | – | one model call, one submission | – | it adds nothing to the queue's |
| Pipelines `candidate_extractor.rs`, `memory_ingestor.rs`, `intent_first_ingestor.rs`, `verbatim_ingestor.rs`, verdict parsing | – | extract, reconcile per candidate | answers of which parts are missing or unusable | only what is usable is stored; no request goes on for ever |
| Identity `key_authenticator.rs`, `verified_key_cache.rs`, key and user tables, `authenticated.rs` | keys, users, cache of verified secrets | issue, list, revoke, authenticate | cache against revocation and limits | a revoked key is refused at the next request |
| Rate limiter `shared/rate_limit.rs` | a bucket per caller | acquire, sweep | boundaries of the arithmetic, the table's limit | admitted ≤ burst + rate × time |
| Providers `providers/infrastructure/` | – | chat with retries, embed in batches, rerank | attempts, malformed answers | attempts and waits are bounded |
| Decay, similarity and clusters' arithmetic `consolidation/domain/` | – (pure) | half-life, cosine, union-find | ties, rounding | see the passes |
| Surfaces `understanding/infrastructure/http/`, `*/mcp/`, `sdk/python/` | a client's call in progress | tools of one and of several requests, errors, waits | another client, a revocation or a dead connection between two requests | what a client is told is what happened |
| Configuration, wiring `bootstrap/` | files, variables; the store a start leaves | load, check, build the contexts in order | a refusal half way; a changed setting over an old store | what is set is honoured or refused, and a refused start can be put right |
| Evaluation tools `bootstrap/{eval,rerank_audit,calibrate,rerank_distribution}.rs` | – | replay recalls, compare, measure | lists of different members, cases without an answer | the figures are those of the recalls they name |
| Export and lookup, shared kernel | – | reads; one connection behind a mutex | – | not state machines of their own |

How they interact. HTTP and MCP requests call the writers and recall directly;
`POST /ingest` goes through the queue, whose workers run a pipeline, whose last
step is the reconciler, a writer. The scheduler's pass calls the maintainer, the
merger (a writer) and, through `MemoryChangeObserver`, the digest refresh. All
of them share the connection's mutex, one statement or transaction at a time,
and a per-user lock of the text index. Nothing is held across an `await`.

## 2. The modules and the code

A statement on the database, a write of an index entry and a model's call are
one step each; what a process keeps between two of them are its variables, and a
failure or a crash may come at any step. Every module says at its top what it
leaves out. The pure modules are operators that a run evaluates in the states of
the module that uses them, or over all inputs of a small world.

| Module | Code | State and actions |
|---|---|---|
| `IngestQueue` | job queue, worker pool, `wait: true`, start and stop of the process | a function per column of `ingest_jobs` (times relative to the clock), a stage per worker and request, the process; an action per statement of `sqlite_job_queue.rs` and per step of `ingest_workers.rs`, `handlers.rs`, `main.rs` |
| `JobLedger` | what a submitter is promised | accepted work is run, reported once, and final; the queue's abstract specification |
| `MemoryStore`, `MemoryWriters` | row, vector and document of a memory; save, edit, forget, reconcile, merge | one process per writer, its stages the gaps between its statements; content is a set of facts, so that a lost sentence is visible |
| `StoredRows`, `Documents` | columns of a row, drafts, edits, audit, export; embedded text, keyword documents, queries, names of entities | pure, over sequences of operations on two users' rows |
| `Consolidation` | runner, maintainer, budget, watermarks | a pass is a process; a memory is its stamp, what it says a topic; `pending` are versions stamped and not written yet |
| `Nightly`, `PassRules` | grouping, union-find, merge verdicts, half-life, report | pure; `PassRules` puts them to the groups that a pass of `Consolidation` reads |
| `DerivedIndexes` | startup rebuild, `reindex`, `reindex --text`, pin, vector table | documents per memory, model per vector, directory per user, the process that has the store open |
| `Configuration`, `Deployment`, `Embedders`, `Operations` | settings, wiring, commands, embedding clients; all over the store of `DerivedIndexes` | pure; `Operations` starts every command over each state the store is left in |
| `EntityGraph`, `GraphWriters` | entities, edges with intervals; pipelines and backfill | pipelines record and invalidate in any order, a backfill with its cursor, budget and failures |
| `Orders`, `Ranking`, `Recall` | sorting, keeping and moving lists; fusion, relevance, second stage, places of the graph; the recall's steps beside forgets | scores are integers |
| `RerankStage` | judging thread, channel, deadline, session pool | a stage per recall and per thread, the batches on the channel, who holds which session |
| `Evaluation`, `Measurements` | eval, gate, audit, grid, calibration, distribution | pure; `Measurements` puts them to what `Recall` serves |
| `Profile` | digests under fingerprints, background and nightly refresh; the page | writers and refreshes overlap; the page is a function of the memories |
| `Understanding`, `ModelRequests` | extraction, taxonomy, verdicts; prompts, retries, three chat clients | pure, called by the jobs and refreshes of `Profile` |
| `RateLimiter`, `Access` | buckets, sweep; authentication, cache of verified keys, default user, issue and revocation | requests step by step, time in ticks, tokens in parts |
| `Accounts`, `Surfaces`, `ToolCalls` | users, keys and their commands; REST, MCP tools, the Python client | pure: a call is a sequence of requests with whatever happens between them; `ToolCalls` makes them in the states of `Access` |

`MC*` modules give the constants values. The `*Proofs` modules hold the theorems.

Abstractions. Content, names and texts are members of small sets. Floating point
is integer arithmetic, or a choice over its outcomes. Wording, layout and logs
are left out. History variables record what the code does not: what is
known to be missing (`behind`, `torn`, `partial`), what two operations wrote at
once (`shared`), what the backfill dealt with (`handled`), what was admitted
when. Counters of failures, crashes and stamps bound a run through the guards.

## 3. What is checked

| Run | Bounds | What it shows |
|---|---|---|
| `ingest_inline` | 2 workers, 1 inline request, 2 jobs (one unreadable), 2 attempts, 1 stop, failure and dropped request each | `WorkersNeverShareAJob`; `AttemptsWithinReclaims`: attempts beyond the maximum were added by reclaims |
| `ingest_settles` | 2 workers, 2 jobs (one unreadable), 2 stops with any downtime, 1 failure | under fairness every job settles, or is stranded by a stop, a failed write or an unreadable payload until a start `STALE_AFTER` later puts it back; every shutdown ends; the queue implements `JobLedger` |
| `writers_merge` | 1 pipeline, 1 merger, 4 memories, 3 facts, 1 failure, 1 crash; 370,000 states | pointers to replacements go to newer, existing memories; no fact is lost, nothing is findable by keyword only |
| `writers_edit` | a saver, an editor, a forgetter, 2 memories, 2 failures, 1 crash; 264,000 states | both indexes agree with the table when nothing failed; an edit takes nothing back that others counted; what is stored is found |
| `consolidate_safe` | 1 user, 2 groups, 4 stamps, a budget of 2 calls, 2 memories and some time, 1 failure or crash | a skipped group has no undecided duplicates; clusters are the components; merges lose nothing |
| `consolidate_settles` | 2 users, 3 stamps, expiring memories, no budget, 1 failure | under fairness duplicates are settled, expired memories retired, and an idle store asks no more |
| `indexes` | 2 users, 3 memories, 2 models, chunks of 1, 1 upgrade, 1 failure or crash | what the daemon serves is indexed, wholly, once, and by one model; every setting is honoured or refused, but for the two that section 6 names; a text's vector is its own |
| `graph` | 2 memories, 4 spellings of 3 keys, one that comes to nothing, 2 pipelines, 1 backfill with a budget of 1 call, 1 failure | of two facts that exclude each other one is current; what was closed stays on record as it was, though the fact may be filed again; the backfill passes nobody over and pays once |
| `recall` | 4 memories, one of them expired, 3 rankers, 5 queries (by category, subcategory, tag, age), off, shadow and on, 0 or 1 places, 1 memory changing, 1 failure, 3 eval sets; 113,000 states | nothing gone or filtered out is served, and of what was ranked nothing is withheld; order, trace, hops and measurements are true |
| `rerank` | 2 recalls, 1 session, a head of 3 in batches of 2, 2 failures or panics; 33,000 states | no score goes astray, no session is lost, every recall answers |
| `profile` | a background refresh and the nightly one, 2 stamps, 2 writes at once, 2 failures, 3 attempts, a prompt of 1 memory, digests with and without text | a digest covers what it says and was made from what fits the prompt; an assembled page tells what it omits; requests end; digests catch up if nights keep coming to them |
| `access` | 2 requests, 2 keys, 3 callers, a burst of 1, a table of 1 caller, a cache of 1, 4 ticks, sequences of 4 commands; 608,000 states | only the secret opens; revocation is immediate; one default user; the rate is kept and the wait told is enough; clients hear the truth |

Why the bounds are enough. The conflicts the properties are about need two
actors and one memory, job, bucket or session they share, plus one other to tell
it from; the order properties need two jobs and one that behaves differently.
Two attempts make a retry and a dead letter happen. A failure and a crash in one
behaviour reach every pair of steps between which something can be lost. Four
stamps in two groups let a group be recorded, change and be skipped or examined
again while the other one fails. Chunks of one memory make every rebuild of two
memories one that can die between two commits. A table and a cache of one entry
are full at once, so that sweeping and evicting happen. A head of three in
batches of two has a full and a short batch. Symmetry is used where actors or
data are interchangeable, in runs without liveness only. Deadlock is checked for
the queue and the indexes; in the other modules the bounded supply of requests,
facts or stamps runs out. For most of the safety properties section 4 removes
the bounds.

Each property has a mutant: a plausible bug of the mapped code (a dropped status
condition, a reclaim that does nothing, a watermark taken when recording instead
of when planning, ...) that the same run refutes.

Fairness, always weak. `IngestQueue`: of each worker, each request and the
process, and of time (tokio runs ready tasks, model calls have timeouts);
nothing forces a submission, a signal or a crash, and a process may be back at
once or after any downtime. So `EveryJobSettles` cannot say that every job
settles: it says what may strand one, that nothing else does, and which start
ends it (section 6). `Consolidation`: of each pass (`consolidation_scheduler.rs`,
timeouts); clients owe nothing. `Profile`: of writes begun and of each refresh, not of the
night, which leaves out users when its budget is used up and one whose
consolidation fails (`consolidation_runner.rs:277`, `308`); `DigestsCatchUp`
assumes in so many words that nights keep coming to this user. `RerankStage`: of each recall that listens, scores or judges without a
deadline, and of its clock; *not* of the judging thread, since a deadline is
there for a model that never returns.

## 4. What is proved

For every value of the constants that meets the named `ASSUME`s of the modules:
any number of workers, writers, passes, memories, callers, sessions, failures and
crashes. The assumptions say that bounds are naturals, that kinds of actors are
disjoint, that there is a session and a user at all; that categories are ordered
without repetition (`AssemblyAssumption`) and extracted candidates come in a list
(`ProfileAssumption`); that a recall's limits are those `RecallQuery::new` accepts
and its graph is finite (`RecallAssumption`); that a drawn prefix is not the word
for none (`AccountsAssumption`). `PowersAreNatural` (`2^e` is natural) states a fact
of arithmetic the provers do not have. TLC evaluates them in every run. Each proof has an inductive invariant, one lemma per action or
group of actions that disturbs it, and a last step in temporal logic.

**IngestProofs.** Of the queue, `QueueInv`: types; a holder's job is claimed with the
attempts it was told; claims are exclusive; a request has a row; a process that
is down runs nobody; rows are numbered; a pending row has an attempt left. From
it `TypeCorrect`, `ClaimsAreExclusive`, `AttemptsAreAccounted`,
`FirstAttemptsAreOrdered` (an older fresh job has been due for at least as
long). `WorkersOnlyInv` ties runs to the row's status; from it
`DuplicatesNeedAReclaim`, `HoldersOwnTheirRow`, `SettledStaysSettled` and the
refinement `LedgerRefinement`, which are about a queue without `wait: true`
(`Requests = {}`): with it the code does not have them.

Of the profile, `DigestInv`: versions differ wherever they are (in the table, in a
writer's hand, in a snapshot, under a digest), and a version that was read and is
still there has outlived nothing but what was read with it. It is needed because
a fingerprint is a count and a latest time only: with it, an equal latest time
makes the older set contain the newer one, and an equal count makes them the same
(`CoversIsExactAlways`). `ProfileTypeInv` adds that what a refresh has yet to look
at has memories (`ProfileTypeCorrect`). The page (`OmissionsAreToldAlways`): each
memory is in one group, and by induction over the groups each is shown or
counted, for any order, share and budget. A model call (`CallsEnd`): what is
known after `k` attempts, by induction, for any number of attempts and any
replies: how many requests were sent, past which replies it went on, what it ends
with and how long it has waited, the sum of a series that doubles. What the
prompts and the clients' bodies hold stays with TLC.

**MemoryWritersProofs.** `PointerInv`: pointers go up, and what every writer
holds in hand was read from rows that exist (`ReplacementsExist`). `SaveInv` and
`FactInv` follow each accepted fact to a visible memory or to the replacement
that is about to carry it (`NothingIsKeywordOnly`, `MergingLosesNothing`,
`HalfWrittenIsHarmless`); these three assume `Editors = {}`, because an edit that
a merge overtakes breaks them (section 6). `IndexInv` says that as long as
nothing failed, of each memory written by one operation at a time either
somebody still has the write in hand that brings an index up, or it agrees with
the row (`IndexesAgreeAlways`, with edits and merges). `DeletedStaysDeleted` is
an action property.

**ConsolidationProofs.** Of the passes, `TypeCorrect`, `BudgetIsKept` and
`SkippedAreDone`.
`StampInv` says that stamps of distinct versions differ and lie behind the clock,
`DoneInv` that for every watermark, and for every one a pass may still record,
the versions up to it are pairwise decided. It is needed because the property
speaks of the moment of a skip, and the recording happened passes ago.

Of the clusters, for any memories linked in any order, twice, reversed or to
themselves: what is connected, however indirectly, and nothing else, shares a root
(`ConnectedShareARoot`), and the clusters are the connected components, each once,
no memory in two or twice in one (`ClustersAreComponents`). `Together` says
connected without counting steps: no set that every link leads neither into nor
out of parts the two. `Forest` says each slot hangs on an earlier one or itself, so
that there is one function from slots to roots (`RootsAreUnique`); `Holds` says
that after `k` links two slots have one root exactly if the first `k` links
connect them. It is carried over a link by `LinkingHolds`, for which it matters
that roots are attached and not the slots themselves.

**DerivedIndexesProofs.** `VectorInv` (`VectorsAreAlwaysWhole`): vectors are of
the pinned model, and only a failed write leaves a memory without one. `TextInv`
(`KeywordLegIsAlwaysWhole`, `NoMemoryIsTwice`): where a whole index can be relied
on, namely behind every directory whose first fill was not cut short, for every
user a startup rebuild is done with, for what a rebuild has taken out of its
batch. It is needed because the property speaks of the daemon that serves while
the code looks at directories, long before.

**GraphWritersProofs.** `ClosedEdgesStayHistory`, an action property.
`CursorIsSafe` says, of the stored cursor and of the one each run carries, that
the memories up to it are dealt with and that it is the creation time of a memory
in the table, so that whatever still comes is late or as old as that one; and of
a run that it does not step over the memory it reads. From it
`EachIsReadOnceAlways`, whose second half (`PaidInv`) adds who has been paid for.
`FactsReadTrueAlways` needs `FactsInv`: an edge's source is stored and stays as
it is, whoever has recorded and not yet invalidated is on the way, and a memory
settled has closed what it contradicts. `TypeInv` joins the three; from it
`TypeCorrect`.

**RecallProofs.** Sorting, filtering, cutting and moving lists come first (`Orders`,
any lists and orders), then that fusion, the second stage and the reserved places
each make a ranking of a ranking: same memories, each once, with its own score.
`RecallInv` says that what was gone when the recall began stays gone (`GoneStays`),
that the ranked list names fetched memories that were not gone and pass the
filters (`RankedIsRanking`), that the judged ones are among them (`JudgedIsLeg`), and that
the the answer and the trace are those of one list (`AnswerStands`, `TraceStands`). It It
is needed because rows and entries change between the legs, the fetch, the
judging and the answer, so what the answer may be said to hold has to be said of
each list it comes from. From it `RecallServesNothingGone`,
`RecallWithholdsNothing`, `RecallOrdersAsPromised` and `RecallTellsTheTruth`. How
far a reserved place may move a row is an induction over the places (`Shifts`,
`HopWithin`): each promotion lifts one memory and lowers others by one. For
`RecallHopsShortestPaths` the recursive query is unfolded: a key is reached within
`d` hops exactly if a walk of that length ends there, so the first hop that
reaches it is the length of a shortest path, for any graph, depth and limit.

**RerankStageProofs.** `PoolInv`: a recall holds a session exactly while it
judges (`SessionsAreConservedAlways`). `ScoreInv`: of a thread that is `k`
batches ahead of its recall, the channel holds sound answers to the batches that
follow the recall's place, in their order, and the thread is at the one after
(`TypeInv` adds the counts of judged pairs, batches and answers, which give
`TypeCorrect`); from it and from lemmas on intervals and on aligning scores by index,
`ScoresAreTheirOwnAlways`, for any depth and size of batch. What makes it hard:
nothing in an answer names its batch, `memory_recaller.rs` counts.

**AccessProofs.** `AccessInv`: the stage of each request against the key's row
and the cache; a cached verification was made with the right secret, and one that
a slow request is about to add was looked up before the revocation it may
outlive. From it `OnlyTheSecretOpensAlways`, `RevocationIsImmediateAlways` and
`OneDefaultUserAlways`. `LimitInv` is about the watched caller: what it was
admitted since any earlier admission is at most the burst and what was earned,
less what its bucket holds; a caller whose bucket was swept would have had a full
one, where the time of expiry is enough for that; and the wait it was told earns
a token (`LimitIsKeptAlways`, by lemmas on integer division and products).
`StoreInv` is about the tables of users and keys after any number of commands:
handles and prefixes are unique, each key has an owner, and each row was shown
once, to its owner, as the one with its prefix; with the default user it gives
`EveryoneIsWhoTheyAreAlways`. `BoundsAndDomains` adds that no bucket holds more than
a burst and that only issued keys are revoked and remembered (`TypeCorrect`).

Only model-checked, and why:

- `EveryJobSettles`, `ShutdownTerminates`, `PassesCatchUp`, `CallsStop`,
  `DigestsCatchUp`, `RecallsAnswer`: liveness under fairness is beyond the prover.
- `ClustersAreWhole`, `NothingIsLostOvernight`, `ConfigurationIsHonoured`,
  `EveryTextGetsItsVector`, `RequestsAreAnswered` (of which `CallsEnd` proves
  what it says of attempts), `MeasurementsAreTrue`, `RowsKeepWhatIsTheirs`,
  `WhatIsStoredIsFound`, `ClientsHearTheTruth`: each says what nested definitions
  compute over the sequences, files, calls or lists of a small world that it
  enumerates itself, through folds of the library, whose induction the provers do
  not have. Where the recursion was over numbers, as in the page, the model call,
  the places of the graph, the hops and the links, induction by hand from the
  well-foundedness of the naturals (`CountingUp`) was enough. Of `ClustersAreWhole`
  the union-find is proved for any links (`ClustersAreComponents`); what it says
  besides, of the order of clusters, of which pairs of a group are similar and of
  the dry run, is checked.

## 5. Plan

What is left, in this order: that the clusters come, and their members too, in
the order of first appearance; from it, with a group's similarity read off its
vectors, `ClustersAreWhole` would follow from `ClustersAreComponents`; the
sequences of operations of `StoredRows` as functions of their length.

## 6. Where the code and its words differ

Met while modelling. The models do what the code does; the properties are stated
so that they hold of it.

Queue.
- A job that was running at a crash is stuck when the process is back within 15
  minutes: stale rows are looked for at start only (`ingest_workers.rs:92`;
  `V3__jobs.sql:45-46`: "startup reclaims anything stale so a crash costs one retry
  rather than a permanently stuck row"). So is one whose result could not be
  recorded, of which `ingest_workers.rs:200-203` says that it will be reclaimed and
  run again: not while the process stays up. `EveryJobSettles` counts these in.
- `attempts` is compared with the maximum only when a failure is recorded
  (`ingest_workers.rs:239`): a job whose run kills the process is claimed again
  after every reclaim.
- The inline claim of `wait: true` takes the oldest claimable row, whichever it
  is, and does not keep a worker off the request's own job (`handlers.rs:207`, `214`).

Writers.
- An edit writes back the `superseded_by` it read and undoes a supersession
  (`memory_updater.rs:71`; `reconciliation.rs:7`); two edits leave the indexes as
  the one has them and the row as the other; one is accepted past `expires_at`.
- A merge retires a member edited since its snapshot, and the edit with it
  (`memory_merger.rs:157`; `:16`); one deleted meanwhile comes back in the merged
  content (`:126`). The merged memory may be filed under another category and
  keep the cluster's subcategory.
- A vector is replaced by a delete and an insert without a transaction
  (`sqlite_vector_index.rs:97`), and a row changed before its audit entry is
  written (`sqlite_memory_repository.rs:203`). `touch_accessed` touches deleted rows.
- A deleted memory can be deleted again: the row keeps its time, a second entry is
  written, the answer is 204 (`sqlite_memory_repository.rs:253`), and
  `memory_forget` counts it as deleted once more.

Consolidation.
- A save stamped before and inserted after a plan leaves its duplicate skipped
  until something newer joins the group (`direct_memory_saver.rs:75`;
  `implementation-plan.md:951`).
- A budget used up exactly on a user's last cluster stops the pass before the
  group is recorded: with nothing new, the same calls are made every night and
  later users get no merges (`consolidation_runner.rs:398`;
  `implementation-plan.md:937-939`). The nightly digests are skipped with it.
- Failing merge calls are not charged (`consolidation_runner.rs:422`;
  `recuerdos-ai.example.toml:186`); 0 means no limit. Groups are cut to 2000
  memories (`:529`). A cluster kept separate is recorded as done, where
  `merge_prompt.rs:118` says the next run will look again.

Indexes, configuration, commands.
- Whatever uses a user's index first makes its directory, which the startup check
  takes for a whole index (`tantivy_text_index.rs:349`; `main.rs:458-470`,
  `622-623`), also after a rebuild that died on its first chunk
  (`main.rs:624-626`); `reindex --text` repairs it. `rebuild_all` drops nothing,
  where `text_index_rebuilder.rs:35-36` calls it a tidy that does. Queries honour
  a literal AND, OR, NOT.
- A refused start has created the database and perhaps the vector table; so has
  an audit. `init` with an invalid environment writes the file, fails, and then
  refuses to run again. `[server].host = "localhost"` is accepted and then
  panics, and `storage.backend` is accepted and ignored (`config.rs:137`, `871`):
  `ConfigurationIsHonoured` names both as its exceptions; `embeddings.model` and an
  empty `api_key_env` are not looked at before the start that fails on them, nor
  `rerank.model` while the stage is off; `warm-models` fails with a remote
  provider; `config` omits settings; the example file sets `similarity_baseline`.
- A reranker of weight 1 can overrule what vectors and keywords agree on, when its
  own places for two memories lie far apart (`config.rs:578-580`;
  `recall_ranker.rs:156`).

Graph.
- Recording a memory's relations again files an edge another memory closed once
  more, as a current one (`sqlite_entity_graph.rs:120`), where the comment above
  (`:109-111`) promises that a superseded fact does not come back because its
  memory was written again. What holds is `ClosedEdgesAreHistory`: the closed edge
  stays beside it.
- `graph.remove` has no caller, though `entity_graph.rs:99-102` and the migration
  say that forgetting removes edges. The backfill invalidates nothing, stops for
  good at a memory whose extraction always fails (`graph_backfiller.rs:217`), and
  with two at once moves its cursor backwards. `EntityKey::new` is not idempotent.

Recall and measuring.
- Of two equal scores `sort_ranked_with_relevance` puts the smaller relevance first
  (`recall_ranker.rs:845` hands `highest_first` its arguments swapped), where its
  comment (`:838-841`) calls "preferring the better match" the point of it; the
  model does as the code does, and no property speaks of these ties.
- With `--compare-config` and mode "on" in `--config`, the audit's report says that
  clients see the `after` column (`rerank_audit.rs:1428`), which is the other
  config's.
- A shadow comparison is audited as "0/n"; `align_scores` and the
  OpenAI embeddings parser accept an index twice; `calibrate`'s baseline is not
  the one the daemon is wired with (`memories_wiring.rs:437-470`);
  `rerank_distribution` says more of its input than it validates.

Access and surfaces.
- A bucket idle for a minute is taken for full (`rate_limit.rs:26`), which a burst
  above `requests_per_minute` makes untrue; the wait subtracts tokens from
  seconds (`:113`), harmlessly, as `LimitIsKept` shows; the table has no bound
  while all its callers are fresh; `/mcp` calls count twice.
- `strip_bearer` knows two spellings, not any case. A 429 is told as an internal
  error. A save with a write-only key stores and then reports "not permitted"; a
  retry after an error saves again; `memory_forget` stops at its first failure; a
  failed item of `save_batch` may have stored a part; retractions of a batch or a
  distillation are misreported. Routes that call a model share the 30 s limit.
  `http_memory_toolbox.rs:285` denies the route it calls.
- Export lists expired memories, its JSON form leaves out subcategory, expiry,
  source and entities.

Models and profile.
- Ollama's cut-off replies are not noticed, Anthropic's only without a tool's
  answer; the schema of reconciliation allows UPDATE and DELETE without an id; a
  superseded fact's check ends at its first error; model ids are compared as
  spelled.
- A slow refresh overwrites a newer digest (the next one repairs it); a count and
  a latest time miss some changes (`profile_digest.rs:77-88`); jobs that only
  retire, `wait: true`, distillation, direct saves, edits and forgets wake nobody;
  a malformed digest overwrites a good one; memories of custom categories beyond
  the section's share are not counted as omitted (`profile_assembler.rs:149-160`),
  and a digest's section there is no room for is dropped and nobody is told
  (`profile_digest_writer.rs:346`). A digest is made from at most 200 memories and
  stands for all (`digest_prompt.rs:61`).

## 7. What is not modelled

The shared kernel (one connection behind a mutex is why a statement is a step);
the hours of the schedule (a pass may start at any time); fractional powers of
the half-life; tantivy's stemming and scores, SQLite's and the vector
extension's own code, wire formats and what the services answer, which are
external; the plain methods of the Python SDK, one request each; `lookup`, the
read of a row; latencies; a worker task that panics (the pool loses it until a
restart); clocks that stand still or run backwards, where a module does not say
otherwise. One plan's reads are one step although it is one statement for the
memories and one per watermark (only passes write watermarks). Clusters are asked
about in any order, which includes the code's.

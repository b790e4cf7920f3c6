# Formal models of pg_mnestic

TLA+ specifications of pg_mnestic, the bitemporal agent memory on PostgreSQL:
modules that follow the Rust and SQL of this repository operation by operation,
TLC configurations that check them on small instances, and TLAPS proofs of what
they establish for instances of any size. `PROJECT.json` lists the components,
the runs, the hazards the properties are aimed at, and for every definition the
source lines it models.

    tlc -workers 2 -config WritePathLive.cfg MCWritePath    # one run
    tlapm AsyncIngest_proofs.tla                            # one proof module

## 1. Inventory of the system

Paths are relative to `src/`. All durable state is in PostgreSQL, under READ
COMMITTED; a server process keeps one thing in memory, the rate limiter's
buckets. A transaction opened by `begin_tenant` has one `now()` throughout.

| component | state | operations | what is hard about it | what makes it correct |
|---|---|---|---|---|
| Fact resolution (`mnestic-core/src/resolve.rs`, `types.rs`) | none | `decide`, `interval`, newer/late, the cap of a late row | late facts, equal starts, NULL values | one latest row per key; lineage follows event time |
| Write path (`mnestic-engine/src/lib.rs` 319-565, 908-1141; `mnestic-store/src/lib.rs` 772-1113) | `mnestic_memory`, its EXCLUDE constraint | `add_at`, `forget`, `forget_by_id`, `forget_by_content`, `update_memory` | reads before locks, retries, deadlocks, lost connections, `now()` order against commit order | all or nothing, one current fact, edits do not branch, every call returns |
| Ingestion (`persist`, `enqueue`, `process_claimed`; store 607-735) | `mnestic_source` (`needs_extraction`, `claimed_at`) | `insert_source_tx`, `enqueue_source`, `claim_pending_source`, `mark_source_extracted_tx` | repeated requests, lapsed leases, crashes, two passes at once | memories of a `custom_id` land exactly once |
| Worker schedule (`mnestic-server/src/bin/worker.rs`, `process_pending`) | position in the cycle; leases | `run_cycle`, `process_pending` | poison sources, slow extraction, several tenants and workers | every healthy source is extracted, by one worker at a time |
| Actor data (`refresh_profile_tx`, `classify_relations`, `purge_actor`) | `mnestic_profile`, `mnestic_memory_relation`, all rows of an actor | profile refresh, relation edges, erasure | snapshot before lock, foreign keys, statement-by-statement erasure | references intact, erasure complete, staleness repaired |
| Rate limiter (`rate_limit.rs`) | a bucket per key, in memory | `allow` | clock read before the lock, idle buckets, restarts | never more than a burst plus the rate; spaced requests pass |
| API keys, authentication (`keys.rs`, `auth.rs`) | `mnestic_tenant`, `mnestic_api_key` | `issue_key`, `revoke_key_*`, `authenticate_request` | two autocommitted statements, racing first issues, revocation with requests in flight | one tenant per external id; revoked keys are not served |
| Documents, chunks (`ingest_document`, `chunk.rs`) | `mnestic_document`, `mnestic_chunk` | `chunk_text`, ingest | the idempotency key shared with `add`; how far a window advances | nothing of the text is lost; chunks in proportion to the text; stored once |
| Version chain (`version_chain`, `supersede_with_new_version_tx`) | `version`, `root_memory_id`, `supersedes_id` | edit, walk, split into parents and children | edits through ids of older versions, numbering, branching | a memory's context is its whole edit history |
| Search (`query.rs`, `documents.rs`, `recall_scoped`, `search_documents`) | none, reads the tables | over-fetch, hybrid search, rerank, cutoff, group by document | an index walk that stops early, answers of an external reranker, cutoff after reordering | no hit lost, repeated or misplaced between the index and the page |
| Metadata filters (`MetaFilter`, `filter.rs`) | none | `matches`, `to_meta_filter`, `to_sql` | NULL, negation, empty and deep trees, two evaluations of one filter that read letters and numbers differently | the SQL selects what the filter means |
| Container tags (`container_tag.rs`, `resolve_container_tag`) | none | resolve, validate, parse, reconstruct | odd segment counts, empty segments | a tag survives being taken apart; tags do not share a scope |
| Model clients (`mnestic-model`: `extract_schema.rs`, `anthropic.rs`, `openai.rs`, `classify.rs`) | attempts of the call in progress | `send_with_retry`; extract, embed, classify | timeouts, retries and pauses add up while a lease runs | a pass fits into its lease; a blip does not end it |
| Tenancy (`prepare_database`, `provision_app_role`, `set_tenant`, the policies of `0001_init.sql`) | the serving role and its grants; `mnestic.tenant_id` on each pooled connection | start of a process, transactions on the pool | racing and crashing starts, connections used again | a statement sees its tenant's rows, and does not fail |
| Evaluation harness (`mnestic-eval`: `compare.rs`, `runner.rs`, `score.rs`) | the results of a comparison | `ingest_cases`, `compare`, `MemScore` | any call of any backend fails | columns and scores are those of the questions judged |
| Ontology, HTTP/MCP surface | none | stateless translation | - | not modelled |
| graphwright, extractor service | - | - | - | not modelled |

How they meet: the HTTP and MCP handlers authenticate (keys, then limiter) and
call the engine. `add_at` extracts outside any transaction and then, in one
transaction, inserts the source, resolves and writes each candidate and
refreshes the profile; `enqueue` only inserts the source and workers do the rest
later through `process_pending`. After the commit an optional classifier writes
relation edges. `forget*` and `update_memory` change rows the same adds read.
`purge-actor` deletes everything of one actor. The meeting points are rows of
PostgreSQL, their locks, the unique index on `custom_id`, the EXCLUDE constraint
and the foreign keys; there are no messages and no callbacks. Searches read the
same tables in transactions of their own and change nothing. A worker's pass makes its
model calls (extract, embed) between claim and transaction. Every transaction of the
engine starts by setting the tenant on its connection, which the policies read.

## 2. Modules and how they correspond to the code

Row locks are modelled in all three transactional modules alike: a statement
that needs a row another open transaction has written is disabled until that
transaction ends, and sees the committed version then.

**Resolution** - the pure operators: `Decide` (dedup, supersede, insert),
`Interval`, `IsNewer`, `HistoryUntil`, and `Excludes`, the constraint
`no_overlap_single_valued`. One key at a time; rows of different keys never
interact in this code.

**WritePath** (uses Resolution; instance MCWritePath; proofs WritePath_proofs) - callers running
`add_at`, `forget*` and `update_memory` on one key. Every SQL statement is an
action: `ReadMatches` = `latest_matches_tx`, `ClosePrior` = `close_prior_tx`,
`ReadStarts` = `segment_starts_tx`, `InsertRow` and `CheckRow` =
`insert_memory_full_tx`, `Tombstone`, `Edit`, `Bump`, `Commit`. `db` holds committed
rows, `writes[w]` the uncommitted versions of a transaction and thereby its
locks.

PostgreSQL checks an EXCLUDE constraint after it has written the row and its index
entry, and waits for whoever has an uncommitted row in the way. So the insert is two
steps: from `InsertRow` on the row is in the way of others (`InTheWay`), and `CheckRow`
fails (23P01), waits, or goes through. Two first inserts of a fact may thereby wait for
each other. The same holds of `Bump`: an update whose new version finds no room on its
page gets index entries and is checked like an insert (`Recheck`), otherwise it is not;
both may happen. `ClosePrior` and `Tombstone` leave rows the constraint does not cover.

`Retry` is the loop around `is_transient_conflict`. Failures: `DeadlockVictim` (40P01; any
member of a `Ring` may be it), `Drop` (lost connection, cancelled task, death), the
inverted range of `ClosePrior` (22000). `VersionChain`, `Parents` and `Children`
are what `version_chain` and an aggregated search read from the committed rows;
its two SELECTs are taken as one, since nothing rewrites a version or a root.

`clock` ticks on every reading of a clock: `now()` of a transaction, and the write time
of a candidate without one. The first is the database's, the second `Utc::now()` of the
process that adds (engine 1190). One clock for all is an idealisation: the code
synchronises nothing, and with skewed processes a "live" fact may be dated before a row
that is there already, which then makes it a dated one that arrives late. What is
claimed of live facts (`ConflictMeansProgress`, `OnlyChecksDeadlock`, `RaceIsWon`) is
claimed where the clocks agree to within the time between two readings; what is claimed
of dated ones (WritePathDated and the theorems without `Live`) needs no such thing.

**IngestOnce** - the abstract specification: a key is absent, queued or
ingested; its memories land once, in the step that makes it ingested.

**AsyncIngest** (refines IngestOnce; instance MCAsyncIngest; proofs
AsyncIngest_proofs) - callers (`add_at`, `enqueue` and `ingest_document`, the
three modes of a request, which share the `custom_id`; documents have no retry
loop) and workers (`process_pending`) on `mnestic_source` rows. A batch is what
one commit stores for a key: its memories, or its document with all chunks. `rowLock` and `keyShare` are the
locks that matter: the unique index makes an insert wait for an uncommitted row
of the same key, `FOR UPDATE SKIP LOCKED` passes over locked rows, the foreign
key of inserted memories holds a key-share lock on the source. `claimedAt` is
the lease; `ClaimHeld` the guard `claimed_at = $3` of
`mark_source_extracted_tx`.

**Forgetting** (extends AsyncIngest; in MCAsyncIngest; proofs in AsyncIngest_proofs) - `Engine::forget` by
`custom_id` among all steps of AsyncIngest: `Find` is the snapshot of its UPDATE,
`Tombstone` the UPDATE once it has the row locks, with the status checked again;
`Ingest` is any step of AsyncIngest, counting what it leaves active. A caller issues
a forget as often as it likes and may be cut off in it.

**IngestSchedule** (proofs Worker_proofs; instance MCIngestSchedule) - the worker's loop over time:
tenants in order, up to `Batch` claims each, oldest first, one extraction at a
time, a nap after an idle cycle. Time is kept as the age of each claim and
saturates when the lease is over, so the state space is finite without a time
bound and liveness can be checked on it.

**ModelCalls** (proofs Worker_proofs; in MCIngestSchedule) - the calls of one
pass: `Again` and `GiveUp` are the branches of `send_with_retry`'s loop, `Extracted`,
`Embedded`, `Persist`, `Classified` what the pass does with an answer. `elapsed` is the
age of the claim when the transaction begins, in half seconds (the first pause of
`backoff`). IngestSchedule's `Cost` is what this module adds up.

**ActorData** (instance MCActorData; proofs ActorData_proofs) - profile refresh, relation edges,
documents with their chunks and erasure racing on one actor's rows. A statement that may wait is two steps, its
snapshot and its effect: this is where `PROFILE_REFRESH_SQL` selects before it
waits for the profile row and where each DELETE of `purge_actor` sees only what
was committed when its turn came. `before` and `read` in `tx` are history for
the properties.

**RateLimit** (proofs in Access_proofs) - `RateLimiter::allow` in two steps:
`Ask` reads the clock, `Answer` holds the lock. A credit is one `Period`-th of a
token, so refills are exact integers. `ledger` is history for the properties and
influences nothing; `Observe` lets somebody start counting at any moment.

**Access** (extends RateLimit; instance MCAccess; proofs Access_proofs) -
operators run `issue_key` (an upsert of the tenant, then the insert of the key,
each committed by itself) and revoke; handler threads run
`authenticate_request`: `Receive`, `Authenticate` (one SELECT), `EnterLimiter`
and `LeaveLimiter`, which are RateLimit's `Ask` and `Answer`. The upsert's
snapshot and its effect are two steps, since that is where two first issues for
one tenant race. `RestartServer` empties the buckets.

**Tenancy** (proofs in Access_proofs; in MCAccess) - server and worker processes run
`prepare_database` step by step (`Migrate`, `LookForRole`, `CreateRole`,
`AlterRole`, `GrantRole`), open their pool and serve; `Stop` is a failed start, a
crash or a shutdown at any point. `guc` is `mnestic.tenant_id` of the pooled
connection: `SettingAfter` what `set_config(..., true)` leaves behind, `Visible` what
`tenant_isolation` leaves of the rows. A process has one connection; transactions on
two of them share nothing but rows.

**Chunker** (proofs Chunker_proofs) - `chunk_text`, one action per turn of its
loop: `Window` for a window with something in it, `BlankWindow` for one without.
`End` is the whitespace back-off, `Following` the advance with overlap, `Push`
drops a chunk that repeats the previous one.

**ContainerTags**, **MetaFilter** - pure operators (proofs in Retrieval_proofs). A
tag is the sequence of its segments. `Matches` is `filter.rs: matches`; `Selects` goes by
the meaning of the SQL that `MetaFilter::to_sql` builds, in SQL's three-valued logic, where
a value is the set of the one value it has and NULL is `{}`. Both recursions are functions
of the levels left before MAX_DEPTH (`MatchesLevel`, `SqlLevel` are one level), over the
trees in `Filter`, which is closed under subtrees. What Rust and PostgreSQL make of a
text is kept apart: `AsciiLower` (`eq_ignore_ascii_case`), `Lowercase`
(`str::to_lowercase`) and `SqlLower` (`lower()`); `Number` (a finite `f64`) and `Exact`
(`::numeric`, which rounds nothing and overflows elsewhere, an error that SQL passes on
as `BOOLEAN`); serde's rendering of a value and jsonb's (`text`, `column`). `Comparable`
says where the two evaluations read alike; each of its conditions is needed, as
`SearchExact` fails in the run when any one is dropped.

**Retrieval** (extends ContainerTags, MetaFilter; instance MCRetrieval, which
also runs Chunker; proofs Retrieval_proofs) - one search request, stage by stage: `RecallMemories` and
`SearchChunks` are the two SQL templates with the engine calls around them, their
scores and what the index walk misses being choices (`Reached`; the walk that is made
iterative for a container tag ends when the fan-out is full, the index exhausted, or
`MaxScan` entries visited: `hnsw.max_scan_tuples`, which the code leaves at pgvector's
20000); `Rerank` and `KeepOrder` the
end of `recall_scoped`; `Cut` the threshold and the truncation; `GroupByDocument`
the answer of `/v3/search`; `Refuse` the error answers. `InOrder` is the sort behind
`Ranked` and `RerankedOrder`, `Picked` what `retain` leaves, `Grouped` the loop of
`group_by_document`.

**Benchmark** (in MCRetrieval; proofs Benchmark_proofs) - `compare`, backend after
backend: `IngestCase`, `ScoreQuestion` with any outcome of `score_one`, then
`AssembleRow` for every question. `at` is the place its nested loops over cases and
questions have reached. `Tally` is `MemScore::from_results`. `got` is history for the
property.

The MC modules that hold two systems (MCIngestSchedule, MCAccess, MCRetrieval) run one
of them per behaviour, the other being at rest: they share no state, and the state
spaces add instead of multiplying.

Definitions whose comment begins "Faulty variant" are no part of any
specification. Each is a plausible mistake in the definition that follows it; put
in its place, it makes the property `PROJECT.json` pairs it with fail.

## 3. Runs

Passing runs:

| run | instance | shows |
|---|---|---|
| WritePathLive | 2 writers, 2 values, 2 attempts; no extracted time, which is what the server's handlers send. Scene "calls": 2 requests each, any API call, one fact at a time. Scene "pairs": 3 adds in all, each of two facts in either order | supersession is all or nothing (`ClosedHasSuccessor`); one current fact (`OneCurrentFact`); no branching edits (`EditsDoNotBranch`) and whole chains, up to the fourth version, from every member (`ChainIsHistory`); a denied insert always met a row committed since it read (`ConflictMeansProgress`); nothing but the EXCLUDE checks of rows written side by side deadlocks (`OnlyChecksDeadlock`); a race of one add each is won by somebody (`RaceIsWon`) |
| WritePathDated | 2 writers, 3 requests in all, dated adds naming two facts in opposite orders or one instant twice, forgets, 2 attempts, fairness | `LineageForward`, `LatestIsNewest` out of order; an insert denied on the last attempt was denied by a row of equal start or of history (`DeniedByHistoryOnly`); with deadlocks, retries and waits every call returns (`EveryRequestReturns`) |
| AsyncIngest | 2 callers, 2 workers, 1 key, lease 1, clock to 5, forgets | `ExactlyOnce`, `ClaimExclusive`, `PromptPassKeepsClaim`, refinement of IngestOnce; what was forgotten is reported once and stays forgotten (`ForgottenForGood`) |
| Schedule | 2 workers, 2 tenants, 4 sources of which 1 poison, lease = longest extraction, 1 crash; model calls with replies of 0, 10 and 30 s, lease 300 s, 2 candidates | `OneExtraction`, `EveryHealthySourceExtracted`; `PassWithinLease` |
| ActorPurge | 3 processes x 2 operations, 3 memories or documents | `ReferencesIntact`, `PurgeErases`, `LoneWriteRepairsProfile` |
| Access | 2 keys, 2 threads x 2 requests, 2 operators, burst 1, one token per 2 ticks, clock to 4; 2 processes, 2 tenants, both paths of `prepare_database` | `KeysShareTenant`, `OnlyLiveKeysPass`, `RateHeld`, `SpacedNeverRefused`; `TenantsApart` |
| Retrieval | texts of two characters, all up to 7 long and those of 10 and 12 with at most 2 blanks, windows 1, 4, 7; 12 memories, 6 chunks, requests of all tags of up to 4 segments, a filter of every kind for the rows of each user, among them what Rust and SQL read differently (a letter beyond ASCII, 2^53 + 1, 1e400, 1e200000, 1e20), limits x thresholds x reranking x modes | `ChunksCover`, `ThreeWindowsAdvance`, `SearchExact`, `RerankKeepsAll`, `CutoffRelative`, `GroupedByBest`; a comparison of 2 backends: `ComparisonHonest` |

Runs that refute what a comment of the code says (the comment is quoted in
`PROJECT.json`, "findings"):

| run | what happens |
|---|---|
| WriteRevived | `close_prior_tx` selects by id only. A forget committed after the add read its matches is overwritten: the tombstone becomes "superseded" and its validity is cut short. |
| WriteInverted | `close_prior_tx` ends `recorded_time` at its own `now()`. If the prior was recorded by a transaction that began later, the range is inverted; PostgreSQL raises 22000, which is not retried, and one of two concurrent adds fails. The forget and edit statements guard against this with `CASE WHEN now() > lower(recorded_time)`. |
| ScheduleHead | Two poison sources whose extractions together outlast the lease: the first is claimable again before the batch passes the second, and the healthy source behind them starves. |
| ProfileLag | Two overlapping writes each compute the profile without the other's row; the later commit stores it. The next write repairs it (`LoneWriteRepairsProfile`). |
| PurgeBlocked | `purge_actor` does not delete relation edges; with one edge the foreign key refuses the DELETE and nothing is erased. |

### Bounds, and why they are enough

* *Two writers, three or four requests.* Every race in the write path is between one
  transaction's read and another's commit; two writers in turn give each add a
  predecessor, a contender and a successor. One key: nothing in the code relates
  rows of different keys except lock order, for which the adds of two facts use two
  rows. Two attempts instead of three (MAX_CONFLICT_RETRIES): one that is not the last,
  and the last.
* `MaxTime` bounds clock readings. None of the behaviours of WritePathLive (18) is cut short
  by it: four requests of one fact read the clock twice in each of two attempts, three of
  two facts three times; nor are those of WritePathDated, where a writer refused a reading
  would break `EveryRequestReturns`.
* `LiveSymmetry`: the requests of WritePathLive name either value wherever they name
  the other, so values are interchangeable. WritePathDated checks liveness and uses no
  symmetry.
* *AsyncIngest:* a lease of 1 and a clock to 5 let a claim lapse twice while its
  pass runs; the proofs cover the rest.
* *Schedule:* one poison source ahead of two healthy ones of its tenant and one
  of the next; `Batch` 3 lets a cycle take all of them, `Cost` = `Lease` is the
  tightest lease worker.rs:8 allows.
* *ActorPurge:* three processes are an erasure, a writer and a classifier or
  forget; every run of two operations lets each of them act again on what the
  erasure left.
* *Access:* two external ids square the state space and add nothing, keys of
  different external ids share no row; the theorems cover any number.
* *ModelCalls:* the timeout and the default lease of the code, replies at once, after
  10 s and just before the timeout; the theorems cover all other values.
* *Tenancy:* two processes race for the role, and two transactions of different tenants
  follow each other on one connection; the theorems cover any number.
* *Benchmark:* two backends, two cases of two questions, so that a failure at any
  of them can shift the rest, and every call may fail.
* *Forgetting:* two callers forget, one of which may also be repeating its add,
  beside two workers, one with a lapsed lease.
* *Retrieval:* the constants are scaled down with the data (limit at most 3, pools
  of 3 and 4, fan-out 3), so that each of them is reached and exceeded: a limit
  above its maximum, a page limit above the least chunk budget (100 and 50 in the code, 3
  and 2 here), a pool larger than a page, more chunks than the budget, trees as deep as
  MAX_DEPTH, and an index one entry larger than the scan budget, so that a walk under a
  tag may miss one row and no more. The long texts are those for which three windows move by
  no more than half a window; the theorems cover the other texts. Rows have
  embeddings, as all rows this code writes do.
* Deadlock checking is off where a run ends by using up its bounds (WritePath*,
  ActorPurge, Access) or its one request or text (Retrieval); waiting for ever in WritePath is excluded by
  `EveryRequestReturns` instead. It is on in AsyncIngest and Schedule.

### Fairness and environment assumptions

* WritePath `FairSpec` (in the run `MCFairSpec`): weak fairness of each writer's `Step`. PostgreSQL runs
  every statement that is not waiting and breaks deadlocks
  (`deadlock_timeout`); nothing obliges callers to submit or connections to
  break (`Submit` and `Drop` are not fair).
* IngestSchedule: weak fairness of the clock and of each worker's step. A
  worker's loop never stops by itself, and a supervisor restarts a dead one;
  arrivals and crashes are not fair, crashes are finitely many.
* ActorData: one erasure of an actor at a time; it is an operator's command line
  tool (`bin/purge-actor.rs`).
* Access: tokens are fresh, being 192 random bits (`generate_token`).
* ModelCalls: a request that is not answered ends at the client's timeout of 30 s,
  which covers its body (reqwest). `CallsAssumption` is worker.rs:8-9 in numbers: the
  lease is at least twice the longest call.
* Tenancy: superusers are not asked for by `DATABASE_URL` (server lib.rs:151); a role
  that is one is outside `TenantsApart`, and `ALTER ROLE ... NOBYPASSRLS` does not
  change it (section 5).
* MetaFilter: `lower()` of the database folds ASCII letters as Rust does, which is so in
  every locale but the Turkic ones; numbers of at most 15 digits away from the ends of
  `f64` (`Short`) are as many different `f64`s in the same order.
* RateLimit: `Instant::now()` is monotone; `duration_since` saturates at zero.

## 4. Theorems

All hold for every value of the constants that satisfies the modules' `ASSUME`s. Where
a theorem needs more, it says so in an `ASSUME` of its own, named below; each such
assumption restricts which requests callers make, and the runs' requests satisfy it
where the run checks the property, unless noted.

**WritePath_proofs.** For any number of callers, requests, retries, values and dates:
`TypeCorrect`, `SupersededHaveSuccessors`, `LineageRunsForward`, `HistoryIsLinear`,
`ContextIsHistory` without further assumptions, all from one invariant, `IInv`, in four
parts:

* `Typed`: the types.
* `RowsInv`: the committed rows, the rows each open transaction sees (its `View`) and what
  different transactions have written go together. `Coherent` says it of one set of rows:
  each row is well-formed and what it refers to is there (`Backed`), and any two are
  `Apart` - not excluded by the constraint, in event-time order along `supersedes`, and in
  different versions of a chain, of which only the last may be `latest`. `Advance` is the
  whole of what any statement does to a row that exists: what names, dates and places a
  row never changes, and neither `latest` nor "active" comes back. So a version that goes
  with another row goes with every later version of that row.
* `TxInv`: which kind of request may be at which statement (`Shape`), that the rows a
  transaction remembers are rows it sees and the one its draft supersedes starts earlier
  (`Known`), and that the draft's interval is not empty (`Drafted`).
* `NextInv`: a superseded row has a successor among the rows whoever sees it sees, or was
  closed by a transaction that has yet to insert one and cannot commit before.

None of the properties is inductive. That the chain of an edited memory is linear needs
the locks (`Free`), the re-check of `is_latest` and that no two open transactions hold
versions of one row; that a context is the whole history needs that every version number
below a row's own is taken by exactly one row of its chain.

* `OneIsCurrent` and `LatestStartsLast` assume `OpenEnded`: no fact is given an end. Without
  it they are false: two racing inserts of disjoint intervals both stay latest (section 5).
  The extractors of this repository emit no ends.
* `OnlyHistoryDenies` assumes `Plain`: facts are single-valued, have a value and no end. A
  single fact that comes after a list-valued one of the same key, or one without a value,
  is not compared with the current row by `decide` as another single fact is, and may be
  denied by it. WritePathDated, where one request mixes both, meets no such case within its
  bounds; the theorem does not claim there is none. `PlainInv` follows
  the current rows an attempt read its matches among (`Settled`): each that still stands is
  a match, then one to be closed or one that starts no earlier, and when the insert comes
  its start is the end of the draft or later, or the draft's own.
* `EveryRetryReadsMore` assumes `Live`: `Plain`, and facts hold from when they are written,
  which is what the server's handlers send. `LiveInv` relates clocks: no row starts
  later than the clock, a candidate is dated by a reading of it after the attempt has read
  its matches, so every row the attempt saw starts earlier and there are no late facts.
* `OnlyChecksRing` assumes `Live` and finitely many callers, `RacesAreWon` assumes `Live`.
  Both rest on `WaitInv`. Two adds that insert side by side can deadlock, in their checks;
  the first theorem says that nothing else can, and so that no order of row locks does. At
  most one transaction has a hand in the current row (`OneFresh`); a forget waits before it
  has written anything, so nobody waits for it (`Aimed`). What is left are adds that wait
  for the lock of the row they matched (`Caught`), and each waits for one that read its
  matches later: it has locked another row, and had the two seen each other's rows they
  would have matched the same one (`InTurn`). Later reads saw more committed rows, so no
  ring closes among them, and a check never waits for one that waits so. Without `Live`
  there are such rings: two adds that name two dated facts in opposite orders (DatedAdds
  in MCWritePath).
* `RacesAreWon` is what remains of convergence. An attempt denied met a row that was
  committed since it read, so somebody has been answered; a ring has a victim but at least
  two members. So callers of one add each are never all refused (`RaceInv`), however few
  attempts there are. It does not say that three attempts (MAX_CONFLICT_RETRIES) are enough
  for an add that meets two requests, and they are not (section 5).

**AsyncIngest_proofs.** `TypeCorrect`, `IngestedExactlyOnce`, `ClaimsDiffer`,
`LeaseProtects`, and the refinement `ImplementsIngestOnce`. `ExactlyOnce` is not
inductive: nothing in it says that the pass about to commit is the only one. The
invariant `IInv` adds that stamps are valid (no claim is younger than the
clock, and a source's stamp is never older than a working pass's), that an open
insert holds its row, and that a pass past `MarkExtracted` holds the row lock
and still has its claim. From these, a second pass that reaches its commit would need
the same stamp, which `LeaseLapsed` rules out because two claims of one source
are more than a lease apart. `ForgettingIngests`: with forgets among them, the steps are still
AsyncIngest's or none, so all of the above holds with them too. `ForgetIsFinal` then rests
on `ExactlyOnce`: what is active or has been forgotten was committed, so there is at most
one of it, and of two forgets of one key only one comes to its commit (`ForgetInv`).

**Access_proofs, the limiter.** `RateIsHeld` and `SpacedIsServed`. The invariant relates a
bucket's credit to what its ledger admitted: credit plus `Period` times the
admitted requests is at most a full bucket plus the time from `born` to `last`
plus the set-back; and no bucket's `last` is later than the latest instant seen or
than the clock. The set-back term is needed: without it the bound is false, since
a thread overtaken between the clock and the lock moves `last` back and the
same time is credited twice.

**Access_proofs, keys and authentication.** `UsesLimiter`: Access implements RateLimit's specification (every
step is a limiter step or leaves it alone), so `ServedWithinRate` follows from the
limiter's own theorems. `AccessTypeCorrect`, `OneTenantPerExternal` and
`RevokedStaysOut` come from `AInv`: tokens of calls in progress are unique and
unused, one tenant row per external id and every call past the upsert holds it,
a request marked late is never past authentication, and only stored keys have
buckets.

**Chunker_proofs.** `ChunkTypeCorrect`, `ChunksCoverText`, `ThreeWindowsMove`, for
texts, windows and overlaps of any size. Coverage is inductive together with the
loop's `start < n`; the dropped repetition is covered because its content is in
the last chunk all the same (`PushCovers`). For the advance, `PastTheCut` shows
that after a window cut at a blank a later window is cut at the same blank or
reaches as far as the first would have without the cut; the next window can meet
that blank once more, the third begins at it or behind it.

**Worker_proofs.** Of the model calls: `CallsTypeCorrect`, `CallsEndInLease`, `BlipsAreRetried`. The
invariant bounds `elapsed` by the calls that are behind the pass plus what the attempts
of the present one can have taken (all of them timed out, with their pauses), and says
that the failed attempts of a call are its transient failures in a row.

Of the schedule: `ScheduleTypeCorrect`, and `OneWorkerExtracts` from
`Cost <= Lease`. `OneExtraction` alone lets a second worker claim what the first works
on; the invariant adds that the claim of a source in work is exactly as old as its
extraction, so it is within the lease and nobody else's to take. `WorkerTypeCorrect` is
type correctness of the two side by side, as the Schedule run has them.

**Access_proofs, tenancy.** `TenancyTypeCorrect`, `TenantsStayApart`. The invariant has what a
process at each point of its start may rely on (`Booted`: past `AlterRole` no policy is
bypassed, past `GrantRole` nothing is denied, and no step of another process takes
that back), and that a connection's setting is the tenant of its open transaction, and
no tenant otherwise (`Settled`).

**ActorData_proofs.** `ActorTypeCorrect`, `ReferencesStayIntact`, `ErasureComplete`,
`ProfileRepaired`. Neither of the two in the middle is inductive: what protects them are row locks. The invariant says what each open
transaction has secured (`Secured`: the source of a pass that has written, the ends of
an inserted edge, the memory of a forget), that no erasure has doomed what another
transaction has secured (`Doomed`), and that a source is doomed only with the memory and
the document that refer to it (`Erasing`). An erasure's first snapshot is contained in
the sources it dooms last, and references that are intact after its commit take the
rest of the actor's rows with them. `ProfileRepaired` is an action property: `DataInv` says
that the profile a write has computed is that of the rows it read with its own changes
(`Refreshed`), and with nothing committed since, that is what its commit leaves active.

**Benchmark_proofs.** `ReportIsHonest`. The invariant `BInv` says for each backend that its
results are those of the questions behind it that were judged, one each (`ResultsRight`),
that its error lines name questions that were not (`LinesRight`), and of the table that
it has a row for what all have judged (`TableRight`). Scores follow because taking a
result to its key is then a bijection onto the questions judged (`OneResultEach`).

**Retrieval_proofs.** `FilterExact` and `TagSurvives` are about the operators;
`RetrievalTypeCorrect`, `TagsSurvive`, `SearchIsExact`, `RerankingKeepsAll`,
`CutoffIsRelative` and `GroupingIsByBest` about every search, and `SideBySideTypes` about
the run's system, where a text is chunked next to it. Tables, filters, tags, limits,
scores and a reranker's answers are of any size. What is assumed of them is
in the modules and checked by TLC on the run's instance: `FilterAssumption` (trees, closed
under subtrees; foldings that agree on ASCII; short numbers in one order), `RowAssumption` (metadata is JSON; every chunk has its document),
`RequestAssumption` (the wire types; at most one threshold), `SegmentAssumption`, and
`RetrievalAssumption`, of which the constants of the code are an instance (`DEFAULT_LIMIT`
10, `MAX_LIMIT` 100, a pool of at most 200, chunk budgets of 50 to 200): it asks the
default to be a legal limit, the pool to hold the greatest page, the least budget to be
no more than the greatest, and nothing of `MAX_LIMIT` and the budgets, a page limit above
the least budget being what `ChunkBudget` is for.

* `FilterExact` goes by the levels left: where a tree can be compared, each level of
  `to_sql` has the value, never NULL and never an error, that the same level of `matches`
  has. `ShortCompares` and `FoldsAlike` are where the two sides' numbers and letters meet:
  on `Short` numbers, and on `Ascii` texts when case is ignored. At no levels
  left both are false, which is what the depth cap returns. The induction is over the level,
  as the least number at which the two could part (`LeastNat`, from a well-founded order);
  that a recursive function is what its definition says rests on `Iteration`.
* `TagSurvives`: the pieces of a tag are slices of it that begin where the one before
  ended, and joining such slices gives the whole (`JoinParts`), however many segments.
  `TagsSurvive` says it of the tag of a search (`TagsRoundTrip`); no run checks that.
* Everything else follows from `SearchInv`. None of the five properties is
  inductive: they speak of the page, and of how it came about only what the stages before
  left. `PoolInv`: the pool holds different rows that the request is after, and under a tag,
  when they are few, all but those the index holds beyond `MaxScan` (`Unvisited`; this is
  where the iterative scan is needed). `ResultsInv`:
  the results begin with memories of the pool, each once and as many as there is `Room`
  for, and all else are chunks. `ChunksInv`: the chunks that are grouped come with their
  scores in order. `AnswerInv`: the page is what the cut or the grouping makes of the
  results. `StageInv` says which requests reach which stage.
* `OrderIsOrder` is the lemma they share: counting the elements ahead of each lists a
  finite set in its order, without loss. `RankedHolds`, `ReorderHolds` and `PickedInOrder`
  say it for the two searches, the reranker's permutation and the cutoff.
* Grouping has an invariant of its own over the hits added so far (`GroupsInv`): the
  documents are those met, each once with all its chunks so far, and their scores, each that
  of its best chunk, descend; since hits come in order of score, none overtakes another.

Only model-checked:

* Liveness (`EveryRequestReturns`, `EveryHealthySourceExtracted`): TLAPS handles neither
  fairness nor ENABLED here.

## 5. Known deviations without a run of their own

Behaviours met while modelling, where the code and one of its comments part:

* A late row is capped at the next later start only; a row that was open before
  it and was superseded by an even later one is overlapped (engine 1121-1137
  against the comment at 1122-1124). What is current is not affected.
* Two values with exactly equal starts: the second is not newer, becomes a late
  row that overlaps the first, and every retry meets the same 23P01 (engine
  1101). So does a late row that starts inside an active row of history (with facts
  from 3 and then from 1 stored, one from 2: it is capped at 3, and the row [1, 3) is in
  its way), or inside what history is left when the latest row has been forgotten.
  `DeniedByHistoryOnly` says that there is no other reason.
* After a forget of an open interval the next add takes the insert branch and is
  stored over it (engine 544; comment at store 1034-1036).
* Two concurrent adds with disjoint bounded ranges both stay latest: the
  constraint compares ranges only (resolve.rs 19-20). Extractors of this
  repository emit no ranges.
* The classifier's edge may be written after its memory was forgotten, and stays
  (store 1517; comment at 1064).
* An add that computed the profile before an erasure committed and writes it
  afterwards caches the erased facts again (store 1799).
* A keyed add and an edit of the same memory may both supersede it: the closing
  add does not re-check the status, as in WriteRevived.
* The loser of two racing first `issue_key` calls gets RowNotFound; running the
  command again succeeds (keys.rs 54-65).
* chunk.rs 12-13 says each step of the window advances at least half of
  `max_chars`; one or two steps may advance by a single character, when a blank
  near the start is backed off to and the overlap then leads back before it.
  Three steps do (`ThreeWindowsMove`), so the conclusion about the number of
  chunks stands.
* "Two concurrent writers for the same fact converge instead of surfacing a raw exclusion
  violation" (engine 290-293). Where facts are dated when they are written a race has a
  winner (`RaceIsWon`), but three attempts against two requests need not be enough: two
  first inserts wait for each other's check, one is lost to the deadlock, its second
  attempt is denied by the same request, which has committed by then, its third by the
  next, and `add_at` returns the 23P01. (With `result[w] # "conflict"` for a property and
  three attempts, TLC finds this in the "calls" scene.)
* "Semantics mirror the server's Rust `matches()` exactly" (store 144), and "the shape
  matches what both `::numeric` and Rust's f64 parse accept" (store 277-279). They do
  where the two read alike (`FilterExact`, `Comparable`). They do not on the JSON text of an
  array or object, which equality and `string_contains` compare in SQL and `matches` never
  does; on letters beyond ASCII, whose case `lower()` folds and `eq_ignore_ascii_case` does
  not; on numbers that are one `f64` but different numerics (2^53 and 2^53 + 1), that are
  infinite as `f64` (1e400) or overflow `::numeric` and fail the statement (1e200000); on
  numbers that jsonb and serde_json render differently (1e20); and on blanks around a
  number. The Retrieval run has rows of each of these, and leaving any of them in the
  claim of `SearchExact` makes it fail.
* store 293-295 says array filters diverge from the Rust path, which renders numbers;
  filter.rs 174-183 takes strings only, as the SQL does.
* "So it is exact" (query.rs 223, engine 184) needs the iterative index scan, which
  is turned on for container tags only (store 1139-1147), although a metadata
  filter and the actor are residual predicates in the same way. `SearchExact`
  claims completeness under a container tag alone, and there up to the scan budget of
  the walk (`MaxScan`).
* With reranking and a threshold, a reranker may push the strongest hit out of the
  fetched pool before the cutoff is computed relative to "the strongest hit for
  this query" (query.rs 321-322).
* A repeated document whose `custom_id` belongs to an add answers with a nil
  document id (engine 825-828; documents.rs answers with what it gets).
* filter.rs describes `matches` as what searches run; only tests still call it.
* extract_schema.rs 43-44 says that a DNS, TLS or connection-refused error is
  surfaced at once; all three are `is_connect()` errors and are retried. Its doc (24-26)
  says 429/5xx are; of the 5xx 500, 502, 503 and 529 are.
* Embeddings are matched to texts by their place in the answer (openai.rs 89), not by
  the `index` the API returns with each.
* An edited version carries no `source_id` (store 928-955): `forget` by `custom_id`
  does not reach memories that have been edited.
* The doc of `forget` (engine 910-911) names when it answers with no ids; a
  `custom_id` that is queued is one more case, and its memories appear later.
* `export_actor` (store 1809-1845), "everything held for one actor", leaves out
  relation edges.
* A serving role that is a superuser is still one after `provision_app_role`
  (store 67-71): the statement takes BYPASSRLS away, not SUPERUSER.
* `compare` calls each backend's report "`run_eval`-equivalent" (compare.rs 60-62); its
  `errors` leave out the failed ingests that `run_eval` puts first (runner.rs 113-116).

## 6. Not modelled, and why

The ontology, a lookup table. The HTTP, MCP and tool handlers, which translate
requests into the calls modelled here and keep no state. Floating point: the fusion of ranks, decay and embeddings are a choice of scores;
the order of two hits with equal scores is by id. The models behind the clients
(an extraction is a choice of candidates, a failure or a delay). The query rewriter. The related
memories and the sources of an aggregated search page and the profile endpoint, which only read; what an HNSW graph fails to reach within its
scan budget (an iterative walk is taken to visit every entry it has budget for) and the
work-memory limit of pgvector's iterative scan; in a numeric leaf the evaluation order of
SQL's AND, taken to be the shape first and the cast second; bind numbering, the loose booleans and the 100-character limit of the wire;
the wire formats; the graphwright extension and its extractor service, which are
outside this repository; expiry of `forget_after` (a filter in queries); the ids in the
answer to a repeated request; of the evaluation harness the rendering, the conversion
of datasets, the prompts and the averages of latency and tokens.

## 7. Plan

Done: the write path, ingestion of memories and documents with its abstract
specification and forgetting, the schedule and the model calls in it, actor data with
documents, the limiter and keys, tenancy, chunking, search, filters and tags, the
comparison of backends. Proved: every safety property the passing runs check.

Next, in this order:

1. The ids that an idempotent skip answers with, and what a caller of `forget` is told
   about a queued `custom_id`.
2. The related memories and sources of an aggregated search page.

# The CogMem core in TLA+

This directory is the verification development that goes with the repository
`CognitiveOS-core` (package CogMem, TypeScript, `src/src`; paths below are
relative to `src/src` unless they start with `src/`). It holds TLA+ modules of
the parts where memory can be lost, duplicated, reordered or wrongly believed,
TLC configurations that check them on small instances, and TLAPS proofs of
their safety properties for every value of the constants.

1. [The system](#1-the-system)
2. [What is modelled, and how it corresponds to the code](#2-what-is-modelled)
3. [The runs](#3-the-runs)
4. [Fairness](#4-fairness)
5. [The proofs](#5-the-proofs)
6. [Where the code and its documents disagree](#6-disagreements)
7. [What is not modelled](#7-what-is-not-modelled)
8. [The plan](#8-the-plan)

How to check: `tlc -workers 2 -config MCRecords.cfg MCRecords.tla` (and so
on for each configuration of section 3), and `tlapm M.tla` for M each of
`SetLemmas`, `RawLedgerProofs`, `DreamCuratorProofs`, `BeliefStoreProofs`,
`GovernanceProofs`, `NeuronProofs`, `IntakeProofs`, `ConsolidationProofs`.

## 1. The system

CogMem is the long-term memory of an agent. A host calls `MemoryKernel`
(`factory.ts`) in its own process; everything durable is in one SQLite file.
There is one writing process at a time (`src/CONCURRENT_ACCESS.md`), and inside
it one JavaScript thread: concurrency is the interleaving of asynchronous calls
at their `await`s. The database driver is synchronous, so what stands between
two `await`s runs as one piece, but each SQL statement outside
`db.transaction` commits by itself, and the process can end between two
commits. These two facts, `await` as the only switch point and the statement as
the unit of durability, shape all the models.

    host ──turns, tool calls, tasks──▶ recorders ──▶ RAW LEDGER (memory_events + FTS)
                                                        │ batches in global_seq order
                                       memory model ◀──▶ DREAM CURATOR ──▶ watermark
                                                        │ candidates        (dream_ledger_state)
                                                        ▼
                                       CANDIDATE QUEUE (deep_write_*) ◀──▶ PROMOTION POLICY
                                                                             │
                            facts / beliefs / summaries / entities ◀─────────┘
                                                        ▲
    host ──ingest──▶ INGESTION ──▶ neurons + vectors + embeddings ◀── METABOLISM, RE-EMBEDDING
                        └──────▶ facts, entities, beliefs ◀── OFFLINE CONSOLIDATION + MAINTENANCE
    files ──▶ BATCH IMPORT ──▶ raw ledger, ingestion, offline consolidation
    OpenClaw ──turn ends──▶ REMEMBER QUEUE (file) ──drain processes──▶ recorders
    operator ──▶ PROPOSALS ──▶ cogmem.config.json
    host ──forgetUser──▶ deletes across the stores     host ──recall──▶ read-only

The inventory. `PROJECT.json` lists every source file under its component.

| Component | State it keeps | Operations that change it | What is hard | What makes it correct |
|---|---|---|---|---|
| Raw event ledger (`store/EventStore.ts`) | rows of `memory_events` with four counters and two link columns; the index `memory_events_fts` | `append`, `updateNextEventId`, index rebuild in the constructor | row, index row and link are separate commits; counters are MAX + 1 over rows that can be deleted | replay order is recording order; turns are whole; links agree; every text is findable |
| Recorders (`factory.ts`, `agent/AgentMemoryBackend.ts`) | none of their own | `rememberTurn…`, `recordToolCall`, `recordToolResult`, `recordTaskEvent`, `forgetUser` | several appends and links in one call | as above |
| Dream coverage (`store/DreamLedgerStore.ts`) | one watermark per project and one global | `markDreamed` overwrites | overlapping runs, host calls, recycled numbers | a covered event was recorded in a batch; a watermark does not go back |
| Dream curator (`engine/DreamCuratorWorker.ts`) | none between calls | `run` | reads before an `await`, three commits after it, a failing provider | no event skipped, bounded repetition, backlog drains, one warning |
| Candidate queue (`store/DeepWriteCandidateStore.ts`) | runs, candidates and their status | `insertRun`, `insertCandidates`, `updateCandidateStatus` | listing with a limit, oldest first | decisions are final, the queue does not clog |
| Promotion policy (`engine/DeepWritePromotionPolicy.ts`) | none | `promotePending`, `promoteRun` | target row and mark are separate commits; a belief of the candidate's date meets later ones; thresholds by type; order of branches | no row without user evidence; rows and marks agree up to crashes; every promoted belief traces back to its candidate |
| Deep-write orchestrator (`engine/DeepWriteMemoryOrchestrator.ts`) | trigger window | `process` | asynchronous compile, then as the curator | as the queue |
| Belief store (`belief/BeliefStore.ts`) | beliefs with validity and supersession | `upsert`, `applyExecutionFeedbackCalibration` | conflict resolution over several beliefs at thresholds of a weighted strength; windows that pass; one key for all projects | lineage without gaps, history unchanged, the latest preference in force, a key never silenced by revision, a project only by another one |
| Fact, summary, entity stores (`store/FactStore.ts`, `store/EntityStore.ts`, …) | rows with status, relations | insert, verify, archive, bind, merge | instances shared between projects; a merge that moves the time it orders by | what was said stays answered; one instance of a name stays |
| Ingestion (`factory.ts` `ingest`, `engine/IngestionEngine.ts`) | neurons, hash chain, vectors | `ingest`, `ingestBatch`, background embedding | hash read before two `await`s; duplicate check before the write; embedding after deletion | chain without forks, no double neuron, nothing of a forgotten user comes back |
| Metabolism, offline consolidation (`core/Metabolism.ts`, `engine/OfflineConsolidationPipeline.ts`) | status of neurons, the loop's flag, checkpoints | metabolism cycle, orphan cleaner, consolidation run, maintenance steps | a second connection inside a transaction; facts read before three awaits; a budget of time | index and rows agree; faded neurons leave; no maintenance step starves |
| Batch import (`batch/`) | cursors, processed-record marks | `process` | evidence recorded before, mark written after an `await` | at-least-once with a bounded number of repeats; an import repeated ends |
| Re-embedding (`embedding/ReEmbeddingPipeline.ts`) | cursor, embeddings | `run` with a budget | vectors missing in an answer, deletion meanwhile | no neuron loses its vector, none keeps a stale one for ever, none deleted gets one back |
| Proposals (`meta/`) | proposal rows, configuration file | create, evaluate, approve, apply, rollback, reject | file and row written apart; rollback out of order | the file is what the applied proposals say |
| OpenClaw remember queue (`host/openclaw/AutoMemoryPluginInstaller.ts`) | queue file, lock directory, renamed files, dead letters | turn hook, `drainRememberQueue` in processes of their own | real processes racing over files; kills; retries | no turn dropped, attempts bounded, the lock released |
| Governance helpers (`governance/`) | none | pure: supersede chains, contradiction | cycles | chain resolution ends at the live head |
| Background jobs (`store/BackgroundJobStore.ts`) | leases | acquire, renew, finish | finish does not check the owner | one owner |
| Tool routing (`routing/`) | conversation-local | execution loop | bounded steps around a model | ends within the bound |
| Policy execution and projections (`store/Policy*`, `store/Runtime*`) | append-only logs and projections | synchronous | replays | projection is a function of the log |
| Recall, retrieval, lexicon, algorithm, assets, models, adapters, rest of host, mcp, bin, boards, config, migrations, snapshot, eval, benchmark, observability, encryption | caches or none | none that other parts rely on | text, scoring, I/O | not a question for a model checker |

The hazards of this code, each at its line, are in `PROJECT.json`, with the
properties that watch them; one has none, with the reason.

## 2. What is modelled

Fourteen specification modules, eight proof modules (section 5), five `MC`
modules. Each component is a module of its own with its own variables, `Init`,
`Next` and `Spec`; those whose state meets are composed by EXTENDS
(`DreamCurator` over `RawLedger`, `GovernedBeliefs` over `CandidateGovernance`
and `BeliefStore`) or INSTANCE (`AtLeastOnce`).

**`RawLedger`** is `memory_events`, its full-text index and the
recorders. A recorder is one synchronous call that becomes a queue of
statements `todo`; `Insert`, `IndexText`, `LinkNext` and `WipeIndex` execute the
head of the queue, one SQL commit each. No other call starts while `todo` is not
empty (`Idle`), since nothing yields in between; only `Crash` can fall between
two statements, and it drops the rest.

| Code | Model |
|---|---|
| `EventStore.append` (216–318) | `AppendEvent` = an insert and an index statement; `Insert` computes `global_seq`, `thread_seq` from MAX + 1 (`NextAfter`) when it runs |
| `turn.turnSeq ?? getNextTurnSeq(...)` | the argument `given` of `RecordTurn`: a number of the host, or `NotGiven` and `NextTurnSeq`, read once at the start of the turn |
| `rememberTurnWithResult` (recording half) | `RecordTurn`: user event, reply, link |
| `recordToolCall` / `recordToolResult` / `recordTaskEvent` | actions of the same names; the turn is stored as the host gives it, or not at all (0) |
| `recordRawImportedEvidence` | `RecordImported`: a message with the turn its adapter chose, linked to nothing |
| the kernel's own events (`INGESTED`, …) | `AppendInternal`: they take numbers but are not raw events |
| `updateNextEventId` | `LinkNext`: overwrites, no effect on a deleted row |
| `forgetUser` | `ForgetUser`: rows gone in one transaction, index rows stay |
| constructor, `rebuildRawEventFtsIfNeeded` | `Open`, `WipeIndex`, `IndexText` over the whole table |

Event ids are UUIDs in the code; the model numbers them in the order of the
INSERTs so that properties can speak of recording order. No action compares
them. `by` is a history column: whether the ledger or the host numbered the
turn. `event_version` equals `thread_seq` and is not kept apart. Text has three
values (`blank`, `noise`, `said`), as that is all the index and the curator
tell apart.

**`DreamCurator`** (EXTENDS `RawLedger`) adds the watermarks `mark`, the
recorded batches `log`, active provider warnings `warned` and the runs in
progress `run`. `StartRun` is `DreamCuratorWorker.run` up to its `await`;
`AnswerRuleOnly`, `AnswerFault` and `AnswerValid` are the three ways in which
`buildProviderCandidates` resumes (the last one submits the supersession loop);
`FinishRun` submits the three commits. Several runs overlap freely at the
`await`; the statements of one synchronous stretch do not interleave with
others. `MarkByHost` is `MemoryKernel.markDreamed` called by the host for an
event of the undreamed backlog (in `Next`, not in `CuratorNext`); a host that called it with an older number
would move its own watermark back, which is its right and no question about
this code. `CrashAll` loses the runs waiting for the model.

**`AtLeastOnce`** is the promise without the mechanism: events arrive, are
delivered in order without gaps, acknowledged only once delivered, and leave
only by deletion. **`DreamQueue`** instantiates it for one scope: arrived is
the live raw events of the scope (without recycled numbers), delivered those in
a batch with its candidates, acknowledged those at or below the watermark.

**`CandidateGovernance`** is the life of a candidate. A candidate is the
profile the policy looks at: kind of type, confidence in percent, whether its
source is an explicit user's, whether `isInferenceOnly` holds, its evidence
(none, some, some with a user's turn) and whether the target's fields are there.
`ByRules`, `ByModel` and `ByHost` are the profiles the three producers can
make: so inputs are only what the program can produce. `Writes*`, `Accepted`,
`Kept` and `Verdict` are the branches of `evaluateAndApply`. A pass is a set of
candidates decided oldest first; `WriteRow` (the target store's commit) and
`MarkPromoted` (`updateCandidateStatus`) are separate, with `Crash` in between.
Abstractions: a belief and its `BELIEF_UPSERTED` event are one row write; facts
promoted as provisional and as verified are not told apart; candidates for
entities name different entities; every candidate of the shipped producers
carries evidence, so the policy's `missing_evidence` rejection is in `Verdict`
but cannot be reached; the curator's provider warnings start as
`needs_confirmation` and belong to `DreamCurator`. `relation` candidates come
only from the orchestrator, which `internal.ts` exports for hosts.

**`BeliefStore`** is one canonical key (subject, predicate, scope): beliefs of
different keys are never compared. `Upsert` is `upsert` with `resolveConflict`
and `compareBeliefs`; `Strength` computes the weighted sum at the code's own
weights in integers (units of 1/200000; time in units of ten days, so that the
half-lives of 10, 30 and 90 days are exact; the halvings are a table, and
nothing is left after ten of them), since the thresholds ±0.12 and -0.05
decide. `Rivals`, `Beats`, `IsBeatenBy`, `FirstOf` are `findByCanonicalKey`,
the comparison and the choice of `supersedesBeliefId`. `now` is an input: an
ingestion passes the neuron's date, enrichment the clock, a promotion the
date of its candidate, so statements arrive out of order. `Candidates` is what
the callers can pass: extraction and enrichment with the trust of the source,
perhaps for a window (`Extracted`), and the promotion policy with the
candidate's confidence for a trust (`Promotion`). The key names no project, so
the beliefs of all projects meet in it. The kind of predicate is chosen at the start; the workflow kinds
differ from the others in weights only. The event appended after the
transaction and the evidence rows are read by no decision.

**`GovernedBeliefs`** composes the two: `promotePreference` over the beliefs of
one key. `says` is what each candidate states of the key, for which project and
since when (`content_json`, `created_at`), or `Elsewhere` for a candidate about
something else; `origin` is the candidate a belief names in its metadata.

| Code | Model |
|---|---|
| producers insert candidates with their content | `ProposeStatements` |
| `beliefCandidate`, `upsert`, and the belief it returns | `StoreStatement`: the belief commits, its candidate is marked by a later `MarkPromoted` |
| `upsert` returns no belief, the candidate needs confirmation | `SetAside`: rejection is decided by `Resolve` over the beliefs, where `CandidateGovernance` alone leaves it to choice |
| everything else in a pass, and a crash between the two commits | `PassAlone` |
| extraction, enrichment, calibration, the clock | `BeliefsAlone`, between passes, which are synchronous |

After a crash between belief and mark the next pass states the same belief of
the same date to a store that holds it and may have learnt otherwise meanwhile.

**`NeuronMemory`** is neurons and vectors under all their writers. An `ingest`
is a task with two awaits: `StartIngest` reads the predecessor's hash, `Activate`
or `PassCheck` follow the embedding, `Store` is everything after the summary.
`KernelCrash` may fall between the neuron's row and its vector. `ForgetProject`
is `forgetUser`. `Cycle` is one round of the metabolism loop with
`batchTransitionStates`; `MarkOrphan` is the orphan cleaner; `Cool` stands for
the SM-2 arithmetic, of which only the three ranges of energy that the
thresholds tell apart are kept. `onDisk` distinguishes a database file (each
store its own connection) from an in-memory kernel.

| Code | Model |
|---|---|
| `createdAt = input.createdAt ?? Date.now()`; imports pass the record's own date | `StartIngest` takes any of `Dates`: rows may be dated back |
| `getLatestNeuronSelfHash`: by that date, ties by a random id | `Latest`, a set from which the step picks one |
| `EpisodicSemanticDistiller`, `CrossTopicSynthesizer`, `TopicSummaryBoard`, `EvolutionVerifier` insert rows with an empty vector | `Distill`: a row that is `bare` |
| `TopicSummaryBoard` writes a summary anew or archives it | `RefreshSummary`, `ArchiveSummary` |
| `updateNeuronImportance`, by a host or by the decay of topics | `SetImportance`: pinning makes an archived row active, without its vector (`revived`) |
| `PrincipleDecayPolicy` | `DoubtPrinciple` |
| `getNeuronIdsForTransition`: pinned, active and cold rows, the longest inactive first, up to the limit | `Batch`: by `touched`, the first `BatchSize` |

**`OfflineConsolidation`** is the facts about one name and the entity instances
of that name, written by statements of several projects (`State` names its
instance; `StateOf` refers to one, or to none that is known), read by
`StartOffline` before the three awaited reviews and changed by `FinishOffline`
after them, with `ForgetFacts` in between. A run takes the winner of each group
by evidence, confidence and date (`Better`, `Group`), binds it if it is bound to
nothing, to whatever instance its object resolves to (`Resolutions`) and with a
confidence of 0.82 at least, verifies it, archives the others, or rejects them
if the binding has just changed the winner's key (`StatusAfter`), and merges the
instances, which lifts the facts it moves to 0.84 (`ConfidenceAfter`).
`consolidate({projectId})` reads entities of every project, as the code does. **`Maintenance`** is the row of
steps at the end of it: budget, checkpoint, expiry.

**`ReEmbedding`** is `neuron_embeddings`, the background embedding after an
ingestion, and the pipeline with its cursor: `TakeBatch`, `BatchAnswered` with
any part of the vectors, `BatchFails` with the vectors before the bad one kept,
`EndPass`. Runs overlap freely: nothing prevents it. Phase "next" stands for
the synchronous stretch from one await to the next.

**`BatchImport`** is `runOnce` for one source: raw evidence, ingestions,
processed marks, offline window, cut by a crash or a failing ingestion at every
place (`StartCut`, `CutImport`). `TakenFor` is `findImportedRawAnchor`: it
searches the record's thread for its anchor, or for the hash of its text. That
hash is of the raw text, while an event carries that of the redacted one
(`Redact`), so a text that redaction changes is never found by it. The file
grows and the user changes the window. `ImportQueue` maps it to `AtLeastOnce`.

**`Proposals`** is the ledger's life cycle, an evaluation around its await, and
`apply` and `rollback` around the read and the write of the configuration file,
with the ledger row after it. All calls interleave. Two overlapping evaluations
also clear each other's overlay; the overlay is not in the model.

**`RememberQueue`** is the OpenClaw plugin: the turn hook appends a job and
spawns a drain process; drain processes race for the lock directory, rename the
queue, remember its jobs, retry or bury those that fail. These are operating
system processes, so every file operation is a step of its own. One append to
the queue file is one step: a torn line is not modelled.

**`MCRecords`**, **`MCStores`** and **`MCLive`** bundle components whose stores
do not meet: a rigid variable `focus` says which component a behaviour is about,
the others stay in their initial state. The state space is the sum of theirs, not the
product, and every property is checked in the behaviours of its component.

Operators whose comment begins "A mutant" (or "Faulty variant") change one
definition the way a plausible bug would (a dropped guard, COUNT instead of
MAX, a swapped order). They are used by no action: substituting one for its
original makes TLC find the property violated, which shows that the property
can fail. `PROJECT.json` pairs every property with its mutant.

## 3. The runs

Deadlock checking is off (`CHECK_DEADLOCK FALSE`) in every run: the system is
free to stop, and the bounded instances do stop once their bounds are used up.

| Run | Checks | Instance and why it is enough |
|---|---|---|
| `records` | `TypeOK`, `ReplayOrder`, `TurnWhole`, `LinksAgree`, `IndexComplete`, `Traceable`, `NotAskedInForce`, `SilencedFromOutside`, `BeliefSpec` | *ledger*: 2 projects sharing 2 threads, all recorders of a host that leaves the numbers of turns to the ledger, deletion of either project, 4 events, 1 crash. Four events are two turns with replies, or a turn with a tool call and its result; numbering errors need one deletion between two insertions, index errors one crash. *numbers*: one thread in which turns, tool calls and imported messages may come with the number 2 of a host, which may lie ahead of the ledger's own or be one it has given. *governed*: two candidates, one at a time, each either one that may be promoted (confidence 74, the threshold) or one with no user behind it; 2 projects and 2 values of one key, 3 beliefs, ten days, one crash between belief and mark. In a key of facts one belief is extracted with the greatest strength (`verified_fact`, 96), which supersedes a promoted one or turns a candidate away; in a key of preferences newer ones supersede older ones by themselves. Three beliefs are a promoted one, what supersedes it, and what a repetition after the crash would add. Symmetric in projects and threads; the first belief's value is fixed. |
| `dream_one` | `RedreamBound`, `WarnedOnce`, `MarkMonotone`, `QueueSpec` | one run at a time over a project and the global scope, batches of 1 and 2 among 3 events, every kind of answer, one crash, no marks by the host (`CuratorSpec`). `MaxRuns` = 8 is all that 3 events, 2 scopes and a repetition after the crash can use: a greater one adds no state. |
| `governance` | `UserBacked`, `Accounted`, `Final`, `Settles` | three families: one candidate of every profile, with confidences on both sides of every threshold (0.60, 0.72, 0.74, 0.86); two candidates in one run or two; three that fill a pass of limit 2. 2 crashes. |
| `stores` | `CoverageRecorded`, `Lineage`, `SilentOnlyAfterWindow`, `LatestPreferenceWins`, `HistoryFixed`, `StaysAnswered`, `Grounded`, `Findable`, `CopiesBounded`, `ForkBounded`, `AppliedInForce` | *curator*: two overlapping runs, a host that moves the watermark, 3 recorded batches, the least with which a slow run overwrites the watermark of a fast one. *beliefs*: preferences and facts, 2 values, 3 kinds of claim (the extremes of the extraction rules' confidence and a weak inference) and promotions of confidence 85, windows of 20 days, 3 statements at any date within 20 days, one positive feedback; three rows are the least in which one belief supersedes two. *offline*: a project and statements without one, a purchase, a weak statement of better evidence and a strong one of worse that say the same, bound or unbound, 3 statements, 2 runs. *neurons*: 2 tasks, one text, one crash, batches of 2, file and memory; ingestions, distilled rows (which count twice) and rewritings of a row are 3 together, all of one date. *chain*: ingestion, distillers, deletion and crash without the metabolism, 3 rows, 2 dates, so that rows are dated back and alike. *proposals*: 2 proposals of which one sets a key of the other and one of its own, 3 evaluations, a reject, a crash. Symmetric in the values of beliefs and in tasks (safety only). |
| `live` | `NoneRevived`, `EvidencedOnce`, `ReingestBound`, `KeptUnlessKilled`, `KeepsEmbedding`, `ImportQueued`; under fairness `Drains`, `FadesInMemory`, `Converges`, `EventuallyImported`, `MaintenanceReachesAll`, `Unlocked` | *curator*: noise included and a batch limit of 1, so that noise alone fills a batch. *metabolism*: 2 neurons, of ingestions or distilled, that batches of 1 look at one by one, and one rewriting of a row: a pinned neuron may stand before a faded one. *embedding*: 3 neurons, batches of 2, two overlapping runs, a deletion, a restart with the same or another model. *import*: 5 records, of which two repeat a text of their thread, one the text of another thread, and two say what redaction takes out; two windows with one start, one cut, two changes of the window. *maintenance*: the 6 steps of the code, one expiry, one throw. *remember*: 3 turns of which two have one key, 2 drain processes, 2 attempts, a kill, a restart of the host. |
| `dream_recycled`, `governance_inferred`, `governance_evidence`, `metabolism_stalls`, `merge_archives_all`, `import_repeats`, `remember_discarded` | one property each, violated | see section 6 |

What the properties say, in short.

*Ledger and curator.* `ReplayOrder`: both numberings order live events as they
were recorded. `TurnWhole`: prompt and reply of a turn are neighbours in their
thread, and a number the ledger gives a turn is new to the thread. What a host
or an import supplies is stored as it is: two of their turns can share a number. `LinksAgree`: next and previous links
are inverse where both ends live. `IndexComplete`: when no call is in progress
the index holds exactly the events with text, unless rows were deleted under
it. `CoverageRecorded`: what a watermark covers is in a recorded batch of its
scope. `RedreamBound`: an event is in at most one batch more than there were
crashes. `WarnedOnce`: one active warning of a kind. `MarkMonotone`: with one
run at a time a watermark does not go back (with two it may, and the events
between are then dreamed twice, never skipped). `QueueSpec`: the refinement of
`AtLeastOnce`. `Drains`: the backlog empties. `RedreamBound`, `WarnedOnce` and
`MarkMonotone` assume one run at a time, which is what the documentation asks
of the host's schedule (`src/MEMORY_MODEL.md:69`); `CoverageRecorded` does not.

*Governance.* `UserBacked`: no durable row without a user's words or turn
behind it, none from a shadow. `Accounted`: promoted candidates and rows agree
up to one row per crash. `Final`: a decision is never revised by the policy.
`Settles`: the queue is worked off.

*Beliefs.* `Lineage`: a superseded belief was replaced by a later row of
another value that begins where it ends. `HistoryFixed`: it is never changed
again. `SilentOnlyAfterWindow`: a key that was stated has an answer today,
except that a statement about a passing window replaces the standing belief for
good. `LatestPreferenceWins`: of preferences stated in the order of their dates
by one source, with no trust ever calibrated, only the latest value is active;
the span of confidences of the extraction rules is just small enough for it.
`SilencedFromOutside`: a project whose beliefs of a key are all superseded had
one of them superseded by a statement of another project; its own statements
never leave it without an answer.

*Governance over beliefs.* `Traceable`: a belief that names a candidate says
what the candidate says, for its project and from its date on, and the policy
may promote that candidate; and a promoted candidate has such a belief, crash or
no crash. `NotAskedInForce`: no user is asked to confirm what is already in
force on the same candidate's account; a repetition after a crash is strong
enough to be stored again at any later date. `BeliefSpec`: whatever passes,
extraction and crashes do together, the key goes through the steps of
`BeliefStore` only.

*Neurons and vectors.* `Findable`: the index holds no dead neuron. Of the others
it misses those written without a vector, those pinned out of the archive, and
at most one per crash; so neither metabolism nor deletion loses one.
`CopiesBounded`: duplicates of a text are bounded by the ingestions that ran
together. `ForkBounded`: so are the followers of a neuron that are dated after
it, but for one distilled row. It says nothing of rows dated back: an import of
old records attaches each of them to the newest neuron there is.
`FadesInMemory`: a faded neuron leaves active memory unless a whole batch of
neurons that stay (pinned, or with energy) was inactive for longer; these are at
the head of every batch, and what is behind them is never looked at (section 6;
for a file see there, too).
`NoneRevived`: a deleted neuron has an embedding only if one was in flight when
it was deleted (the hazard is real: then it has, until the next model).
`KeepsEmbedding`, `Converges`: no neuron loses its vector to a partial answer,
and no row of an old model stays.

*Facts and entities.* `StaysAnswered`: facts that were archived or rejected never
replace each other in a circle, so their successors end at one that is neither,
and merged instances are related to another. `Grounded`: no fact is verified on
its own weak word; it takes a strong one, another fact merged into it or deleted
during a review, a merge of its instance, or that it was said of no instance and
a run has bound it to one (which lifts any confidence to 0.82).

*Import, proposals, maintenance, remember queue.* `EvidencedOnce`,
`ReingestBound`, `ImportQueued`, `EventuallyImported`: what was ingested rests
on a raw event of its thread with its text, of which a record has at most one
and a text that redaction leaves alone one per thread; repeats only after a cut
or a change of the window, in order, marked in the end. `AppliedInForce`: under the conditions it lists the file is the original
with the applied proposals laid over it; each condition is needed, and the code
enforces none of them. `MaintenanceReachesAll`: no step starves.
`KeptUnlessKilled`, `Unlocked`: no job is dropped and the lock is released,
unless a process is killed.

## 4. Fairness

Safety runs assume none. In the run `live` each module's fairness is asked of
the behaviours whose `focus` it is (`LiveFairness` repeats the modules' formulas
with that conjunct, as a bundled behaviour of one component owes nothing to the
others).

*Curator* (`DreamCurator!Fairness`). Weak
fairness of: the statements of a synchronous call and the restart (a
synchronous call runs to its end; the operator restarts the process); the
answer of the model (the clients in `models/` have a 60 s timeout, so the
awaited call settles one way or another) and the finish after it; and the start
of another run of a watched scope when none is in progress (`cogmem memory
dream --watch`, `bin/memory.ts`). Nothing is assumed of the recorders.

*Candidates* (`CandidateGovernance!GovernanceFairness`, run `governance`). Weak fairness of
the steps of a pass, which is synchronous, and strong fairness of starting a
pass for each governed scope: the watch loop's timer fires again and again, and
a pass of another task that is running at the moment delays it but cannot keep
it off for ever.

*Metabolism.* Weak fairness of the start of the loop and of its next round: the
loop runs on a timer. *Re-embedding.* Weak fairness of the loop between awaits
and of starting a pass; strong fairness of a complete answer, for a provider
that keeps leaving vectors out converges to nothing. This supposes a host that
keeps calling `ReEmbeddingPipeline.run`; no shipped program does. *Import.* Weak
fairness of the steps of an import and of running the command again with the
same window. *Maintenance.* Weak fairness of starting and of the end of a step,
whether the budget is used up or not. *Remember queue.* Weak fairness of every
drain process that is not killed. Nothing is assumed of users, hosts' turns,
deletions, crashes or kills.

## 5. The proofs

Eight modules hold proofs, of every property the passing runs check that is
within the prover's reach. In each row the theorem is `Specification => []P`,
or `Specification => P` where P is an action property or a specification.

| Module | Specification | Theorem | Property |
|---|---|---|---|
| `RawLedgerProofs` | `LedgerSpec` | `LedgerInvariant` | `IInv` |
| | | `LedgerTypes` | `TypeOK` |
| | | `LedgerReplay` | `ReplayOrder` |
| | | `LedgerLinks` | `LinksAgree` |
| | | `LedgerTurns` | `TurnWhole` |
| | | `LedgerSearch` | `IndexComplete` |
| `DreamCuratorProofs` | `Spec` | `DreamInvariant` | `DInv` |
| | | `DreamTypes` | `DreamTypeOK` |
| | | `DreamCoverage` | `CoverageRecorded` |
| | `CuratorSpec`, if `OneRun` | `OneRunInvariant` | `OneInv` |
| | | `RedreamsBounded` | `RedreamBound` |
| | | `WarningsBounded` | `WarnedOnce` |
| | | `MarksGrow` | `MarkMonotone` (action) |
| | | `CuratorIsQueue` | `QueueSpec` (refinement) |
| `BeliefStoreProofs` | `BeliefSpec` | `TypeCorrect` | `BeliefTypeOK` |
| | | `LineageHolds` | `Lineage` |
| | | `OnlyOthersSilence` | `SilencedFromOutside` |
| | | `HistoryIsFixed` | `HistoryFixed` (action) |
| | | `SilenceNeedsAWindow` | `SilentOnlyAfterWindow` |
| | | `LatestPreference` | `LatestPreferenceWins` |
| `GovernanceProofs` | `GovernanceSpec` | `GovernanceInvariant` | `GInv` |
| | | `GovernanceTypes` | `GovernanceTypeOK` |
| | | `RowsUserBacked` | `UserBacked` |
| | | `RowsAccounted` | `Accounted` |
| | | `DecisionsFinal` | `Final` (action) |
| | `GovernedSpec` | `GovernanceImplemented` | `GovernanceSpec` (refinement) |
| | | `StoreImplemented` | `BeliefSpec` (refinement) |
| | | `GovernedRows` | `UserBacked`, `Accounted`, `Final` |
| | | `GovernedKey` | `Lineage`, `SilentOnlyAfterWindow`, `LatestPreferenceWins`, `HistoryFixed` |
| | | `GovernedSilence` | `SilencedFromOutside` |
| | | `GovernedTypes` | `GovernedTypeOK` |
| | | `BeliefsTraceable` | `Traceable` |
| | | `NoIdleQuestion` | `NotAskedInForce` |
| `NeuronProofs` | `EmbeddingSpec` | `EmbeddingTypes` | `EmbeddingTypeOK` |
| | | `DeletedStayDeleted` | `NoneRevived` |
| | | `EmbeddingsKept` | `KeepsEmbedding` (action) |
| | `NeuronSpec` | `NeuronTypes` | `NeuronTypeOK` |
| | | `RowsFindable` | `Findable` |
| | | `CopiesStayBounded` | `CopiesBounded` |
| | | `ForksStayBounded` | `ForkBounded` |
| `IntakeProofs` | `ImportSpec` | `ImportTypesHold` | `ImportTypeOK` |
| | | `EvidenceOnce` | `EvidencedOnce` |
| | | `ReingestStaysBounded` | `ReingestBound` |
| | `ImportSpec`, if `OneStart` | `ImportIsQueue` | `ImportQueued` (refinement) |
| | `RememberSpec` | `RememberTypes` | `RememberTypeOK` |
| | | `HandedOverIsKept` | `KeptUnlessKilled` |
| | `MaintenanceInit`, `MaintenanceNext` | `MaintenanceTypes` | `MaintenanceTypeOK` |
| `ConsolidationProofs` | `ProposalSpec` | `ProposalTypesHold` | `ProposalTypeOK` |
| | | `AppliedStayInForce` | `AppliedInForce` |
| | `OfflineSpec` | `OfflineTypes` | `OfflineTypeOK` |
| | | `AlwaysAnswered` | `StaysAnswered` |
| | | `VerifiedOnGround` | `Grounded` |

`SetLemmas` holds what the others keep needing: the greatest and the least of a
finite set of numbers, the rows a LIMIT returns, the columns of a finite table,
functions as sequences, an overwritten place of a sequence, the places of a
sequence.

**Assumptions.** The theorems hold for all projects, threads, recorders, runs,
limits, claims, windows, tasks, proposals and bounds that satisfy the named
ASSUMEs of the modules, which TLC evaluates in every run. They say that bounds
are naturals and batch sizes positive, that inputs are among those the types of
the code allow (confidences, sources, candidate profiles), that `NoThread`,
`Global`, `All`, `NoProject` and `Original` are none of the values they stand
beside, that there are finitely many concurrent ingestions, that what an
import reads are records of its file, that `Elsewhere` is no statement of the
key, and that the confidences with which the policy promotes preferences are
among the `Promotions` the belief store expects. Two theorems have a hypothesis of
their own. `OneRun` (there is one run identifier, so runs of the curator do not
overlap) is the schedule `src/MEMORY_MODEL.md:69` leaves to the host; with two
runs the slower one can move a watermark back, and `RedreamBound` and the
refinement fail, while `CoverageRecorded` is proved without it, and with marks
by the host (`Spec` has them, `CuratorSpec` has not). `OneStart`
(every window of an import is the first n records) is an import that is repeated
with a later end; a window that begins elsewhere delivers out of order, and only
the refinement, not the bounds, needs the hypothesis.

**Ledger.** `TypeOK` and `ReplayOrder` are not inductive: that the next `Insert`
has a fresh, greater number depends on what is left in `todo`, and that an
index or link statement refers to an event that exists depends on its place in
the queue. `IInv` adds the shape of the queue (`WellShaped`): which statements
may follow which, and which ids they may name given `born`. With it each of the
statements preserves types, and the counters are greater than all live ones
because MAX + 1 is taken in the same step as the insert. Links, turns and
index need more than the shape: `LInv` says what the statements left are about
to write. `Planned`: a link statement leads forward to the row that names
its source as its parent, a user's message still to come that the ledger
numbered has a turn no live row of its thread has, and a reply follows its
prompt at once, with the prompt's turn.
`RowsOrderly`: parents are older than children. `Searchable`: the index lacks at
most the rows of the index statement at hand, and a wipe is followed by the
indexing of all rows.

**Curator.** `CoverageRecorded` speaks of watermarks that are written, while the
danger is in those about to be: a run that waits, or a mark statement still in
`todo`. `DInv` therefore says, of every run in progress and every such
statement, that the events up to its `top` which its scope contains are either
recorded already or in its own batch (`Covers`), and that the order of its
statements puts the batch first. The second half of the argument is about the
other actions: what an insertion or a deletion may do to the set of live,
non-recycled events below a number (`RowsDelta`, `CoversStable`): insertions
there are exactly the recycled ones.

*One run at a time* (`OneInv`). An event beyond the watermark was in at most as
many batches as there were crashes (`Settled`), what a run holds is such events
(`Fresh`), and `Stage` follows this through the three commits: at rest, to
record, to propose, to mark. A crash in any of them raises the allowance by
one. Bounds, warnings and the monotone watermark follow from it, and so does
the refinement: an `Insert` of a raw event of the scope is `Arrive`, the commit
of the candidates is `Deliver`, that of the watermark is `Acknowledge`,
`ForgetUser` is `Remove`, everything else stutters. Two facts are needed
besides: a call in progress has events left for its insertions (`Room`), and
what is delivered has no gap (`DeliveredInOrder`).

**Governance.** `GInv` says what holds between the two commits of a promotion
(`HalfDone`: the candidate is still open, deserves its row and has it), that
every row was deserved by a candidate that is no shadow (`Deserved`), and the
books themselves: rows and promoted candidates differ by one for each crash and
one for the write in progress, an equation between cardinalities.

**Beliefs.** `Lineage` is inductive once the rows have their types. The steps of
the argument are what `Upsert` does to the rows one by one (`UpsertRows`): it
marks active rows only, none of which any row names as replaced (a named row is
marked), and appends one row of another value than theirs; and that `FirstOf`,
defined by CHOOSE, picks one of the rows it is given (`FirstOfMember`, because a
finite set has a last row). `SilencedFromOutside` follows from it: the
successor of a project's last row is a later row, and so another project's.
`SilentOnlyAfterWindow` needs `Standing`: a key with
rows has an active one, no row begins after today, and an active row that is
not about a window has no end. `LatestPreferenceWins` is the arithmetic of the
weights: a newer preference is at least as fresh as an older one
(`FreshnessFalls`), so 17 points of confidence are the only advantage the older
one can have, and they weigh less than the margin (`NewerBeats`). Its hypotheses only get
stronger as rows are added, and so it is inductive by itself.

**Governance over beliefs.** Every step of the composition is a step of
`CandidateGovernance` or changes none of its variables (`GovernedStep`), and the
same for `BeliefStore`, once it is known that a candidate at hand is one the
store expects (`ClaimExpected`): it is one the producers can make and is dated
no later than today (`Stated`). So both components' theorems hold of the
composition. `Traceable` is not inductive: the candidate is marked in a later
step than its belief commits, so `HalfStated` says that the belief is there
when the mark is due. `NotAskedInForce` needs arithmetic. A candidate that is
set aside while its belief is active faces a rival of its own value, so it was
turned away as a restatement; that is for a strength below 144000, and a
promotion that the policy lets through is at least that strong in every kind of
key (`PromotionStrong`), because it is judged at its own date, fully fresh
(`RestatementStored`). Later steps keep it: a decision is final, and a
superseded belief does not become active.

**Neurons and vectors.** `NoneRevived` becomes inductive with `CaughtInFlight`:
every answer in flight for a deleted neuron was counted as caught when it was
deleted. The three bounds on ingestion are not inductive, because between the
probe of an ingestion and its insert nothing in the store says that a copy is on
its way. The invariant counts both: the followers of a neuron dated after it and
the ingestions so dated that have read it as the last one (`Forks`), copies of a
text and ingestions past the duplicate check (`Repeats`), rows and ingestions in
flight (`Room`). Dates need not grow, so the argument is that of `Latest`: a row
picked as the last one has no follower dated after it at that moment
(`LatestUnfollowed`), and whatever is dated so later counts among those that
were in flight with it. A distilled row is written where it reads its
predecessor, so a neuron has one at most (`Twins`). A pinned neuron of an
ingestion is not in the archive (`PinnedActive`), so no cycle returns one to the
index beside its copy.

**Import and remember queue.** The bound on repeated ingestions follows from
`Spent`: a record that the next import of the same window would ingest was
ingested at most once for each cut and each change of window so far. `Grounds`
puts its evidence there from the start of the import; that a record without an
event of its own still has one of its text needs that being taken for one
another is transitive (`TakenThrough`), for redaction changes nothing twice. The refinement needs
`InOrder`: no record is marked, and none ingested, before those ahead of it. For the remember queue every job holds a ticket for each
attempt left to it; an attempt gives one up and records its turn at most once,
so records and tickets of a turn together never exceed those its jobs came with
(`Owing`), wherever renames and retries move the jobs.

**Proposals and consolidation.** `AppliedInForce` follows because each applied
proposal saved the file it was laid over: `Stacked` says so of every place in
the stack of applied proposals, `Underway` of a call between its reads, its
write and its row. It is claimed as long as the host is orderly (`orderly`).
For a consolidation run, what it read before its reviews is still so or was
deleted (`Reviewing`); only retired facts have a successor (`Replaced`); a fact that is
not where it was said to be was said of nothing or of a merged instance
(`Moved`); and whatever has the confidence to be verified next time has the
grounds for it now (`Strong`).

**What the proofs corrected.** Three properties held in the runs only because
of their bounds, or could not be reasoned about, and were restated. `Grounded`
did not except deletions during a review and merges of instances; with three
runs and a limit of one fact TLC violates its old form. `LatestPreferenceWins`
asked for rows with their source's trust and not for a key that was never
calibrated; a trust that is raised, survives a newer preference and is lowered
again violates that. It asks for both: a promotion brings a trust of its own.
`StaysAnswered` followed successors by recursion; it now says that no set of
retired facts is closed under succession, which is the absence of circles. Two
definitions were rewritten with the same values: `Freshness` looks its
half-lives up instead of raising two to a power, and `Proposals` restores
the other applications by `Without`.

**Only model-checked.** All liveness properties (`Drains`, `Settles`,
`FadesInMemory`, `Converges`, `EventuallyImported`, `MaintenanceReachesAll`,
`Unlocked`): fairness and ENABLED are out of the prover's reach. Every safety
property, action property and refinement of the passing runs is the property of
a theorem above, the bounds of the runs' own MC modules apart: these only leave
steps out. The type invariants of all modules are proved, and besides
`RawLedger`'s checked by no run.

## 6. Disagreements

Seven runs state what a document or comment says and find it violated.

* `dream_recycled`: `getNextGlobalSeq` is MAX + 1, `forgetUser` can delete the
  newest rows, `dream_ledger_state` keeps its watermark. New events then get
  numbers below it and count as dreamed although no run sees them
  (`src/MEMORY_MODEL.md:13`, `:54`). `CoverageRecorded` excepts exactly those
  events (`recycled`).
* `governance_inferred`: the branches for summaries and preferences come before
  `isInferenceOnly`, so inferred content is promoted if a user's turn is in its
  evidence (`src/MEMORY_MODEL.md:67`).
* `governance_evidence`: an answer of the model that names no event of the
  batch gets the first four as evidence (`DreamCuratorWorker.ts:477`), so
  evidence is never missing and never known to be the model's own
  (`src/MEMORY_MODEL.md:67`, prompt in `DreamCuratorWorker.ts:252`).
* `metabolism_stalls`: on a database file the first archival ends the
  metabolism loop. Its lifecycle event goes through the event store's
  connection while the graph's transaction holds the write lock
  (`core/Metabolism.ts:63`, `factory.ts:354`); the transaction is rolled back,
  the loop does not catch the error and does not start again.
* `merge_archives_all`: the merge of same-name instances keeps the freshest row
  of any status and stamps the archived one with the present time; the next run
  archives the survivor (`engine/OfflineConsolidationPipeline.ts:452`).
* `import_repeats`: a record has one mark naming one window, so importing a
  wider window and then the first again ingests its records again, against
  `src/README.md:224`.
* `remember_discarded`: a killed drain process leaves its renamed file, which
  nobody reads, and its lock, which stops every later drain, against
  `src/examples/openclaw-backend/SKILL.md:211`.

Noted without a run:

* `cogmem memory dream --watch` in a process of its own next to a host that
  records is a second writer, which `src/CONCURRENT_ACCESS.md` rules out; the
  models follow that document.
* The rebuild of the full-text index compares counts; deleted events leave
  index rows, so a count can agree while an event is missing. `IndexComplete`
  excepts the time from a deletion to the next wipe.
* No two neurons of a project with one predecessor is what `utils/hash.ts`
  suggests. Concurrent ingestions fork the chain, and so does an import: its
  rows carry the dates of the records (`batch/adapters/types.ts:268`), the
  latest row is the one of the latest date (`core/MemoryGraph.ts:504`), and so
  each back-dated row takes the same predecessor, one after the other.
  `ForkBounded` is what holds.
* A cycle of the metabolism takes the 1000 rows inactive the longest, pinned ones
  included (`core/MemoryGraph.ts:860`). 1000 pinned or stable rows older than the
  rest fill every batch, and no other neuron fades. `FadesInMemory` excepts it.
* The rows of distillers, topic board and evolution verifier have no vector, and
  a neuron pinned out of the archive does not get its own back
  (`core/MemoryGraph.ts:771`): neither is recalled by vector or found as a
  duplicate. `Findable` excepts them.
* A turn of a host or an import with a number of its own can share it with
  another turn of the thread (`agent/AgentMemoryBackend.ts:198`).
* The evidence of an imported text that redaction changes is not recognised by
  its text (`bin/import-support.ts:423`, `factory.ts:694`): two such records of a
  thread have an event each.
* Binding an unbound fact to an instance during a consolidation raises its
  confidence to 0.82 (`engine/OfflineConsolidationPipeline.ts:334`), whatever it
  was: the next run verifies it with nothing else to go on.
* A superseded belief with a passing window is not succeeded by the one it
  replaced; `forgetUser` leaves beliefs, entity instances and processed marks.
* A consolidation reads at most 500 facts, the newest: older ones are never
  reached while there are that many. `FactLimit` is in the model, at 3.

## 7. What is not modelled

Read-only parts (recall, retrieval, explanations, counting) and text or
numerical heuristics (lexicons, extraction, scoring, vector search, activation
of synapses) have no state machine to check: they are the greater part of the
source, which is why the mapped lines are a small share of it. What the text
extraction yields enters the models as inputs (`Claims`,
`Statements`, candidate profiles). Adapters, the protocol server, the
command line, migrations, snapshots and configuration are input and output;
background jobs and boards are wired by no shipped program; the
execution loop and the policy projections are sequential. `dist/` is the
generated build. Branches of the promotion policy that need a relation store or
`promoteCausalLinks` are dead under the kernel's wiring, as is the branch of
`resolveConflict` for narrower scopes. SQLite itself is assumed to commit each
statement or transaction atomically and durably. Left out of modelled
components: feedback on failed executions in the instance of `stores`; the
half-lives of decisions and constraints; the filter by project, the limit of 200
rows and the scores of a query of beliefs (`Believed` is a key of all projects);
trust and dates an enrichment hook of a host may pass (none is shipped); the
limit of 500 conclusions among which a provider warning is looked for; imported
summaries as support of a fact, confidences from 0.75 to 0.8 where the semantic
compiler decides, facts promoted as verified, and instances of another name;
proposals of mode `patch_only` and the overlay, pending entity references,
deletions so large that SQLite's limit of bound variables makes their
statements fail (`factory.ts:1072` swallows the error), torn appends to the
remember queue.

## 8. The plan

Done: the fourteen specification modules, their runs, and the proofs of every
safety property, action property and refinement the passing runs check.

Left, in order: pending entity references; the leases of background jobs; more
keys than one in `GovernedBeliefs`, with the facts and summaries a pass writes
beside them; and more of what the adapters and the command line do around the
modelled components.

# sealAI v2: specifications of its memory, its records, its outboxes and the chat turn

This directory holds TLA+ specifications of the stateful core of the sealAI
backend (`src/backend/sealai_v2`) and of its backups (`src/ops`), TLC
configurations that check them on small instances, and proofs that TLAPS checks
for every size. Paths below are relative to `src/backend/sealai_v2` unless they
begin with `src/`.

Contents: [the system](#the-system), [inventory](#inventory),
[hazards](#what-is-hard-to-test), [modules](#modules), [runs](#runs),
[fairness](#fairness), [proofs](#proofs), [findings](#what-the-runs-found),
[limits](#what-is-not-modelled), [plan](#plan).

## The system

sealAI answers questions about sealing technology. A chat turn recalls the
case (transcript, facts stated by the user, values an engineering kernel derives
from them), retrieves reviewed technical knowledge from a vector index, decides by
rule how much generation and review the question deserves, lets a language model
write an answer under guards and, where it is due, under a second model that
criticises it, and writes the exchange back. After the answer a background task
distils further facts from it. The knowledge itself lives in a ledger in Postgres
and reaches the index through an outbox; so do the memory items that users curate.
Material evidence is reviewed by humans (four eyes) and by agents, and hands out
rules only while it is approved. A shadow subsystem evaluates, without any effect
on the answers, which versioned material rules would have applied.

```
   browser --HTTP/SSE--> api/routes --> pipeline.run ----> case memory (Postgres)
                            |            |   |  \             ^      ^
                            |       cache   |   remember ----'      |
                            |       policy  |   task (asyncio)      |
                            |       guards  |                       |
                            |       critic  '--revalidate--> ledger |
                            '-- memory surface: edit, forget, ------'
                                clear, compute, refresh interview
   catalog import, human review --> knowledge ledger --> outbox rows --.
   status requests, purge --> curated memory items --> outbox rows --. |
                                                                     v v
            outbox_daemon / release drain-all --> drain --> vector index (Qdrant)
   capture --> pins, session versions, jobs --> shadow worker --> evaluations
   experts, agents --> evidence reviews --> medium catalogs --> reviewed rules
   backup_qdrant.sh --> snapshot --> local copy --> offsite copy --> retention
```

The API is one uvicorn process with one event loop (`src/backend/Dockerfile.v2`,
the `CMD`), so what a coroutine does between two `await`s cannot be interleaved;
the daemon, a release's `drain-all`, the shadow workers and the command-line tools
of the evidence reviews are other processes and meet the API only in database
transactions.

## Inventory

State, operations and correctness of each part. `PROJECT.json` lists the same
parts with their files and status.

| part | state | operations | what makes it correct |
|---|---|---|---|
| case memory (`db/conversation_memory.py`, `pipeline/pipeline.py`, `api/routes/conversations.py`, `compute.py`) | session row with `case_revision`, messages, facts, derived slice, interview row, the registry `_pending_remember` of background tasks | recall, record_turn, merge_facts, edit_fact, delete_fact, set_derived, clear, flush_memory | an answer is committed only onto the case it was computed from; what the user forgot stays forgotten; nobody waits for ever |
| interview state (`db/interview.py`, `core/interview`) | one row per case with a `state_revision` | save_evaluation, clear; the choice of the next question is pure | the row is never ahead of its case |
| cross-session memory (`db/cross_session_memory.py`) | durable facts per owner | remember_durable | holds only what was merged into a case |
| chat pipeline (`pipeline/pipeline.py`) | the local state of each running turn | run | what is shown is what was guarded, verified and recorded |
| execution policy and answer cache (`orchestration`) | cache keyed by tenant, question and the namespace of versions | decide_execution, get, put, expiry | no model call without evidence, no risky case without review; a hit fits every later asker |
| answer generation and guards (`core/l1_generator.py`, `l3_verifier.py`, `output_guard.py`) | none shared between requests | generate, two passes of the guard, run_verify, run_parametric_guard, fallbacks | no guard undoes what an earlier one ensured |
| retrieval index access (`knowledge/qdrant_retrieval.py`) | none of its own | search, resolve_claims | answers rest on claims the ledger serves |
| knowledge ledger (`knowledge/ledger.py`) | document revisions, claims, human reviews, outbox rows | replace_catalog, review_claim, retire_card | the last outbox row tells the truth; human verdicts survive imports |
| knowledge outbox (`knowledge/outbox_worker.py`, `memory/outbox_daemon.py`) | row status, attempts, backoff, lease; index points | drain: lease, project, settle | the index ends up as the ledger says; each row is settled |
| shadow outbox (`material_shadow/worker.py`) | jobs with lease and attempts, evaluations | claim, complete, fail, give up | each job settled once, in its session's order |
| shadow bindings (`db/material_shadow.py`, `material_shadow/resolver.py`, `capture.py`, `reconciliation.py`) | bindings and their events, pins, session versions | create, terminate, persist_pin_and_job, reconcile | a session keeps its frozen binding; replays create nothing |
| curated memory (`db/memory_store.py`, `memory/`) | memory items, events, outbox rows, index points | create_candidate, transition_status, purge, drain_outbox, retrieval and revalidation | nothing withdrawn reaches a prompt; purged items were deleted; rows are settled |
| case decisions (`db/case_decisions.py`) | snapshots, decisions, approvals (append-only) | create_case, create_snapshot, create_decision, add_approval | numbers without gaps; the status is that of all reviews; reviewers are independent |
| material evidence review (`db/material_evidence_review.py` and its v2, `core/material_evidence_review.py`) | reviews, snapshots, lifecycle events | create_review, store_snapshot, review, reject, approve, revoke, quarantine | four eyes over the whole history; a withdrawal is final |
| medium catalog, reviewed rules (`db/medium_catalog.py`, `db/material_reviewed_rules.py`) | stored catalogs | store_snapshot, load_snapshot, load_capability and its accesses | what is handed out was approved all together at one moment |
| AI evidence review (`db/material_evidence_ai_review.py`, `material_evidence_ai_review/`) | submissions, lifecycle events, challenges, adjudications, receipts of runs | submit, run_claude_challenge, record_challenge, record_adjudication, quarantine, revoke | one challenge; what passes was disposed of by three runs; disagreement quarantines |
| evidence manifests, evidence binding, rulesets (`core/material_*`, `db/material_*`) | append-only records addressed by content | import, bind | validation of single documents |
| backups (`src/ops/backup_qdrant.sh`, `src/ops/backup_safety.py`, `src/ops/production-storage-lease.sh`) | server snapshots, local copies and checksums, offsite copies and receipts, the lease | a run, upload, receipt, retention | no snapshot is lost; enough copies stay |
| engineering kernel (`core/calc`) | none | formulas | arithmetic over reals |
| streaming (`api/sse.py`, `api/routes/chat.py`) | the task of each open stream | stream, cancel on disconnect | a cancelled run leaves the case consistent |
| security, consent, leads, other HTTP routes | single rows | checks, inserts | per request |
| evaluation harness, frontends, release and clean-up scripts | none at run time | | |

Interactions that matter: turns and memory requests share the case rows and the
registry; turns share the answer cache; the remember task of a turn outlives its
request; the ledger and the drain share claims and outbox rows (the drain writes
`qdrant_sync_state` into claims that reviews change); turns revalidate what the
index finds against the ledger, and prompts what the memory index finds against the
memory table; catalogs and reviewed rules rest on evidence reviews that may be
withdrawn at any time; captures and workers share jobs; a release runs `drain-all`
while the daemon of the running release polls; an external workflow uploads backups
while runs and retention are under way.

## What is hard to test

`PROJECT.json`, "hazards", gives those that a property watches, each at its line.
In short:

- *Stale snapshots.* An answer takes seconds; edits, another tab's turn or the
  previous turn's distiller change the case meanwhile, and claims are withdrawn.
- *The registry of background tasks* has one slot per case, lives in memory,
  and is awaited by requests that can themselves be cancelled.
- *Handlers of several transactions* (settling a turn, the parameter form) stop
  half way on an error; an answer is cached before the turn is recorded.
- *Seven guards in a row* each replace the answer, and mappings, verdicts, hedges
  and fallbacks refer to one of its earlier forms.
- *Long legal sequences* in the ledger: import, review, removal, return under
  another contract or another revision.
- *Locks that miss what they should cover*: an import locks the active claims of its source
  and reads a returning inactive one without a lock; the reaper of memory items selects without
  one and deletes by key.
- *Two drainers, leases, backoff and crashes* in the outboxes, where order
  between rows of one claim (or one session version) must survive.
- *Rows that can be neither claimed nor finished* and block what comes after.
- *Check, then write*: reviews, snapshots and status requests decide on what they
  have read; some under a row lock, some behind a unique number, some with neither.
- *A backup script killed at any command*, and a workflow beside it without a lock.

Hazards that no property watches, with the reason:

| where | hazard | why not |
|---|---|---|
| `api/routes/conversations.py:141` | the refresh route evaluates stored derived values that may belong to other facts after a lost recompute (though `pipeline/pipeline.py:2442` says that the next read recomputes) | the order of steps is in `CaseMemory`; what the interview makes of the values is not |
| `knowledge/ledger.py:958` | retire_card resets the review origin, so a later import of the card decides alone, also about a claim a human had rejected | intended by the code: retirement ends the verdict, and `verdict` in the model ends with it |
| `knowledge/ledger.py:431` | revision numbers are looked up by checksum: a source that returns to an earlier content keeps the earlier number, although `db/models.py:599` calls the numbers monotonic | nothing else reads the number as an order |
| `memory/purge.py:57` | an item that was revived after its deletion keeps its purge date, is hidden by the revalidation when the date passes, and is not purged unless it is deleted again | modelled (`TransitionCommit`); no document promises otherwise |
| `pipeline/pipeline.py:1934` | the answer is cached before the turn is recorded, and the record may be refused: the cache keeps an answer nobody was shown | modelled (`Cached`, `Recorded`); it is one that `CacheIsPlain` covers |
| `knowledge/outbox_worker.py:120` | the flag of a final failure is set on the claim although a newer row may have succeeded | the flag only informs operators |
| `memory/outbox_worker.py:111` | rows are read without a lock and leased afterwards | only two daemons could meet there, and one is deployed; `CuratedMemory` has one drainer |
| `memory/retrieval.py:91` | asking for `k * 4` candidates may miss a valid item behind stale points | which points are nearest is open in the model |
| `memory/purge.py:46` | nothing calls `reap_purge_pending` on a schedule | liveness of the purge cannot be claimed; the model promises none |
| `memory/purge.py:57` | the deletion of a purged item's point may be overtaken by a retried upsert, or by the upsert of a transition that committed after the reaper's selection: the point stays, and is hidden from prompts for ever | `IndexSettles` excludes it by name, and `RetrievalSafe` shows that it does no harm |
| `material_shadow/worker.py:446` | the time of a pass is taken once: a binding revoked during the pass is still evaluated | modelled (`known`), harmless in the shadow |
| `material_shadow/worker.py:404` | workers with different max_attempts leave pending rows whose attempts exceed the smaller bound | one bound is configured |
| `material_shadow/worker.py:213` | the claim orders by session version and takes a fixed number of rows: under constant load sessions with late identifiers wait | captures are not fair in the model |
| `db/material_shadow.py:502` | the idempotency key contains references under the active HMAC key: a replay after a key rotation creates a second pin | key rotation is not modelled |
| `db/case_decisions.py:185` | create_decision reads without a lock, `approvals_required` is stored and never compared, a superseded decision stays approved | no document says what should hold |
| `db/material_evidence_ai_review.py:298` | a challenger receipt is spent before the commit: after a failed commit the run has to be repeated | modelled; only costs a run |
| `db/medium_catalog.py:144` | a catalog is stored although an approval was revoked between its check and its commit | modelled; every access checks again, `AnswersAreCurrent` |
| `src/ops/backup_safety.py:1420` | retention may delete the newest copy when only that one has a receipt | modelled; it is in the offsite store, `NoSnapshotLost` |
| `api/routes/conversations.py:240` | the parameter form writes field by field: an error leaves a part of it | modelled as a prefix (`EditFacts`), no promise is made |

## Modules

| module | models | with |
|---|---|---|
| `CaseMemory` | one case: turns, remember tasks, memory surface, restarts | `CaseMemory_proofs`, `MCCaseMemory`, `MCChat` |
| `TurnPipeline` | chat turns from request to record: policy, generation, guards, critic, cache | `TurnPipeline_proofs`, `MCTurnPipeline`, `MCChat` |
| `KnowledgeLedger` | imports, reviews, retirement | `Knowledge_proofs`, `MCKnowledgeLedger`, `MCChat` |
| `FollowingIndex` | abstract: what an undisturbed drain makes of the index | |
| `KnowledgeOutbox` | EXTENDS the ledger with the drain and the index; implements `FollowingIndex` while nothing fails | `Knowledge_proofs`, `MCKnowledgeOutbox`, `MCChat`, `MCSettling` |
| `ShadowSettlement` | abstract: what the outbox of the shadow promises | |
| `ShadowOutbox` | captures, claims, leases, evaluation, revocation; implements `ShadowSettlement` | `ShadowOutbox_proofs`, `MCSettling` |
| `CuratedMemory` | memory items, their outbox and index, retrieval | `CuratedMemory_proofs`, `MCRecords`, `MCSettling` |
| `SerialDecisions` | abstract: one request after the other | |
| `CaseDecisions` | snapshots, decisions, approvals and their transactions; implements `SerialDecisions` | `CaseDecisions_proofs`, `MCRecords` |
| `EvidenceReview` | reviews, medium catalogs on them, accesses to reviewed rules | `Reviews_proofs`, `MCRecords` |
| `AtomicAIReview` | abstract: every decision taken and stored in one step | |
| `AIReview` | submissions, challenges, adjudications, withdrawals; implements `AtomicAIReview` | `Reviews_proofs`, `MCRecords` |
| `BackupRetention` | backup runs, offsite copies, retention | `BackupRetention_proofs`, `MCRecords` |

The MC modules add symmetry sets, the finite sets of requests and reports, and the
composition described under [runs](#runs). Definitions whose comment says "Mutant"
are not part of any specification: each is a plausible mistake in the code, and
replaces the definition that follows it to show that a property would notice.

### CaseMemory

A step is what a coroutine does between two awaits. Awaits are in
`flush_memory` (phase `waiting`), the answer of the model (`answering`) and the
distiller (`distilling`); the store is synchronous, so a handler's store calls
are one step, of which only a prefix happens when a call raises (`complete =
FALSE`, under `Faults`).

| code | definition |
|---|---|
| `flush_memory` before every request | `AwaitBeforeTurn`, `AwaitBeforeControl`, `Flushed`, `AbortedTurn`, `AbortedControl` |
| `run` up to the model call | `Recall` (with the shortcut of `recall` in `RecalledRevision`) |
| `record_turn` and what follows | `CommitTurn`, `RejectTurn`, `AnswerFails` |
| `_remember_and_refresh_interview`, its background wrapper and done callback | `RememberLands`, `RememberLost`, `Deregistered` |
| disconnect of a stream (`api/sse.py`) | `Disconnect` |
| PUT fact, POST parameters | `EditFacts` |
| DELETE fact, "alles vergessen", compute, refresh | `ForgetFact`, `ForgetAll`, `Compute`, `RefreshInterview` |
| process restart | `Restart` |

A fact's value is the name of the request that stated it and the derived slice
is the set of facts it was computed from, so "who wrote this" and "from what was
this computed" are equalities. `turn[t].seen` and `turn[t].overtaken` are history:
the facts at the turn's revision and the kinds of change since. `Inline` is
`adaptive_interview_enabled` (the request awaits its own distiller), `OneRequest`
a client that keeps one request open per case, as the frontend does.

### KnowledgeLedger

Every operation is one transaction. `review_claim` and `retire_card` lock the claims they
change, and are one step. An import locks the claims of its source that are active
(`knowledge/ledger.py:472-480`); for those it is one step too. A claim that is inactive then
and in the catalog is read later, by `session.get` and without a lock (`:544`), and written
at the commit, and a review may commit before, between and after the two:

| code | definition |
|---|---|
| import of a claim not seen before | `ImportNew` |
| import of an active claim, which it has locked | `ImportAgain` |
| import of a catalog without the claim | `ImportWithout` |
| the locks pass the claim by; the unlocked read; the commit; an import that fails | `ImportMisses`, `ImportReads`, `ImportCommits`, `ImportLost` |
| `review_claim`; the early return for a repeated verdict (`:884-886`) | `ReviewClaim`, `ReviewAgain` |
| `retire_card` | `RetireCard` |

`Merged` is the UPDATE of that commit: SQLAlchemy writes the columns that differ from the row that was
read, so the row may end up with some columns of the import and some of the review,
and with the version that the review gave it already. The UPDATE of the claim takes its row lock before the
outbox row is inserted, so the ids of the rows of one claim are in the order of the
commits. One import of a source runs at a time: the route that imports uploads calls `replace_catalog` in its
event loop, on the single worker of `src/backend/Dockerfile.v2`, and seeds are imported by
the release. Reviews run in threads beside it.

A claim's text is part of its identity; everything else an import declares
and a verdict depends on is its *contract* (`_authority_fingerprint`). An import
chooses content, contract, declared status, whether an approval is still current
(`current`) and whether some field outside the contract differs (`edited`).
`Preservable` is `_human_review_is_preservable` (`:246-277`), `Reconciled` the choice of the status
in the middle of `replace_catalog` (`:625-636`), `Imported` the
rest of its update branch with the set of changed fields, `Event` the
choice between upsert and delete. A human origin counts only while `reviewed_by` names a human
(`:236`); an unlocked commit may replace the name and leave the origin, and the claim then stands as one
that policy has decided (`Unsigned`). Each source document carries one claim;
claims of one document differ in nothing but the document row they share.

Two variables are history. `verdict` is the last human verdict on
the claim under its present contract; a verdict that repeats the status of a claim without
new metadata is answered and not recorded, and if the status was not a human's, `verdict` says
`repeated`: nothing protects such a claim from the next import. `torn` says that an
import has written the claim over a change it had not read (`open`), or that this has been so
(`mended`: another write has come since). While a claim is `open` its newest outbox row may contradict it
and a human verdict may be lost; `NewestRowIsCurrent`, `VerdictStands` and `FinalState` hold for
all other claims, and for this one from its next write on. `SyncedIsIndexed` holds only for claims never torn,
because two rows of a torn one may carry the same version.

### KnowledgeOutbox

`Lease` is `_claim_rows` (`FOR UPDATE SKIP LOCKED` is the serial order of two
claims), `Project` one embedding and index call for a group (removals, then
upserts), `ReadClaim` and `MarkDone` the two halves of `_done` — the claim is read
without a lock and written at the commit — and `MarkFailed` is `_failed`. There is no
clock: which rows in backoff or under an expired lease are due is chosen at each
lease. `LeasesHold` says that a pass ends before `outbox_claim_timeout_s`. The
index is external: a call applies its batch as a whole, and one that raises may
have applied it. A database error inside a settlement leaves the SQLAlchemy
session unusable, so that `_failed` raises too and the pass ends as in `DrainCrash`.
Rows of an unknown event type do not occur. The outbox table is `queue`, the processes that
drain it are the `Drainers`.

### ShadowOutbox and ShadowSettlement

`ShadowSettlement` states what
`src/docs/architecture/ADR_MAT_GOV_03B_SHADOW_PINNING.md` promises: jobs are
settled once and in the order of their session version. In `ShadowOutbox`,
`Claim` is `_claim` (give up the exhausted leases, then lease at most
`BatchSize` runnable jobs; which ones is open, because the order is by random
identifiers), `Complete` and `Fail` are their transactions behind the fence
`Holds`, `LeaseLost` is the answer of both when the fence fails, `Crash` is also
what a failing `_fail` does to a pass. `ripe` says that the backoff or the lease
has run out by the database clock; `Ripen` is time. The binding is looked up at
the caller's time: a capture may still use a binding that has been revoked, and a
pass knows the revocations before its start (`known`). `LeaseState` is the CHECK
constraint, `RowGuard` the update trigger of migration `20260717_0013`. Nothing in
production captures yet (sampling is frozen at zero basis points); the model
checks the code as it will run.

The refinement reads `Jobs` from the tables: a job is *evaluated* when it is done
and has exactly one evaluation, *failed* or *open* only without any, and *torn*
otherwise; the abstract specification has no torn jobs.

### TurnPipeline

A step is what `run` does between two awaits. The same turn is in `CaseMemory` as far as
it touches the memory of its case; here it is what happens to its answer, and
`accepted` in `Close` is the outcome of `record_turn`. A text is the set of faults that the
guards can find in it; `answer.draft` numbers the calls of the generator, so that
"which text was verified" and "which text is shown" are equalities. A request is
its route (the router's answer is arbitrary) and the traits that the policy and the
guards tell apart.

| code | definition |
|---|---|
| `run` up to the retrieval: refusal without the knowledge pilot, cache lookup, early clarification | `Receive` |
| retrieval and `resolve_claims` | `Ground`, `Revalidated` |
| `decide_execution` (`orchestration/execution_policy.py`) | `DecideExecution`, `Decide` |
| `generate` and its one regeneration; first pass of the output guard | `Generate`, `ReviewDraft` |
| `run_parametric_guard`, the first lines of `run_verify` | `Verify` |
| the critic, its second try, the corrected text, the critic on that | `Criticise`, `Correct`, `Recheck` |
| renderers, exfiltration guard, second pass of the output guard, cache, `record_turn` | `Close` (`Overridden`, `WithoutLeak`, `FinalGuard`, `Cached`, `Recorded`) |
| inline distiller; disconnect or failing call | `Settle`, `Abort` |
| expiry and eviction; reviews in the ledger | `Expire`, `Withdraw`, `Approve` |

`Leave` frees the place of an ended turn for the next one: turns meet only in the
cache and the ledger, so one place in the runs shows what a sequence of turns can do,
and the theorems hold for any number at once. A speed over its limit is folded into the critic's
verdict `trap`, because the code treats both alike. A computed value or a material
verdict occurs only on technical routes, which are never cached; so a hit has neither.

`Ground` is the Qdrant retriever that production configures. `_build_retriever`
(`pipeline/pipeline.py:186-193`) falls back to cards held in the process if Qdrant, Postgres or a
dependency is missing at start-up; such a process never asks the ledger, a claim withdrawn there stays in its answers,
and `FreshUnlessCached` says nothing about it.

### CuratedMemory

| code | definition |
|---|---|
| `create_candidate` | `CreateCandidate` |
| `transition_status`: unlocked read and check; commit | `TransitionRead`, `TransitionCommit` |
| `reap_purge_pending`: unlocked selection; deletion and commit; an error | `GraceElapses` (time), `ReapSelect`, `ReapCommit`, `ReapLost` |
| `drain_outbox`: claim, one call per row, `_mark_done` / `_mark_retry_or_failed` | `MemoryLease`, `MemoryProject`, `MemoryMark`, `MemoryCrash` |
| query, `revalidate`, `usage_for`, assembling the bundle | `Query`, `Revalidate`, `Usage`, `Assemble` |

The index is external and the set of its points; which nearest points a query finds is
open. `memoryStanding` is history: the items that were valid at some time since the
retrieval began. There is one drainer, the deployed daemon. The reaper selects the items that are due, at most `MemoryReapBatch` of them,
without a lock, and deletes them by their keys without looking at their status again; a
confirmation that commits in between is purged with its item. `memoryReaper.heard` is history: how many
events an item had when it was selected. The rows of the reaper are inserted before its DELETE
waits for the lock of a transition that is under way, so the removal of an item may have a lower id than the upsert of
that transition: `ReapCommit(ahead)` with `Overtaken` is this order. The grace period may be zero
(`config/settings.py:178`), so the race needs no clock but that of the requests.

### CaseDecisions

`create_snapshot` and `add_approval` hold the row of the case or of the decision
`FOR UPDATE` between what they read (`BeginSnapshot`, `BeginApproval`) and their commit
(`CommitSnapshot`, `CommitApproval`); `RowFree` is the lock, `Rollback` a lost connection
or a refused commit, `Unnumbered` the unique constraint on revisions. `CreateCase` and `CreateDecision` read
nothing that may change, and are one step. `Aggregate` is
`_aggregate_review_status`, applied to the statuses that were read.

### EvidenceReview and AIReview

`Record` is `_append_event` of the five lifecycle operations, under the lock of the review:
one step. `BeginCatalog`, `CheckEntry`, `CommitCatalog` and `RefuseCatalog` are `store_snapshot`, which
checks entry by entry before it stores; `BeginAccess`, `AccessReview`, `AccessEntry`,
`AccessRound` and `EndAccess` are `_load_and_validate`, behind `load_capability` and
every later access to what it returned: the review, all entries of the catalog, then all
entries again. `jointly` is history: there was a moment since the access began at which everything
it rests on was approved.

The agents' repository locks nothing. A transaction decides on the lifecycle it has
read (`BeginChallenge`, `BeginAdjudication`, `BeginWithdrawal`), replays it again and takes
the next number (`AppendEvent`), and commits if nobody else took it (`CommitWork`,
`FirstWithSequence`). `RunChallenger` leaves a receipt in the memory of its process, which
`BeginChallenge` spends and `RestartJob` loses. A report stands for that of its claims with the worst
verdict.

### BackupRetention

One action per command of `backup_qdrant.sh` that changes a file or the server, in its
order: `StartBackup` (storage lease), `CreateSnapshot`, `CopySnapshot`, `Publish` and `DropPartial`
(`publish_no_clobber`), `WriteChecksum`, `PassGate` (`remote-delete-eligible`),
`DeleteSnapshot`, then retention: `SelectCandidates`, `PruneCandidate`, `UnlinkChecksum`,
`CompleteBackup`. `FailRun` ends a run anywhere, by an error (the trap removes the
partial file) or by SIGKILL. `Upload` and `WriteReceipt` are the external workflow,
`Rot` the disk, `BackupTick` time. The content of a file is how often it was damaged, so 0 is what the
server sent. The Postgres scripts are the same run without the
server snapshot and the gate.

## Runs

`CHECK_DEADLOCK FALSE` where requests, rows or runs are bounded, so that a behaviour may
come to rest when all have been used; the chat turns never rest and are checked for
deadlock in their own configurations.

`MCChat`, `MCRecords` and `MCSettling` put several specifications that share no state into one
module: `part` is chosen at the start and only the actions of that part are taken, so
the states are the sum and not the product of the parts, and each part's
behaviours are those of its own specification. The ledger and its index are one specification
in `MCChat`, examined twice: `LedgerBound` lets the ledger use one claim, `QueueBound` lets
the drain use one content and contract and fewer rows (one more for a torn claim).
`RestartWhileWaiting` lets `case_concurrent` restart the process where a request waits for a remember
task; the case part of `chat` restarts anywhere. `MemoryBound` in `MCRecords` examines retries and retrievals with one outbox row less than the
rest, and retrievals without crashes.

| run | bounds | what it shows |
|---|---|---|
| `case_concurrent` | 3 turns, 1 control, 1 field, any number open, 1 restart, fair; 428 thousand states | `TypeOK`, `InterviewNotAhead`, `StaleOutputRejected`, `PromotionFollowsMerge`, `FlushEnds` |
| `chat`, all parts | as below; 306 thousand states up to symmetry | |
| - ledger | 1 claim, 1 content, 2 contracts, 5 rows | `NewestRowIsCurrent`, `VerdictStands` |
| - queue | 2 claims, 1 drainer, window 2, 3 rows (4 with a torn claim), no failing calls | `FinalState`, `SyncedIsIndexed`, `IndexFollows` |
| - case | 2 turns, 2 controls, 1 field, one open request, faults, 1 restart | `ForgottenStaysForgotten` |
| - turns | 1 place, 15 kinds of request, 1 claim, texts with at most one fault | `ShippedIsGuarded`, `ShippedIsTheVerified`, `FreshUnlessCached`, `PolicyIsSafe`, `CacheIsPlain`, `MappingIsOfTheAnswer`, `RecordedIsShipped` |
| `records`, all parts | as below; 0.76 million states up to symmetry | |
| - decisions | 2 cases, 3 subjects of whom 2 review, 2 transactions at once, 2 snapshots, 1 decision | `RevisionsAreGapless`, `StatusIsTheReviews`, `DecisionsAreSerial` |
| - evidence | 2 reviews, 3 experts, 1 catalog, 1 access | `FourEyes`, `AnswersAreCurrent`, `WithdrawalIsFinal` |
| - agents | 1 submission, 3 runs, 2 processes, 3 reports | `ChallengedOnce`, `CrossReviewIsClean`, `DisagreementQuarantines`, `ReviewsAreAtomic` |
| - backups | 2 runs, 1 copy to keep, clock 0..1, 2 damages per file | `NoSnapshotLost`, `EnoughCopies` |
| - memory | 1 item, 2 requests at once, 4 rows, window 1, reap batch 2, failing calls, 1 crash | `RetrievalSafe`, `IndexSettles`, `PurgedWasDeleted` |
| `settles`, all parts | fair, failing calls, 1 crash each, 2 attempts; 168 thousand states | |
| - memory | 1 item, 2 requests at once, 3 rows, window 1, reap batch 2 | `MemoryRowsSettle` |
| - shadow | 1 session, 2 bindings, 2 jobs, 2 workers | `SettlesInOrder`, `LeaseRespected`, `GuardAccepts`, `JobsSettle` |
| - knowledge | 1 claim, 2 drainers, 2 rows | `SettledRowsStay`, `RowsSettle` |
| `case_stale`, `case_late_distill`, `case_refused`, `ledger_again`, `outbox_backoff`, `memory_deletion`, `turn_stale_cache`, `turn_unverified` | smallest that show it | the [findings](#what-the-runs-found) |

Why the bounds suffice. *Case:* the hazards
need a turn with a pending task, a second turn that replaces it in the registry or
is cancelled while it waits for it, and a third request (turn or control) that waits
for the same task or changes the case; finding 1 takes three controls, which
refill a cleared case to an old revision. A field is independent of the others except in the
parameter form, and `ForgottenForGood` is proved for any number of them. No passing run sets `Inline`
or leaves out the distiller: then nothing enters the registry, and the theorems
about `CaseMemory` hold for all values of both. *Ledger:* claims interact only through
the order of rows in the outbox, which the projection to one claim preserves (the
proofs hold for any number); five rows allow import, removal, a verdict between the read and the commit of the
returning import, and another write; a content is only where a claim was read from, and one is enough. *Outbox:* a window of two with up to three rows
gives rows of one claim inside one window and in different windows; two attempts
separate "retry" from "give up"; one crash leaves one abandoned lease beside one
live worker. *Shadow:* two jobs of one session, with two bindings, are of one version or of
two, so jobs that wait for each other and jobs that do not; two workers, two
attempts and one crash give an abandoned lease at the attempt bound. The theorems
hold for any number. *Curated memory:* four rows are a candidate, its deletion, a purge, and the
confirmation that overtakes it; three, for liveness, leave out the last; two requests give every race of two transitions; a window of one
makes every order of retries between rows of one item. Items meet nowhere but in
the window. *Decisions, evidence, agents:* two transactions are the smallest race, three
people the smallest set for four eyes and an outsider; a third reviewer or
snapshot adds no new pair. *Backups:* with one copy to keep, a second run is the one that may
prune the first; a receipt can be of now or of one tick ago, which with ages 0 is fresh
or expired; two damages allow a checksum over a damaged file and damage after it. *Turns:*
one request of each kind that a rule of the policy or a guard tells apart; one fault is
enough because each guard looks at one kind of fault, and one claim because evidence
is present or not. All safety properties of the passing runs are proved for any size as well
(under the conditions named [there](#proofs)), and
so are the types of every part. Every passing run explores all states within its bounds, and together they
take every action. Symmetry is used only where no liveness is checked:
in `records`, between the agents' runs that create no submission and between the processes
of agents, and in `chat`, between the turns and between the controls of a case, which nothing
in the code tells apart.

What the two constants that restrict the environment mean: `OneRequest` in
the case part of `chat` is the frontend's discipline, and `case_late_distill` shows what
its absence costs. `LeasesHold = TRUE` in the
outbox runs is the operator's choice of `outbox_claim_timeout_s` (default far
above a pass); `_done` and `_failed` carry no fence, so nothing is promised when it is
wrong, and the case is listed as a hazard.

## Fairness

- `CaseMemory!Fairness`: a remember task that runs ends (`RememberEnds`: the model
  client has a timeout and the wrapper catches every exception), and a coroutine
  whose awaited task has ended is resumed (`ResumeTurn`, `ResumeControl`: asyncio
  schedules it). No fairness for clients, answers, disconnects or restarts.
- `MCSettling!SettlingSpec`, one condition per outbox:
  - the daemon drains curated memory (`MemoryDrain`) and each drainer of the knowledge
    outbox keeps working (`DrainWork`): the daemon's loop (`memory/outbox_daemon.py:98`)
    polls for ever, survives any exception, and every call it makes has a timeout. A
    poll that leases nothing changes nothing and is no step, so this fairness also says
    that time passes: a backoff or a lease that could be over is over in the end.
  - shadow workers are called again and again and time passes (`Ripen`).

  No fairness for requests, imports, reviews, captures, revocations or crashes; crashes
  are bounded, and failing calls are bounded by the attempts.

## Proofs

TLAPS checks the following for all values of the constants that meet the named
assumptions in the modules (`CaseMemoryAssumption`, `KnowledgeLedgerAssumption`,
`ShadowOutboxAssumption`, `CaseDecisionsAssumption`, `BackupAssumption`, `TurnAssumption`,
`CuratedMemoryAssumption`, `ReportsAssumption`, `CreatorsAssumption`:
disjointness of the "nobody" values, finiteness where a cardinality is taken, bounds
being natural numbers, requests, texts and reports being of their types, and creators being runs).

- `CaseMemory_proofs`
  - `CaseMemoryTypes`: `Spec => []TypeOK`, action by action.
  - `StaleWritesAreRejected`: `Spec => StaleOutputRejected`. The action property
    needs `CheckInv == TypeOK /\ SnapshotSound /\ NoOrphans`. `SnapshotSound` says of
    each turn whose snapshot is still to be used, until a clear marks it: its
    revision is not ahead of the row, an equal revision means nothing has overtaken
    it, and while nothing has overtaken it its facts are the facts. It is not
    inductive without `NoOrphans` (a case without a row has no facts and
    revision 0): clearing marks only the turns of a case that exists.
  - `InterviewFollowsCase`: without store faults (an assumption of the theorem)
    `Spec => []InterviewNotAhead`.
  - `MergedBeforePromoted`: `Spec => PromotionFollowsMerge`, from the types alone, by cases on
    how much of a step happened before a store call raised.
  - `ForgottenForGood`: `Spec => []ForgottenStaysForgotten` when `OneRequest = TRUE`. Without
    this discipline of the client it is false, as `case_late_distill` shows. The invariant is
    `ForgetInv == TypeOK /\ FlushCovers /\ StatedInTranscript`: `FlushCovers` says that one
    request is open at most, that a distilling turn is the registered one, and that meanwhile nobody
    answers and whoever waits awaits it; so whoever clears or forgets has waited for every
    distiller. `StatedInTranscript` says that who has stated a fact, or may still state one, is in
    the transcript.
- `Knowledge_proofs`, about the ledger
  - `LedgerTypes`, from `LedgerInv`: the types, and `ReadingsHold`, about an import that has read a
    claim without a lock: what it has seen is not newer than the claim, and as long as both have the same version
    nothing has changed that the import depends on. `LedgerEffect` lists what a step can do to the
    tables: write a claim and a row by a transaction that knows the claim (which mends it), or
    overwrite it (which tears it).
  - `QueueCarriesTheLedger`: `[]NewestRowIsCurrent`, by the lemma `SavedIsCurrent`:
    a write of claim and row together re-establishes it for its claim, or exempts it, and
    leaves the others alone.
  - `HumanVerdictsStand`: `[]VerdictStands`, from the inductive `VerdictKept`: while
    a verdict stands and the claim is not torn open, it still carries a human quarantine or rejection. The
    property alone is not inductive: an inactive claim is not served either, and an
    import would reactivate it. The hard step is the commit of an import: one that has read the claim as
    it stands (`ReadingsHold`) preserves the verdict (`VerdictRespected`), any other tears the claim.
- `Knowledge_proofs`, about the drain
  - `OutboxTypes` and `DrainedQueueCarriesTheLedger`, for any number of drainers, failing calls
    and crashes. `DrainInv` adds to the types that rows belong to claims that exist and that a
    pass settles only rows of the group it has projected. `WorkerMoves` says what all steps of a worker
    have in common (`RowsKept`, `ClaimsKept`), `LedgerEffect` what all writes of the ledger have.
    `GroupShape` and `GroupsKept` are the lemmas about collapsing a window: its two groups
    part it, rows of one claim are in the same group, and neither changes while the pass runs.
  - `SettledForGood`: `DrainSpec => SettledRowsStay` when `LeasesHold = TRUE`. A settlement carries no fence, so
    the proof needs `HeldRows`: the rows that a pass has still to settle (`OutstandingIn`: what
    is open of the group in hand, and the upserts that follow the removals) are in processing
    and no other worker's. The windows themselves may overlap, in rows already settled.
  - `IndexReachesTheLedger` (`FinalState`) and `SyncedIsInTheIndex` (`SyncedIsIndexed`): for one drainer
    whose calls succeed (`Drainers = {w}`, `DrainFaults = FALSE`, `MaxDrainCrashes = 0`), any window
    and any imports and reviews in between. Neither holds without these conditions:
    a row that is tried again after a newer one of its claim brings back the older version
    (`outbox_backoff`), and a second drainer or a crash have the same effect. `QuietInv` says
    that rows are worked off in their order (`RowsInOrder`), that a row in the version of its
    claim is the newest unless the claim was torn (`VersionsGrow`), that the index holds what the last applied row says (`IndexTells`)
    and that a version recorded as synced was sent (`SyncedWasSent`).
  - `IndexFollowsTheLedger`: under the same conditions `DrainSpec => Follower!Spec`, the refinement of
    `FollowingIndex`. `said` is the queue without its bookkeeping, and `reached` the newest row of
    a claim that the index has been told of, marked or not (`Told`). A write of the ledger maps to `Serve` or
    `Remove`, a projection to `Follow`, and leasing and marking rows to a stutter. `QuietInv`
    gives the order of the rows of a claim; new is `VersionsCount`: the version of a claim is at most
    the number of its rows, and less when an import has torn it and used a version twice. So the refinement
    holds of torn claims too.
- `CuratedMemory_proofs`, for any items, requests, rows and windows
  - `CuratedTypes`, from `MemoryTypeInv`: attempts stay below their bound only because a pass
    holds the attempts it has loaded (`PassHolds`), and rows only because the bound counts the
    requests that are about to write (`RowsFit`).
  - `PromptsHoldLiveMemory`: `[]RetrievalSafe`. `RetrievalInv` says that whatever has passed
    the revalidation is in the history of valid items, and that an item valid now is too.
  - `PurgeFollowsDeletion`: `[]PurgedWasDeleted`. `EventsTell` says that the last event of a
    stored item is its status, and of an item that is selected or purged that the last event the reaper
    has heard of is the deletion (`HeardDeletion`). A confirmation that commits after the deletion
    changes status and last event alike, so the reaper passes it by; one that commits after the selection
    adds an event behind the one that was heard, and its item is purged all the same.
  - `IndexAgrees`: `[]IndexSettles`. `IndexInv` has three parts: a stored item has
    rows and none is a deletion (`RowsTell`); the point of a stored item is there
    once a row of it is done (`StoredIsIndexed`); and as long as nothing was retried or crashed rows are applied in their
    order, so that a removal that is the newest row (`LastIsDelete`) is the last one applied (`Undisturbed`).
    A commit of the reaper rewrites rows that wait and have not been tried (`RowsRewritten`,
    `SameButEvents`): it only settles in which order those ids are given.
- `ShadowOutbox_proofs`
  - `ShadowTypes`, `LeasesHold` (`LeaseRespected`) and `TriggerAccepts`
    (`GuardAccepts`), from one lemma that lists what a step can do to a row
    (`ChangedRow`).
  - `OutboxSettlesInOrder`: `Spec => Settlement!Spec`, the refinement. Its invariant
    is `OutboxInv == TypeOK /\ VersionsUsed /\ EvaluatedOnce /\ InTurn`: version
    numbers in use are numbers of existing jobs' versions, so that a new version is
    one the abstract capture may choose; a job has one evaluation if done and none
    otherwise; a job in work or finished has no unfinished predecessor in its
    session version. A capture maps to `Capture`, a claim that gives jobs up, a
    completion and a terminal failure map to `Settle`, everything else to a stutter.
- `CaseDecisions_proofs`: `SnapshotsNumbered`, `NoReviewLost`, `ReviewersIndependent`. The
  strengthening is `TransactionInv`: open transactions hold different rows, and what each has read
  is still true (the revision reached, the statuses of all reviews, the reviewer's
  independence). With it a commit is as good as an atomic step; without the lock the
  invariant fails at once. `SnapshotsOfCases` says that snapshots belong to cases that exist,
  without which a new case could find snapshots of its own. `AggregateIsStrictest` is the lemma about
  `_aggregate_review_status`. `DecisionsSerialized` is the refinement of `SerialDecisions`: beginnings
  and rollbacks of transactions map to stutters and a commit to the whole request, because by
  `TransactionInv` what it read under its lock is what `Filed` and `VotesOn` find at that moment.
- `Reviews_proofs`, about `EvidenceReview`: `ApprovedByAThird` (`FourEyes`), `WithdrawnForGood`
  (`WithdrawalIsFinal`) and `AnswersRestOnOneMoment` (`AnswersAreCurrent`).
  - `LifecycleInv` says what the last event's state means about the whole history: an approval
    stands on a review by another person, and a withdrawal anywhere in the
    history leaves a state from which no approval is allowed.
  - `CatalogInv` and `AccessInv` carry the argument that reading one review after the
    other is enough. Every entry of a stored catalog was approved before it was stored, and
    approvals do not return (`ApprovalsDoNotReturn`); so an entry that is found approved
    now has been approved since the access began, and when the last one has been read all were approved
    together at the moment at which the access read its review.
- `Reviews_proofs`, about `AIReview`: `OneChallenge` (`ChallengedOnce`), `CleanCrossReview`
  (`CrossReviewIsClean`) and `DisagreementIsQuarantined` (`DisagreementQuarantines`). The
  invariant is `AgentInv`. Its core is `WorkFits`, about an open transaction: what it
  decided (an independent run, an adjudication that rests on a challenge) stays true, and the event
  it is about to append is allowed unless another commit has taken its number
  (`DecisionStays`); so a commit that finds its number free is as good as one under a lock.
  With it, the only challenge is the first event (`ChallengeFirst`), and an adjudicated review no
  longer waits as challenged (`AdjudicationsCount`), so that a second adjudication can only
  quarantine. `OutcomeClean` is the lemma about the outcome that dispositions lead to.
  `AgentsReviewAtomically` is the refinement of `AtomicAIReview`, which reads the state of a
  submission from its last lifecycle event. Only commits move it. `DueWork` adds what an open
  adjudication has decided: its dispositions are of the findings of its challenge and make the
  outcome due (`OutcomeIsDue`), so that a commit that finds its number free is the abstract step.
- `BackupRetention_proofs`: `BackupsAreTyped` (with it, one run at a time),
  `SnapshotsAreKept` (`NoSnapshotLost`) and `CopiesAreKept` (`EnoughCopies`). The invariant is
  `CustodyInv`: the server keeps a snapshot as long as its run has not passed the gate
  (`ServerKeeps`), a run behind the gate has an intact copy unless that was excused
  (`GateIsSafe`), a receipt is of what is stored offsite (`ProofIsOffsite`), and nothing is left
  of a copy that was pruned (`PrunedIsGone`). Counting copies rests on two lemmas about
  cardinalities, `MoreCopies` and `OneCopyLess`.
- `TurnPipeline_proofs`: the invariant is `TurnInv`: types, `CacheIsPlain`, and of each turn
  `RecordInv`, a conjunction of named parts: `Counted` (how many texts there can be at each step),
  `Planned` (the plan is the one of the policy, and sound), `Answered` (who wrote the
  answer at which step), `Screened` (which faults have been excluded by then), `Verified`
  (which text the critic saw last), `Fresh` (the facts were served during the turn unless they came from
  the cache) and `Reported` (mapping and record belong to the answer). Each action has a lemma
  that it keeps the record; `PlanIsSound` is the lemma about `decide_execution` and `ClosedFits` the one about
  the last guards, where a fault excluded by one guard must not come back with the next.
  From it follow seven properties: `ShippedIsAlwaysGuarded`, `ShippedIsAlwaysVerified`,
  `GeneratedIsAlwaysFresh`, `PolicyIsAlwaysSafe`, `CacheIsAlwaysPlain`,
  `MappingIsAlwaysOfTheAnswer` and `RecordedIsAlwaysShipped`.

Only model-checked: what depends on fairness (`FlushEnds`, `RowsSettle`, `MemoryRowsSettle`,
`JobsSettle`), since liveness and ENABLED are out of the prover's reach. Every other
property of a passing run is stated by a theorem.

## What the runs found

Each is a run with `"expect": "violation"`; `PROJECT.json` quotes the sentence that
the code disagrees with.

1. `case_stale`: clearing a case deletes its row, revisions restart at 0, and an
   answer computed before is committed when the refilled case reaches the number
   it had seen.
2. `case_late_distill`: two open turns leave one registered task; "alles
   vergessen" waits for that one, and the other distiller writes its facts later.
3. `case_refused`: after all facts of a case without messages were deleted, `recall`
   answers revision 0 and the next turn is refused though nobody interfered.
4. `ledger_again`: the same catalog imported twice has two different results when
   the first import quarantined a reviewed claim because its contract changed.
5. `outbox_backoff`: an older row of a claim in backoff is projected after the newer
   one.
6. `memory_deletion`: a confirmation that read its memory item before a deletion
   commits after it: the deleted item is confirmed again, and keeps its purge date.
7. `turn_stale_cache`: a claim is withdrawn while an answer that rests on it is cached,
   and the same question is answered with it for up to an hour. The namespace of the cache
   keys is made from the versions the process started with. `orchestration/answer_cache.py:26` and
   `src/docs/V2/PRODUCTION_ARCHITECTURE.md:54` and `:60` promise the opposite.
8. `turn_unverified`: when the critic's verdict on the corrected text cannot be parsed,
   the text is shown as corrected (`core/l3_verifier.py:1102`), though an unreadable
   verdict on the first text fails closed (`:1005`).

Also met while modelling, in the ledger: a review that quarantines an inactive claim, and commits
between the unlocked read and the commit of an import that brings the claim back, is lost, and the
claim is served or queued to be (`knowledge/ledger.py:544`); without the exemption of torn
claims TLC finds a behaviour of seven states that violates `VerdictStands`. A human verdict that repeats a quarantine set by
policy is not recorded (`:884`), and a later import may lift it. In the curated memory: an item that is confirmed after
the reaper has selected it is purged (`memory/purge.py:54`), and its point may stay in the
index, because the row of the confirmation may follow that of the removal. The properties name these
exceptions, and the models have the steps that lead to them.

Also met: a review between the read and the commit of `_done` leaves the
new version marked as synced (`knowledge/outbox_worker.py:91`) until its own row is
projected; the equivalence check is not repeated on the text corrected for the
critic; hedges and fallbacks are cached like answers; a fallback may carry the value of a reviewed
claim past the check for values the kernel has not computed; and a smalltalk text that was
streamed as final may be replaced by a later guard. The table under
[hazards](#what-is-hard-to-test) has the rest.

## What is not modelled

- What a text says: prompts, patterns, parsing of verdicts, understanding and routing of
  a question, and the kernel's formulas. They are functions of one request, and real
  arithmetic and natural language are out of TLC's reach. The models have which faults a text has
  and what follows from each.
- The pipeline without the execution policy (a setting that production does not use), the
  interview question beside an answer, drafts shown while they stream.
- The interview policy (which question next), the normalisation of media, rulesets and
  their evaluation, evidence manifests and evidence bindings: validation of single documents or
  pure functions over large tables.
- Creation of shadow bindings, the resolver, reconciliation of missing jobs, rotation
  of HMAC keys.
- `src/ops/docker_image_cleanup.py` and `src/ops/production_release_gate.py`: scripts under the same
  storage lease as the backups, which decide about images and configuration in one process.
- Listing and paging of conversations, ownership checks, titles, security, consent, leads and
  other routes: reads, per-request checks and single-row inserts.
- In-process stores used without a database: the models follow the Postgres stores
  that production uses.
- Migrations, frontends and the evaluation harness, except where they justify an assumption.

These are most of the lines of the repository: it is wide, and the part that keeps state
under concurrency and failure is a small share of it.

## Plan

Done: the modules above. What would come next, by what a mistake would cost:

1. `ShadowBindings`: create, terminate, resolve, reconcile and key rotation; workers
   with different attempt bounds.
2. `ImageCleanup` and `ReleaseGate`, with the storage lease of `BackupRetention`.
3. `InterviewPolicy`, medium normalisation: pure decisions as operators, checked against
   reference definitions over bounded inputs.

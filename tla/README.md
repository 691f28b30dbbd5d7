# ResolverAI: specifications, model checking and proofs

ResolverAI takes payment intents whose outcome is in doubt, asks Razorpay what
really happened, lets a policy gate decide, moves money if it may, and writes the
intent back. This directory models the part of it that is concurrent and can
fail: the lock, the resolution with its reconciliation, the outbox worker, the
webhook receiver, what drives the resolutions of an intent taken together, and the
AI test lab, its runs from the outside and from the inside.

All paths below are relative to the repository (`src/` in PROJECT.json).

## 1. Inventory

| Component | State it keeps | Operations | Talks to |
|---|---|---|---|
| State machine, `core/state_machine.py` | none (a table) | `transition`, `is_terminal`, `allowed_events` | called by the resolver |
| Intent lock, `core/idempotency.py:16-74` | Redis key `lock:intent:*` (TTL 30 s); a set per process | `acquire_intent_lock`, `release_intent_lock` | Redis; called by the resolver |
| Event dedup, `core/idempotency.py:76-131` | Redis key `event:dedup:*` (TTL 1 h); a map per process | `verify_idempotency_payload`, `mark_event_processed` | Redis; called by the webhook receiver |
| Resolver, `core/resolver.py` | rows of `payment_intents`, `external_executions`, `immutable_evidence`, `reconciliation_cases` | `resolve` (9 steps) | lock, negotiator, detective, policy, FinOps, PostgreSQL |
| Negotiator and FinOps, `agents/negotiator.py`, `agents/finops_executor.py`, `razorpay/` | none of their own | `verify`, `execute` | Razorpay over HTTP (3 tries), or a synthetic rail |
| Synthetic rails, `chaos_lab/simulator.py` | transactions and keys in the process' memory | `authorize` | called by the negotiator |
| Detective, `agents/detective.py`, `agents/ai_providers.py` | none | `analyze` | a language model or a rule engine |
| Policy engine, `core/policy_engine.py` | none | `evaluate`, `create_authorized_action` | called by the resolver |
| Outbox worker, `worker.py` | rows of `outbox_events` | `reclaim_stuck_tasks`, `claim_and_process`, `run_worker` | PostgreSQL, `resolve` |
| Webhook receiver, `api/webhook_receiver.py` | rows of `payment_events`, `payment_intents`, `outbox_events`; the dedup key | `handle_razorpay_webhook` | Razorpay calls it; PostgreSQL, Redis |
| Checkout requests, `api/orders_routes.py` | the same rows | `create_order`, `verify_payment`, `report_failure` | the browser calls them |
| Poller, `core/reconciliation_poller.py` | none; it lives until a SELECT or the pool raises | `poll_once`, `run_poller` | `resolve` |
| Operator requests, `api/reconciliation_routes.py`, `api/payment_routes.py` | cases and intents | `manual_resolve_case`, reconcile | `resolve` |
| Reconciliation engine, `core/reconciliation.py` | none | `reconcile` | called by the resolver |
| AI test lab, `core/ai_test_lab/`, `api/ai_test_lab_routes.py` | rows of `ai_test_runs`, `ai_test_results`; the active run and the stop requests in memory; synthetic rows in `payment_intents`, `payment_events` and `outbox_events` | `run_test_suite`, `run_scenario`, `generate_ai_scenarios`, `evaluate_scenario_result`, `request_stop_run`, `recover_stale_runs` | PostgreSQL; its tasks reach the outbox worker |
| Dashboard, `api/dashboard_routes.py` | none (`replay_webhook_event` always raises, section 5) | queries | PostgreSQL |
| Replay, auth, rate limiter | reports or memory | read-mostly | see PROJECT.json "components" |

**How they interact.** A webhook or a checkout request writes the intent's row
and an outbox row. A worker process claims the outbox row and calls `resolve`.
The API process calls it too, and so does the poller. `resolve` holds the lock
of the intent across many awaits: SQL statements that each commit on their own
(there is no `conn.transaction()` in the resolver, the worker or the webhook
receiver) and HTTP calls with timeouts. The requests write the same row without
the lock.

**What is hard.** Two processes resolving one intent; a TTL that lapses under a
slow resolution; Redis answering one process and not another; a crash between
the money, its log and the row; a mutation whose answer is lost; a worker whose
lease lapses; deliveries of one event that overlap; unlocked writers; a timer
that cancels a test run at any await, its own clean-up included.

**What makes each component correct.**

* Lock: one resolution at a time; where it cannot be exclusive, a bound on the
  overlap.
* Resolution: what it read is still so when it writes; the row changes by the
  state machine; logs tell of nothing that did not happen and of everything
  that did; CAPTURED and FAILED agree with the provider; no refund above the
  limit; an uncertain intent is settled.
* Outbox: no event is lost, worked on after it was settled, or given up early.
* Webhook: no task without its rows, no dedup key without its event, no
  acknowledged event without its task.
* Recovery: a task is skipped only where that costs nothing or something failed; an
  intent its task left unsettled is taken up again; an escalation leaves a case an operator can find; a
  ruling of the operator is written over only by what was under way.
* Reconciliation: an intent is reported reconciled only if everything matches.
* Test lab: one run at a time; its row says in the end what its caller was told;
  COMPLETED means all scenarios; its tasks never reach the provider; the risk it
  reports is that of a failure; forged events move nothing; what the scenarios
  expect is what the state machine and the policy engine do.

## 2. Modules

| Module | Models | Extends |
|---|---|---|
| `PaymentStates` | the transition table and its queries | |
| `PaymentLifecycle` | abstract: an intent that changes by `transition` alone | `PaymentStates` |
| `PolicyGate` | advice, the seven rules, the state after an action or a refusal | `PaymentStates` |
| `IntentLock` | the lock, its fallback, TTL, crashes | |
| `Reconciliation` | the reconciliation engine as a function of what it compares | |
| `Resolution` | `resolve` with the lock, the provider, the unlocked writers | `PolicyGate`, `IntentLock`, `Reconciliation` |
| `TaskQueue` | abstract: tasks with a bounded number of tries | |
| `OutboxWorker` | the table and the workers | |
| `WebhookIngest` | the deliveries of one event | |
| `Recovery` | requests that enqueue, worker, poller, API and operator around the resolutions of one intent | `Resolution` |
| `AITestLab` | test runs, their timer and stop requests, the recovery of stale rows | `PaymentStates` |
| `LabVerdicts` | a test run from the inside: suites, scenarios, the oracle, failures and risk | `PolicyGate` |
| `IntentLockProofs`, `OutboxWorkerProofs`, `WebhookIngestProofs`, `AITestLabProofs`, `LabVerdictsProofs`, `ReconciliationProofs` | the theorems | the component, `TLAPS` |
| `ResolutionProofs` | the theorems about the resolver | `Resolution`, `IntentLockProofs` |
| `RecoveryProofs` | the theorems about the composition | `Recovery`, `ResolutionProofs` |
| `MC*` | instances for TLC | the component |

Fault variants: an operator with the comment "Fault variant" is what the
definition after it would be with a plausible bug. No specification uses it;
each was substituted for the real definition to see that a property notices.

### IntentLock
`key` is the Redis key. It holds `"1"` in the code; that the model's key names
the task that wrote it is a ghost (no guard of a task reads the name). `mem` is
the set of processes whose `_in_memory_locks` holds the intent. A Redis call
that raises may have been applied or not; then the set of the process decides.
`Release` deletes the key whoever wrote it, and leaves the set alone when Redis
answers, as `release_intent_lock` does. `Abandon` is `get_pool()` raising
between the acquire and the `try`. `CrashHost` empties the process' memory.

### Resolution
One action per await of `resolve`: `Start` (lock), `Load`, `Count`, `Verify`,
`Decide`, `Execute`, `Record`, `Escalate`, `RecordEvidence`, `RecordEffect`,
`Commit`, `Finish`. `job[t]` holds the call's local variables: the snapshot of
the row, the count of captures, the evidence, the decision. `StatementRaises`
is any SQL statement that raises (ERROR, the lock is released);
`CrashProcess` is the death of a process between any two steps.

`Execute` decides at the provider: a mutation may be applied and its answer
lost, which the code treats as failed. The client sends mutations without an
idempotency key and tries three times, so a retry of what was applied is
refused; both cases are `Applied` with `ok = FALSE`. `ours` are the movements the
system caused; the ghost `untold` holds those among them nobody in the system can
know of, because the answer was lost or the process died before the INSERT of the log.

Data are abstracted to what the rules read: whether amount and currency match,
whether the amount is above 1000, whether the confidence is at least 0.85. A
language model is `AIActions`: it may recommend any of them with any
confidence. With `{}` there is only the rule engine. The rule engine is
confident about a capture only on a rail whose name contains UPI (`UPIRail`);
orders created through the API have the rail RAZORPAY, so only the fault
injection of the chaos lab makes such intents.

Where no payment is known, the negotiator asks a synthetic rail under the key
`idem_<intent>_<version>`. `railKeys` are the versions such a rail has seen: a
second try at the same version is a DUPLICATE.

One intent with one payment is modelled, since every statement is keyed by the
intent and no lock or row is shared between intents.

### OutboxWorker
`status`, `attempts` are columns. `waiting` says that `available_at` lies
ahead, `stale` that a claim is older than its 60 s lease. `LiveLapse` says whether
a lease may lapse under a worker that is still at the event, as it does where
`resolve` takes longer than that. `got` is the count
the claim returned, which the worker decides on. `resolve` is only its outcome:
it answers (with anything) or raises. `TaskQueue` is the promise of the
module's docstring: a task is open, done or dead; every try is counted; it is
dead only after the last.

### WebhookIngest
A delivery walks through `Check` (dedup), `Insert`, `Upsert`, `Enqueue`,
`Mark`. A unique-constraint violation in `Insert` goes straight to `Mark` and
an answer 200. `StatementRaises` is an answer 500 with what was written so far
kept. `DedupExpires` and `CrashApi` are the key's TTL and the death of the
process. The provider delivers again until a delivery was answered 200, and may
deliver twice at once. A delivery with other bytes under the same event id is
what the payload hash is for, and one is among the deliveries.

### AITestLab
`pc` is the await at which a run stands. `Begin` is the check of
`_ACTIVE_RUN_ID` and its assignment, which no await separates; `Refuse` the 409
of a second request. `Timeout` is `wait_for` cancelling the run: before the
suite's `try` nothing cleans up, inside it the `finally` (`Close`) still writes
FAILED, and inside that `finally` the cancellation escapes; each time
`run_test_suite` then writes TIMED_OUT (`Override`). A statement that raises or
is cancelled may have committed. `Age`, `RecoverSelect` and `RecoverUpdate` are
`recover_stale_runs`, whose SELECT and UPDATEs others overtake. A row is old
enough only after the timer of its run, which starts before the INSERT and has
the same 60 s. The events of a scenario are any sequence of the four types that
write the intent; rejected and malformed ones only report. The intent in the
model is the one of the last scenario, since earlier ones are not written
again. The process is one: `_ACTIVE_RUN_ID` says nothing of another's runs.

### Recovery
`Recovery` has every action of `Resolution` and says who takes it. The
outbox is the abstract queue that `OutboxWorker` implements, one item for each
row a source enqueues: a webhook event, a verified checkout, a failure report. Requests write the row (`WebhookArrives`,
`CheckoutConfirms`, `ReportFails`) and enqueue in a later statement
(`Enqueue`), which may raise or never happen. The worker claims an item, calls
`resolve` and marks the item by whether the call answered; that ERROR and
SKIPPED are answers (`Says`, `MarkProcessed`) is the point of the composition.
Only the pool's own exception, outside the resolver's `try`, reaches the worker
and costs an attempt. `PollerLists` and `Calls` are the poller's SELECT and the
calls after it. `PollerDies` is the pool or the SELECT raising, which ends
`run_poller`; like a poller whose process dies, it is not started again (`polling`). `OperatorOpens`, `OperatorClosesCase` and `OperatorRules` are the
statements of `manual_resolve_case`, which looks at neither the case's status nor
the intent's and takes no lock. `overtaken` is a ghost: who was under way at the
last ruling. Time is left out: any unsettled intent may be stale.

### LabVerdicts
The library of twenty scenarios and the templates of the generator are data of the
code and appear as such: type, risk, seed, events and expectation of each, with an
amount reduced to whether it exceeds the refund limit. `Suites` are what the
routes can ask for: the library, the demo, a selection of any scenarios, which are
taken in the library's order (`Selections`), or a generated suite whose first items a
language model wrote (`AIItems`). `Seed`, `Accept`, `Enqueue`, `Log`
and `Judge` are the statements of `run_scenario`; a statement that raises or is
cancelled may have committed. `Oracle` and `LabPolicy` are functions, the second
the resolver's own policy engine on the advice the lab makes up. The runner
reports constants for idempotence and for mutations and nobody compares the
security alert, so neither is modelled; nor are the totals and the rows of the results,
which a run writes after the verdict and does not read. A model may write any string as the seed of a
scenario (`core/ai_test_lab/generator.py:132`); the CHECK on `payment_intents` turns
down one that is no state (`schema.sql:45`), the INSERT raises and the scenario
FAILs: the second branch of `Seed`, which is not a fault. `failedAt` is a ghost.

### Reconciliation
A CASE over five comparisons. `Resolution` reads its verdict where the resolver
does, in the branch that opens a case.

## 3. Runs

| Run | Instance | Shows |
|---|---|---|
| `lock_degraded` | 3 tasks, 2 processes, 2 key losses, 2 crashes, Redis calls raise, keys lapse under a live task | the overlap is bounded by the losses, the crashes and one per fallback |
| `resolution_exclusive` | 2 resolutions in 2 processes, which may change places (symmetry), versions 0-2, 1 crash, 1 key loss, all failures, any advice | mutual exclusion, fresh snapshots, complete evidence, honest logs, one capture, every movement of money logged or printed unless its answer was lost or its process died, refinement of `PaymentLifecycle` |
| `resolution_writers` | the same with `report_failure`, webhooks and `verify_payment`, version 0-1, an amount above the limit, any advice but NO_ACTION | CAPTURED is backed by the provider, nothing refunded above the limit |
| `outbox_leased` | 2 workers whose leases outlast their work, 2 events, 3 attempts, 2 crashes | nobody takes an event another holds, refinement of `TaskQueue`, finality, and settling or exhausting |
| `outbox_parallel` | 2 workers whose leases lapse under their work, 2 events, 2 attempts, 1 crash | distinct claims, no early dead letter |
| `webhook_failures` | 3 deliveries, 2 payloads, 2 crashes, Redis and PostgreSQL raise | keys and tasks never ahead of their rows; nothing lost where nothing failed |
| `recovery_live` | worker and poller, a webhook or a failure report, rule engine, UPI rail, lost answers, one resolution that raises, 1 process death, 2 key losses, a poller that may end | an uncertain intent is settled, with three named exceptions |
| `recovery_requests` | worker and poller, a verified checkout, an operator, lost answers, SQL that raises in the requests and once in a resolution, 1 process death | types, a case for every escalation, rulings stay, no task skipped without a reason |
| `lab_verdicts` | the library, the demo, selections of none, every one and two, neighbouring three, and the six that fail; requests for 0, 7 and 30 scenarios with up to 2 items of a model among 3; 2 failing statements and the timer | the risk is of a failure, forged events move nothing, what was paid is settled, six known scenarios fail and no other |
| `lab_runs` | 2 runs of 2 scenarios, 1 crash, statements raise, the timer fires anywhere | one run at a time, row and answer agree, COMPLETED is whole, tasks are settled, every row leaves RUNNING |

The other runs end in a violation; each is a disagreement between the code and
what the repository says of it:

| Run | The code | The repository |
|---|---|---|
| `resolution_captured` | a payment that is captured already is captured again, refused, and the intent becomes FAILED | FAILED "represents settled truth" (`docs/financial_invariants.md:36`) |
| `recovery_stuck` | an intent that `verify_payment` made AUTHORIZED and whose payment is captured stays AUTHORIZED: the rule engine has no rule for it and advises MANUAL_REVIEW at 0.40, the policy refuses, and with evidence SUCCESS the resolver neither writes a state nor opens a case (`core/resolver.py:195`), at the task and at every poll | "Scenario A --- Successful Payment ... AUTHORIZED, Webhook / capture evidence, CAPTURED / RECONCILED" (`README.md:515`) |

**Bounds.** `MaxVersion` saturates: at the bound a commit leaves the version
and makes the key of the synthetic rails new again, so behaviours go on;
one version allows a second resolution over the first one's result, two a
third; the passing recovery runs leave it at 0, so that each commit brings a new key.
`MaxKeyLosses`, `MaxRestarts` and `MaxCrashes` bound how often the environment misbehaves; two actors and one or two failures suffice for every
counterexample found, the longest of which (a refund that rule 7 stops) needs
three resolutions. Three tasks in the lock show that the bound on the overlap
is not a matter of pairs. Two events are the fewest for which the order of
claims matters. Two test runs are the fewest that can meet in the slot, two
scenarios the fewest between which a stop request falls. In the recovery runs one
task beside the worker's meets it everywhere; two attempts are the fewest with a
retry. The operator's rulings and requests that write the row multiply, so the two passing
runs share them out, one source of tasks at a time (`MaxRequests`): the operator and the
checkout in `recovery_requests`, the other two in `recovery_live`. Both have lost answers, a
resolution that raises, a process that dies, and any number of failures in the requests',
the worker's and the poller's own statements. In `recovery_live` two key losses let the
key of a dead process and that of a failed pool go; in `recovery_requests`, which starts
from UNCERTAIN, such a key stays. `lab_verdicts` needs no bound on
the library; two failing statements reach two scenarios, or one scenario and
the run's last UPDATE. The selections are a few of the 2^20; the theorems cover all. `lab_runs` seeds
CREATED, as most scenarios do; the theorem about the lab's tasks covers every
state a scenario may name.

**Deadlock** is checked for the worker, which never stops. A resolution or a
delivery does stop (the intent settled, every delivery answered), and so do test
runs, so those runs switch the check off; so do the recovery runs, where the intent is
terminal in the end, and `lab_verdicts`, where the run is over.

**Fairness.** `FairWorkerSpec`: a running worker goes on, a dead one is started
again, leases and backoffs end. The loop of `run_worker` justifies the first
and the clock the last. Nothing in `start.sh` or `start_all.sh` restarts a dead
worker; the assumption is the one `worker.py:6` makes ("on restart").
`FairRecoverySpec`: a resolution goes on (every await in it has a timeout), the worker
goes on as above, a request that wrote the row goes on to its INSERT, a key nobody
holds expires, and the poller lists and calls while it lives, as `run_poller` loops. It is
strongly fair in one place: the poller's call is not refused the lock every single
time (`SF` on `Calls`), since it comes every minute and a resolution ends. Nothing
is assumed of the customer, of the operator, or of requests that have not come. Of
statements it is assumed that they do not fail for ever: how often a resolution raises is
bounded (`MaxRaises`), and a worker's claim goes through in the end, as no system recovers
from a database that always fails. The poller does not survive even one failure of its
own, and its end is an exception the property names. Neither start script starts the
poller, so `UncertainIsPursued` speaks of a deployment that runs it, and of the UPI rail,
on which alone the rule engine is confident of a capture.
`FairLabSpec`: a live run goes on, its timer fires, time passes, and the
recovery is started again and again without failing for ever. The lab's page
polls every ten seconds while somebody has it open
(`frontend/src/app/engineering/ai-test-lab/page.js:51`), and each poll calls
`recover_stale_runs`; with nobody looking, a row left by a crash stays RUNNING.

## 4. Proofs

All theorems hold for any number of tasks, processes, workers, events,
deliveries and payloads and for any bounds; the only assumptions are the named
ASSUMEs on the constants, plus, where a statement has conditions, those.

* **`LockIsExclusive`**: if Redis answers and no resolution outlasts the TTL, the
  lock is exclusive. `MutualExclusion` is not inductive, since `Release` deletes
  any key: the invariant is `HolderOwnsKey`, that whoever is inside wrote the
  key that is there.
* **`OverlapIsBounded`**: without any of that, the count of tasks inside is at
  most the key losses, the restarts, one per fallback and one for the key. The
  bound is inductive with finiteness of the sets, each action moving both sides.
* **`ClaimsAreDistinct`, `DeadIsExhausted`**: for parallel workers. The invariant
  bounds the count a worker keeps by the row's and makes counts unique per
  event, because each claim returns a count larger than any before it.
* **`HoldersAreCurrent`, `OutboxImplementsTaskQueue`, `SettledStaysSettled`**: for any
  number of workers under `LeasesHold`, that no event a worker is busy with is stale when
  another worker polls. The invariant `OwnInv`, that what a worker holds is PROCESSING
  under the worker's own count, makes the writes by id harmless and each step a step or a
  stutter of `TaskQueue`. Without the condition two workers refute all three: a lapsed
  worker writes over the other's outcome. **`LeasesAreEnough`**: leases that outlast the
  work (`~LiveLapse`, what `outbox_leased` runs) meet the condition for any number of
  workers. **`OneWorkerIsEnough`**: so does a worker alone, however long it works, since it
  does not poll while it is busy.
* **`DedupIsNeverAhead`, `TasksAreGrounded`**: the invariant `HandlerProgress` says
  what a handler has written by the time it reaches a statement; rows are
  never removed, so other handlers cannot take it back.
* `FaultFreeEventsAreEnqueued`: the invariant `SomebodyIsLeft` names the delivery to
  blame for an event without a task, one that is about to enqueue it or one that was
  never acknowledged. It holds for unsupported event types, too, which have no task.
* **`LabRunsAlone`, `CompletedRunsAreWhole`, `LabTasksAreSettled`,
  `ReportsAreRecorded`**: the invariant `LabInv` adds that the run in the slot is
  the one under way (`SlotIsHeld`), that a scenario in hand leaves the count
  below the total, that a verdict COMPLETED has the total, and that the intent
  is terminal at the await before the task's INSERT. The last rests on the lemma
  `LabEvents` about the transition table: PAYMENT_CAPTURED leads from every state
  to a terminal one, and no event of the lab leads out of one.
* **`ReconciledIsMatched`, `AmbiguousIsUnknown`**: about the engine as a function.
  The second explains why the resolver's `or` (`core/resolver.py:201`) adds
  nothing to its first half.
* `LockTypeCorrect`, `WorkerTypeCorrect`, `WebhookTypeCorrect`, `LabTypeCorrect`,
  `ResolutionTypeCorrect`, `RecoveryTypeCorrect`: the types, with the bounds on attempts
  and versions.

About `Resolution` (`ResolutionProofs`):

* With no condition at all: `LedgerIsTrue` (the log tells of nothing that did not
  happen) and `RefundsAreWithinCap`. The invariant `Books` says of a resolution
  between the provider's answer and its log that what it is about to log did happen,
  and that an action it is about to take was approved by rule 7.
* If Redis answers and no resolution outlasts the TTL: `Exclusive` makes whoever is
  inside the owner of the key, hence alone, and adds what a resolution alone in there
  knows: the version it read is the row's, its evidence is there when it commits, and
  the count of captures it read is the log's. From it follow `ResolutionIsExclusive`,
  `AuditTrailIsComplete` and `CapturesAreOnce`, with unlocked writers.
* If moreover nothing writes the row without the lock: `SnapshotKept` adds the state
  read, and `SnapshotStaysFresh` and `LifecycleIsImplemented` follow, and from the
  transition table `SettledNeverRewinds`, which is what
  `docs/financial_invariants.md:36` says without the conditions. With unlocked
  writers all three are false, as the code has it (section 5).
* `CapturedIntentsAreBacked` holds whether or not the lock excludes and whoever writes
  the row, but needs that no language model advises NO_ACTION; section 5 says why. Its
  invariant `Backed`: what a resolution will write is CAPTURED only if the provider
  captured, and only an intent that was not CAPTURED is resolved.
* `MovementsAreReconstructable` has no condition. It is inductive by itself beside the
  types (`MoneyStep`): a movement is made by the step that leads to its INSERT or joins
  `untold`, the INSERT logs or prints it, and a death in between makes it untold.

About `Recovery` (`RecoveryProofs`):

* A step of `Recovery` is one of `Resolution`, but for the operator's, which write the
  state of the row and the count of cases (`RecoverySteps`, `OperatorStep`). So an
  inductive invariant of `Resolution` that these two do not disturb is one of the
  composition: `Books` gives `RecoveryLedgerIsTrue` and `RecoveryRefundsAreWithinCap`;
  `Exclusive`, if Redis answers and no resolution outlasts the TTL, gives
  `RecoveriesExclude`, `RecoveryAuditTrailIsComplete` and `RecoveryCapturesAreOnce`;
  `Backed` gives `RecoveredCapturesAreBacked`, since no ruling is CAPTURED; `MoneyStep`
  gives `RecoveredMoneyIsReconstructable`; and `RecoveryOverlapIsBounded` has no condition.
  `SnapshotKept` is not carried over: an operator rules without the lock, so
  `SnapshotFresh` is false of the composition.

The rest of it whether or not the lock excludes:

* `SkipsAreExcused`, where Redis answers: a worker is skipped for a key, and a key has
  somebody inside unless a process died or a resolution lost the pool.
* `EscalationsHaveCases`, `RulingsAreOvertakenByFew`, where the bound on cases leaves
  room for one: the invariant `Overseen` says of each resolution that past its
  escalation there is a case, and that RECONCILED is neither what it read nor what it
  will write, so that only an operator writes it and a resolution that comes later is
  turned away.

About `LabVerdicts` (`LabVerdictsProofs`), for any suite and any items of a model:

* `RiskIsReported`: the invariant `Accounts`, inductive because a risk is overwritten
  only by a later failure.
* `ForgeriesMoveNothing`, `PaidIntentsAreSettled`: the invariant `Scene`, what the
  state in memory, the row and the log of events have to do with each other at each
  await. The second rests on a lemma about the table: a capture or a failure leads
  from every state to a terminal one.

* `LabVerdictsTypeCorrect`: on top of these two, `Typed`. Its data are the suites: the
  library is put together of groups of four (`LibraryIsGrouped`), a selection is no longer
  than it (`SelectionIsBounded`), and the generator returns as many scenarios as asked for
  whatever a model wrote (`GenerationIsLong`), so no suite exceeds 25.
* `KnownScenariosFail`: the invariant `Foretold` says that in a run without a fault the
  scenario in hand is in the state its first events lead to (`StateAfter`), and that a
  verdict is FAIL if and only if the scenario is a known failure. What each of the 25
  scenarios ends in is computed from the transition table and the policy rules
  (`MovesMet`, `DecisionsMet`, one lemma for each group). TLC runs each scenario among
  those of its instance; the theorem puts it anywhere in any suite, between any scenarios a
  model wrote.

Only model-checked: the liveness properties `SettlesOrExhausts`, `RunsEnd` and
`UncertainIsPursued`, since fairness is out of the prover's reach. Every invariant and
action property that a passing run checks is stated by a theorem.

## 5. Disagreements without a run

Met while modelling; their hazards in PROJECT.json carry the lines.

* Attempts are counted at the claim and a claim needs one left (`worker.py:86`), so an
  event whose worker dies in its last attempt is reclaimed to PENDING, never claimed
  again and never dead; `worker.py:8` says such items "are moved to DEAD_LETTER".
* `verify_payment` updates the row by its id alone (`api/orders_routes.py:265`), and so
  does a late `Commit`: an intent settled meanwhile is set back, while
  `docs/financial_invariants.md:36` says settled states "must never rewind".
* The event, the intent and the task of a webhook are three statements without a
  transaction (`api/webhook_receiver.py:193`). If the second or third raises, the
  redelivery is a "duplicate event (db)" and the task is lost;
  `docs/architecture.md:74` says "in the same transaction".
* The dashboard's replay of a stored event "re-enqueues" a task in its docstring only: its
  INSERT into `outbox_events` (`api/dashboard_routes.py:584`) names no `idempotency_key`,
  which is NOT NULL without a default (`schema.sql:106`), so it always raises. There is no
  such source of tasks in `Recovery`.
* The intents of orders and of webhooks carry the rail RAZORPAY
  (`api/webhook_receiver.py:173`), on which the rule engine is never confident of a
  capture: an UNCERTAIN one stays so through every poll, while `README.md:566` (Scenario E)
  has it queried and reconciled. `UncertainIsPursued` is about the UPI rail.
* The poller ends for good when the pool or its SELECT raises once
  (`core/reconciliation_poller.py:51`, `:82`).
* A worker whose lease lapsed during `resolve` writes its outcome by the event's id
  (`worker.py:123`, `:138`), over the outcome of the worker that reclaimed the event, a
  settled one included. `HolderIsCurrent`, `SettledIsFinal` and the refinement hold only
  where leases outlast the work.
* A lost answer of the provider, or a death before the INSERT into `external_executions`,
  leaves a movement of money that is neither logged nor printed; `README.md:415` has "Every
  important action should be reconstructable". `MoneyIsReconstructable` names both as
  exceptions and says that there is no third.
* A ruling of the operator (`api/reconciliation_routes.py:101`) is made without the lock: a
  resolution that was under way writes over it. `RulingOvertakesFew` says that only such a
  one may.
* If a capture was logged and the INSERT of its evidence raises, the next resolution
  finds a capture, the rule engine advises REFUND, rule 5 turns that down for an
  UNCERTAIN intent, and it stays so. `UncertainIsPursued` allows for it. A
  DUPLICATE_SUSPECTED intent whose payment is merely authorized, or refunded by now, stays
  as it is, too: the refund is turned down at every poll.
* MANUAL_REVIEW may be written without a case: a capture approved for PENDING_RAIL or
  AUTHORIZED and a refund approved for DUPLICATE_SUSPECTED end there by the table
  (`core/resolver.py:189`), and a case is opened only on unknown evidence
  (`core/resolver.py:203`). `EscalationHasCase` is about the latter.
* `docs/failure_matrix.md:9` has an unreachable provider leave the intent UNCERTAIN and
  "schedule reconciliation polling"; the code writes MANUAL_REVIEW and opens a case,
  after which polling leaves it alone.
* `docs/failure_matrix.md:13` has the worker retry when the database fails; an exception
  inside `resolve` is the answer ERROR, and the event is marked PROCESSED.
* The failure report enqueues a task so that "AI Detective & Policy Engine process the
  failure" (`api/orders_routes.py:321`), after it wrote FAILED: the task is SKIPPED.
* Five of the lab's twenty "deterministic expected results"
  (`core/ai_test_lab/scenarios.py:4`) and one of the generator's five templates FAIL in a run
  without a fault, as `OnlyKnownScenariosFail` lists them: the runner does not act on a
  missing payment id, and a capture reported to UNCERTAIN or to a FAILED intent goes to
  MANUAL_REVIEW or stays.  ADV_INVALID_SIG_THEN_VALID ends in a WARNING, since the 401 of
  its first event stays.
* The risk a run reports is that of its last grave failure, not its gravest
  (`core/ai_test_lab/runner.py:472`): the library, with a CRITICAL failure, reports HIGH.
* The reset of the demo names a column `scenario_name` that `ai_test_runs` does not have
  (`api/dashboard_routes.py:641`): its first statement raises and nothing is reset.

* The lock's TTL of 30 s is never renewed, while one HTTP request may be tried
  three times (`core/idempotency.py:46`); a lapse lets a second resolution in,
  and both may attempt a capture. `OverlapBound` says how far this goes.
* `release_intent_lock` returns after the DEL and leaves an entry of the fallback
  set behind; the process then refuses the intent whenever Redis is away. So it does
  after `get_pool` raised between the acquire and the `try` (`core/resolver.py:55`).
* `resolve` answers ERROR or SKIPPED instead of raising, and the worker marks
  the event PROCESSED (`worker.py:122`). Without the poller nobody comes back to it.
* NO_ACTION on an authorized payment makes an UNCERTAIN intent CAPTURED
  (`core/policy_engine.py:151`, `core/resolver.py:190`): `resolution_writers`
  leaves this advice out.
* The decision MANUAL_REVIEW changes neither the state nor opens a case
  (`core/resolver.py:195-212`).
* VOID is executed as a refund and is not subject to rule 7.
* A crash between the log of a capture and the `Commit` leaves an intent that no
  later resolution settles: a logged capture forbids CAPTURE, and REFUND is not
  allowed in its state.
* A mismatch of payload hashes answers 409 only while the dedup key is there;
  otherwise the unique constraint answers 200 (`api/webhook_receiver.py:161`).

* Capturing an AUTHORIZED intent ends in MANUAL_REVIEW: the table has no
  VERIFIED_SUCCESS there (`core/state_machine.py:50`), while `README.md:836` has
  the successful payment go from CREATED to AUTHORIZED to CAPTURED.
* `recover_stale_runs` "does NOT modify historical completed or failed runs"
  (`core/ai_test_lab/runner.py:73`), but its UPDATE names the row alone: a run
  whose INSERT raised after it committed is recorded FAILED between the SELECT
  and the UPDATE, and then timed out. `ReportedIsRecorded` allows for it.
* A result whose INSERT raises is counted, and the exception is swallowed
  (`core/ai_test_lab/runner.py:495`): the page of a run shows fewer results than its totals.
* A suite cancelled during its last UPDATE is recorded TIMED_OUT although every
  scenario ran, and COMPLETED may have been on record for a moment.
* A scenario that captures nothing leaves its synthetic intent unsettled. The
  poller, where it runs, resolves it after ten minutes and asks Razorpay about
  a made-up payment id, while `core/ai_test_lab/isolation.py:8` "prohibits network
  egress to real Razorpay APIs". `TasksAreSettled` covers the worker alone.
* The engine compares the state with FAILED and VOIDED (`core/reconciliation.py:105`);
  the resolver never reconciles a FAILED intent and there is no state VOIDED.
* `replay_intent` does its whole analysis in the handler of a failed read
  (`core/replay.py:82`); when PostgreSQL answers it returns None.

## 6. Not modelled

Signature checks, parsing, authentication and roles decide without state. The
rate limiter turns requests away before they reach any modelled state, by
wall-clock windows. The dashboard's queries, the forensic replay and the diagnostics
read; the dashboard's reset and its replay of an event raise before they change anything. The chaos lab's faults
and the demo are harnesses around the modelled components; of the AI test lab the
totals and rows of the results and the explanation a model gives of a failure, which
nothing in the lab reads, and the refusal in production are left out. Migrations run once before anything else. Several payments
per order, partial refunds and the amounts (`domain/money.py`) are abstracted to one
payment and two flags, so several attempts at one intent, and a late `payment.failed` of
an earlier one (`api/webhook_receiver.py:167`), are not covered.

## 7. Plan

1. Several payments per order: late webhooks of earlier attempts.
2. `domain/money.py` as operators, checked against a reference definition.
3. The refinement of `Recovery`'s queue by `OutboxWorker` with the claim's lease, as
   one composition; `OutboxImplementsTaskQueue` for several workers is the first half.

# OpsFlow AI: formal models

TLA+ specifications of OpsFlow AI, checked with TLC on small instances and, for the
parts that matter most, proved with TLAPS for every value of the constants. They are
translated from the source (`src/opsflow`, `workflows/n8n`, `integrations/odoo`); the
file and lines behind every definition are listed in `PROJECT.json` under `map`.

## 1. The system

OpsFlow AI turns purchase-order documents into orders and carries approved orders to
an ERP (Odoo) and a CRM (HubSpot). It is one FastAPI application over PostgreSQL;
n8n workflows call it on a schedule or when a document arrives. There is no queue and
no worker process of its own: everything durable is a row, everything that runs is an
HTTP request, and requests overlap, are repeated, and die. Coordination is done with
row locks, fencing tokens with leases, and an append-only audit history.

```
 Gmail / upload         operator (web UI)                      Slack / Gmail
      |                      |                                      ^
 n8n intake workflow         |  ETag / If-Match        n8n dispatch workflow (1/min)
      v                      v                                      ^
  Intake orchestration -> Review commands -> notification intents --+
  (create, claim, extract,  (revalidate, approve,
   validate, route)          reject, retry)
                             |
                             +-> order-sync intent -> n8n sync workflow (every 5 min)
                                                          |
                                             Order synchronization -> Odoo, HubSpot
```

### Inventory

| Component | Source | State it keeps | Operations | Hard behaviour | What makes it correct |
|---|---|---|---|---|---|
| Order lifecycle | `domain/order.py` | state, failure origin | `transition_to`, `retry` | none (pure) | only legal transitions; exactly failed orders have an origin |
| Intake orchestration | `application/orchestration.py`, `orchestration/claims.py`, `ownership.py`, `failures.py` | order state, fence token and expiry, audit history | create or replay, claim, complete extraction, route, persist failure | overlapping redeliveries, crashes, leases, a history in arrival order | one execution at a time; an abandoned order is served again; one execution per human retry |
| Extraction | `extraction/extractor.py`, `models.py` | none | convert the model's answer to a draft | answers of any shape | what is stored can be read back |
| Validation | `application/validation.py`, `validation/` | extraction snapshot, issues, promoted data | gather facts, decide, route, promote, preflight | facts read before the lock and again under it; four lists of rules that must agree | a result is never committed on other facts than it was decided on; ready data can be promoted, what is promoted was asked for and can be sold |
| Review | `application/review_commands.py`, `review_revalidation.py`, `review/concurrency.py` | revisions, ETag | approve, reject, retry, save and revalidate | two operators, stale pages | no lost update; approval creates the sync intent |
| Order synchronization | `application/order_sync.py`, `persistence/order_sync_repository.py`, `order_sync/` | claim and lease, attempts, generation, due time, receipts, in-flight step | claim, begin, receipt, failure, yield, complete | crashes between a provider's effect and the receipt, outrun workers, queue order | no write orphaned, repeated only as itself, in order; nothing stranded or starved |
| Odoo adapter and bridge | `odoo.py`, `integrations/odoo/.../sale_order.py` | sale orders with a unique external id | preflight, create or get | overlapping bridge calls | one sale order per order |
| HubSpot adapter | `hubspot.py` | companies, deals, associations | upsert, search, create, associate | partial failure | one deal per order |
| Notifications | `notifications/service.py`, `persistence/notification_repository.py`, n8n dispatch | status, attempts, claim, due time | create, claim, record outcome, finalize | lost or late reports, exhausted leases | at most three calls, one per attempt; every intent ends |
| n8n intake workflows | `workflows/n8n/*intake.json` | the execution | bounded retries, one delayed redelivery | retries against leases | a live delivery is not lost |
| Documents | `documents/` | none | parse | failure only | bounded input |
| Evaluation | `evaluation/` | the evaluation database, results on disk | reset, run the corpus, score, gate, publish, compare | results that are assembled unchecked, kills, three sets of rules over one evidence, a wrong database | exit code 0 and a claimed improvement are earned; only evaluation data is deleted |
| HTTP API, limits, observability, web UI | `api/`, `http_limits.py`, `observability/`, `web/` | none that the above reads | | | |

The hazards this code is exposed to are in `PROJECT.json` (`hazards`), each at its
line with the properties that watch it.

## 2. Modules

| Module | Models | Notes |
|---|---|---|
| `OrderDomain` | the order aggregate | constant operators used by every other module |
| `SyncContract` | what synchronization promises | abstract specification, no workers, claims or time |
| `OrderSync` | order synchronization | refines `SyncContract` |
| `OrderSyncProofs` | theorems about `OrderSync` | |
| `IntakeHistory` | how a claim reads the audit history | a pure algorithm: a recursive function over the prefixes of the history |
| `Intake` | deliveries of one document | extends `IntakeHistory` |
| `IntakeProofs` | theorems about the automaton that reads a history and about `Intake` | |
| `Review` | review pages, commands, validation of several orders | the delivery of `Intake` and the synchronization of `OrderSync` appear as their steps on the order |
| `ReviewProofs` | theorems about `Review` | |
| `ProviderCalls` | the calls that `OrderSync` makes, as the adapters see them | used by the two below |
| `OdooBridge` | the bridge step: Odoo adapter and addon | extends `ProviderCalls` |
| `HubSpot` | the three CRM steps | extends `OdooBridge` |
| `Providers` | one order with its calls and both providers | the specification that composes them |
| `ProvidersProofs` | theorems about `Providers` | |
| `Notifications` | intents, claims, outcomes and n8n dispatchers | |
| `NotificationsProofs` | theorems about `Notifications` | |
| `ValidationEngine` | the rules of the engine, the contract of trusted data, promotion, the preflight's rules | constant operators |
| `CaseData` | the data of one order from the model's answer to the preflight | extends `ValidationEngine` |
| `CaseDataProofs` | theorems about `CaseData` and lemmas about the rules | |
| `EvaluationScoring` | scores, release gates and rates | constant operators |
| `EvaluationModels` | what a corpus case and a result may hold | extends `EvaluationScoring`, uses `OrderDomain` |
| `EvaluatedApp` | the application under test: right and wrong outcomes of every call | extends `EvaluationScoring` |
| `EvaluationRun` | the evaluation command from the reset to the exit code | extends the two above |
| `EvaluationComparison` | evidence checks and the comparison of two results | extends `EvaluationRun`; holds the properties |
| `EvaluationProofs` | the theorems about the reset and the result of a run | |
| `EvaluationVerdictProofs` | the theorems about exit code 0, its file and a claim | extends `EvaluationProofs` |
| `MC*` | small instances for TLC | one per specification; configurations in `*.cfg` |

One action is one database transaction, or the work between two. A worker or a request
is a process with a program counter; whatever is not in the database is lost when it
stops.

### OrderSync

The row of `order_syncs` is `claim`, `expired`, `attempts`, `generation`, `due`,
`ahead`, `receipts`, `inFlight`, `lastFailure`; the order is `[state, origin]`;
`lastAudit` is the type of the latest synchronization audit event (nothing in this
component reads the rest of the history). A worker has the local variables of
`execute_next_order_sync`: the claim (`job`, `token`), the row as it last read it
(`view` for `sync_row`), `lookedUp` for `lookup_succeeded`, and the step it began.

* `Claim`, `ExhaustLease` are the two outcomes of `claim_next_order_sync`; `ReadRow` is
  `_get_order_sync`, a transaction of its own; `Begin`, `PersistReceipt`,
  `RecordFailure` (through `StepFails`, `ReceiptCollides`), `Yield`, `Complete` are the
  fenced transactions; `RefusedAsStale` is `StaleOrderSyncClaimError`; `Abandon` is a
  crash or a deadline that fires inside a transaction. `HumanRetry` is the part of
  `retry_order` that concerns a failed synchronization (the ETag is left to the review
  commands). `Init` is the state that approval leaves behind.
* Sessions are created with `expire_on_commit=False`, but no model object outlives the
  function that loaded it and the identity map is weak, so each transaction is taken to
  read the row afresh. The coordinator's copy is the value object `sync_row`, which is
  `view`.
* Time is what the queries compare: a lease has expired or not, a row is due or not,
  and `ahead` is the order by `next_attempt_at, created_at, order_id`. `SKIP LOCKED`
  may pass over a row that another transaction holds; `MayBeLocked` over-approximates
  when that can be.
* The provider is an oracle. A write that was requested may take effect at any later
  time, so `sent` collects requested writes and never shrinks; answers and failures
  are independent of it. A repeated write is the same write (the stable identity of
  the order); `Providers` looks at what it does there.
* Tokens: `uuid4` gives a token nobody holds. A finite set of tokens suffices because
  a token may be used again once no row and no worker has it.
* `Settled` lets a finished system stutter explicitly, so that TLC's deadlock check
  stays on: any other state in which nothing can happen would be reported.

### Intake

All requests deliver under one idempotency key. `order`, `body` (the fingerprint of
the idempotency record), `log`, `fence`/`fenceLeft`, `snapshot` are the database;
`pc`, `content`, `arrived`, `left`, `kind`, `answer` are the requests. `log` is kept in
commit order, each event with its stamp: the time the request arrived (the endpoint
takes it, `api/orchestration.py`) plus a few microseconds. `HistoryOf` sorts by stamp
as the claim does. `Gap` keeps the stamps of one request together: two arrivals are
taken to be more than a few microseconds apart.

Leases and budgets are timers counted down by `Tick`. The code checks the budget between
blocking calls, so a request may hang in a call and wake up after its budget and its
lease: its `left` is then `Late`. What holds only of requests that stop in time is stated
of those that are not `Late`. The engine's decision, the
provider's failures and changed facts are nondeterministic choices. `GiveUp` is any
way in which a request ends without a durable result: a crash, a stale fence, a lost
connection.

### Review

`order`, `document`, `purchase`, `processed`, `issues`, `written`, `revision`, `latest`
are the database: the aggregate, its document, the customer and PO number promoted into
it, the extraction snapshots in the order they were written, the validation issues, and
what the ETag is made of. `latest` is the audit event that `get_latest_audit_event_id`
returns: the last by `occurred_at`, which is not always the last one written. The
history variables `generation`, `written` and `overlapped` count committed mutations,
name the one that wrote the issues, and keep which final transactions overlapped.

* A page (`OpenPage`, `ReadIssues`, `ReadRevision`, `ReadLatestAudit`) is read by
  statements that each see what is committed at that moment (READ COMMITTED, the
  engine's default). The operator keeps it and sends any command with its ETag (`Send`).
* A command checks the ETag without the lock (`ReadBase`, `Precheck`) and again under
  the row lock (`StillCurrent`). `Approve`, `Reject` and `RetryOrder` lock, check and
  commit in one step, since nothing else can touch a locked order. Save and revalidate
  decides outside any transaction (`Decide`), then locks its own order and checks state,
  ETag and facts (`LockAndRecheck`) and commits (`CommitRuling`). These are two steps
  because the facts are about *other* orders, which are not locked.
* The first validation of a delivery takes the same three actions. The delivery of order
  `o` is the process `o`: that there is one at a time is what `Intake` shows. It can fail
  (`DeliveryFails`) and the document can be delivered again (`DeliveryArrives`,
  `DeliveryClaims`).
* `Synchronize` is the outside of `OrderSync`: the order's steps from `APPROVED` on, with
  audit events that carry the database's clock, ahead of or behind the application's by
  `skew`.
* Validation facts are the two that depend on other orders; the rules about the draft
  and the trusted data are a free choice. Authorization, payloads, the high-value
  warning, whether a draft was changed, and notification intents are left out. A finished
  request forgets what it had in memory (`Leave`).

### Providers

Calls are numbered; the latest one has the current claim, so a receipt of any other is
refused (`Persist`), which is what `OrderSync` shows in detail. `receipts` counts the
receipts, and the order may already have its first ones. A call is a process with a
program counter (`pc`), what it knows (`exists`, `seen`), a `request` that it has sent
and the provider has not dealt with, and an `answer` that it has not read. `GiveUp` is a
transport error, an outage or a timeout; it leaves the request with the provider, which
deals with it at any later time, and the next call may begin before the last one ends.

* Odoo: `ReadIdentity`, `ReadPartner`, `ReadProducts` are the separate JSON-2 calls of
  the adapter; between any two of them `MasterDataChange` may change the customer, the
  goods or the list price. The addon runs in one transaction at REPEATABLE READ:
  `BridgeFinds`, `BridgeRefuses`, `BridgeAccepts` act on what it sees when it starts, and
  `BridgeCommits` meets the unique constraint. A sale order remembers the data that were
  checked for it (`checked`). Master data are what the checks tell apart: which partner
  the reference resolves to, whether it may buy, whether the goods can be found, sold
  and delivered, and the price, of which policy tolerates some. The preflight step
  `ODOO_LOOKUP` makes the same reads and the same check and writes nothing, so it is not
  repeated here.
* HubSpot: a search shows `index`, which follows the deal at any later time
  (`IndexCatchesUp`); people move deals (`DealMovesOn`), and HubSpot itself may put a new
  deal elsewhere, which the response tells (`CreatedIn`). `NotSetUp` stands for the checks
  of the account, the receipts and the pipeline before anything is asked. `Accepted` is
  the answer to a batch or an association that is not done yet and may be done at any
  later time.
* Failure codes stand for classes: `NOT_ELIGIBLE` for every customer, product and stock
  code, `PROVIDER_UNAVAILABLE` for every outage. Left out are the text of payloads,
  rate-limit delays, records that are deleted, and customers whose reference no longer
  resolves to anybody.

### Notifications

`status`, `attempts`, `claim`, `expired`, `due` are the row; a dispatcher is one n8n
execution: claim, one call to Slack or Gmail, one report. The transaction of a report
takes its time (`now()`) before it waits for the row lock, so `StartReport` and
`Report` are separate steps and `inTime` may be out of date when it is used. `Vanish`
loses the claim response, the report, or the execution. Claim tokens are numbered,
because `uuid4` does not repeat; the order in which due intents are claimed is left
open. A call may deliver and still be reported as failed, or not at all: delivery is
at least once and the properties say how many calls that can cost.

### CaseData

`Review` and `Intake` say who may overtake whom and leave the data to chance; `CaseData`
has one order, one request at a time, and the data. What the order carries goes through
five shapes: the model's response, the stored extraction (`snapshot`), the reviewer's
`revision`, the promoted `order`, and the lookup that the preflight makes for it. It is
judged by four pieces of code: `Accepts` (the extractor's contract), `Issues` and
`RouteOf` (the engine's rules), `Promotable` (the checks under which the engine builds
the promoted data), and `PreflightIssues` (the check of an approved order).

* `Extract` is an answer that converts to a draft; one that does not leaves nothing
  behind here (`Intake` has the failure). `StartValidation` and `StartRevision` read facts
  and trusted data; `CommitValidation` and `CommitRevision` are the transactions, with the
  recheck of the facts and, for a revision, of the ETag (`base`). `Consult` lets the
  provider answer for any other draft too; `AnswersDraft` is
  `validate_trusted_business_data`.
* `Approve` looks at the stored warning (`MayApprove`), never at the order's value.
  `Preflight` is the decision of the `ODOO_LOOKUP` step, on the data of that moment.
* `Surroundings` changes the day, the trusted data or the facts about other orders at any
  time, also between a lookup and its commit.
* Decimals are integers and dates are days: the rules add, multiply and compare, and the
  tolerance is cross-multiplied. A text is a value of its own, `Blank` or `Malformed`.
  Every rule keeps its code and line; messages and rendered values are left out.
  `basis` (the trusted data that promotion used) and `verdict` are history.

### Evaluation

The benchmark runs a corpus against the real application in a database of its own. The
question here is not whether the application is right, but whether the benchmark
notices when it is not. So `EvaluatedApp` is any application: for every call of the runner
it has the right outcome and the wrong ones (`Outcome(row, wrong)`), and the history
variable `wrong` records what went wrong in which case and step, up to `MaxWrong` times.

* `EvaluationRun`: `Start` is the command with its configuration checks (`Isolated`,
  `Preflight`), `Reset` and `ConfirmSchema` the guarded deletion, `RunCase` the scenario
  of the current case: `Intake`, the two authority probes (`Probe`), and for a duplicate
  `Replay`, for a failed intake `RetryFailed` and `Resume`, for a synchronization
  `ApproveOrder`, `ClaimAndBridge`, `Exhaust`, `ProbeRetry`, `RetrySync`, `Synchronize`.
  Any of them may raise. `Judge` computes gates, rates and timings; `WriteJson`,
  `WriteMarkdown` and `Exit` publish; `Killed` ends the process anywhere.
* A case's result is the record that the runner assembles by `model_copy`, with the same
  fields; what merges drop is dropped here. The result is validated when the run is over,
  by `run_corpus` (`runner.py:2068`) and again by `write_result_json`; the command ends
  alike, so `WriteJson` has the one check (`ValidRunResult` in `EvaluationModels`).
* A case that breaks reports what its own provider had counted (`OwnProvider`), which for a
  recovery, whose intakes use doubles of their own, is nothing; an intake that raises is
  timed like one that does not.
* `EvaluationScoring` has the scores and the five gates, `EvaluationComparison` what
  `comparison.py` recomputes from a published file (`EvidenceIssues`, `TimingIssues`) and
  what it takes to claim an improvement (`ClaimSupported`).
* Objects in Odoo and HubSpot are sets of identities, as in the executor double, whose
  identities are functions of the order: a duplicate would show, but the double never
  makes one.

## 3. Runs

| Run | Question | Bounds |
|---|---|---|
| `order_sync_one` | fencing, checkpoints, attempts, refinement | 1 order, 2 workers, 3 attempts, 1 human retry, one failure code per class |
| `order_sync_queue` | every order settles, nobody starves in the claim queue, identities that collide between orders | 2 orders, 1 worker, 2 attempts |
| `providers` | lost and late answers, changing master data, stale searches | 1 order, 3 calls, 1 change of master data, 2 partners, 2 prices, one of them tolerated |
| `intake` | overlapping deliveries, in time or late | 3 requests, 2 documents, budget 1, lease 2, 2 human retries |
| `intake_overlap` | the documented recovery, refuted (section 6) | 2 requests |
| `review_tags` | commands on stale pages, lost updates | 1 order, 2 operators, 4 arrivals, 3 synchronization events, database clock behind, equal, ahead |
| `review_conflicts` | two orders for one purchase or document | 2 orders, 1 operator, 4 arrivals, 1 purchase, 2 documents |
| `review_skew` | a statement of the docs, refuted (section 6) | 2 orders, 1 operator, 2 arrivals |
| `notifications` | attempts, late reports, every intent settles | 2 intents, 2 dispatchers, 2 attempts |
| `case_data` | do the lists of rules agree, is what is sold what was asked for and approved | 22 answers, 6 revised drafts, 10 contents of the trusted data, 2 revisions, 2 changes of the surroundings |
| `evaluation` | what exit code 0 and a claimed improvement are worth | one case per scenario, both modes, 7 configurations, 2 runs, 1 fault |
| `evaluation_live` | the sample counts that a live run is asked for, refuted (section 6) | 1 run |

Why the bounds are enough. Two workers are an owner and the one that outran it; a
third worker's claim only repeats this with the first as a bystander, whose steps the
fence refuses. Three attempts are the code's own
limit; the two-order run uses fewer because the attempt count of one order never
influences another. Three requests are a creator, an owner and a redelivery. Two
dispatchers are a late one and the one that took over, and two intents compete for
them. One order and two operators are enough for the
ETag, which is about one order; four arrivals allow the delivery, a command of each
operator and a redelivery between them, and three synchronization events are start,
failure and the start after a human retry. A duplicate is a relation of two orders; a
third order adds another pair. One worker is enough for the claim queue, where another
one would only be a second crash; it can still lose its lease and take its own place.
Three calls to the providers are two whose requests overlap and one that finds what
they left; a second change of master data would hide the first from the checks. Budget 1
and lease 2 keep what matters of 180 and 210 seconds: that a budget ends first. For the
safety properties these arguments are a guide only: the theorems of section 4 cover any
number of each.

In `case_data` each answer, revision and content of the trusted data differs from a clean
case in one place, and each rule fails for one of them; two lines, the boundary of the
tolerance (10 against 11) and of the threshold (40) are among them. Two changes are one
before and one after the approval. The corpus of the repository (3.0.0) has 36 cases of
six categories; `evaluation` has one case of each scenario that the runner treats
differently, and cases do not share rows. Two runs are a baseline and a candidate. One
fault keeps the run short; the theorems are about any number of them, one in each case.
Two in one case are excluded (`OneFaultPerCase`) because the second can undo what the
first left to see: an order of the duplicate case that was executed by its first intake
and is sent back to review by the replay passes, since the evidence of the first intake is
dropped when the replay's is merged in (`runner.py:1351-1469`). `PassIsConsistent` needs no
such premise. On one run with two faults and with three TLC has found the same.

`CHECK_DEADLOCK FALSE` appears in the intake, review, case and evaluation runs, where
deliveries, requests, changes and runs are finite in number, in the provider run, where
calls are, and in the notification run, where every intent may be settled. Workers,
requests, operators, orders, purchases, documents and partners are interchangeable in the
specifications they are parameters of, so the safety runs use symmetry; the runs with
liveness properties do not.

### Properties

* `NoOrphanedWrite`, `WritesFollowReceipts`, `BridgeIsResumed`: whatever was asked of
  a provider is acknowledged or named by the durable checkpoint, in order, and a bridge
  call that may have created the sale order is resumed, never preceded by a second
  preflight.
* `AtMostOneWriter`, `LiveWorkerIsNeverRefused`: the fence lets one worker through, and
  never in a state for which the coordinator has no handler, though it works on a copy
  of the row.
* `NoStrandedRow`, `AttemptsAreSpent`, `EveryOrderSettles`, `EveryEligibleRowIsClaimed`:
  the attempt accounting neither strands a row nor lets it retry for ever, and the
  queue is fair.
* `ImplementsContract`: whatever workers, leases and crashes do, the order goes through
  the abstract contract.
* `RedeliveryIsServed`, `RetryGrantsOneExecution`, `OneExecution`,
  `TakeoverOnlyAfterExpiry`, `LiveOwnerIsNeverRefused`: a delivery of an order in
  progress is told when to come back or gets the execution, there is one execution at a
  time, and a human retry is worth exactly one.
* `ForeignContentIsNeverWorkedOn`: the key binds the content.
* `ValidETagIsOfThisGeneration`: an ETag that is still accepted was issued by the latest
  mutation, for pages that were read whole, although it hashes an audit event chosen by
  clocks that disagree. The state in the hash is what saves it when events are recorded
  out of order.
* `CommandsActOnWhatWasRead`, `ApprovedAsShown`, `ChangesFollowTheirBase`: no lost update
  between operators, deliveries and synchronization; whoever approves has seen the
  issues that the order has, even on a page that was read in pieces; the changes kept
  with a revision are relative to the revision before it.
* `ConflictsNeedOverlap`: two orders for the same purchase or document become ready only
  if their final transactions overlapped; the recheck under the lock finds every other
  conflict. (It is as strong as the code allows: see `review_skew` in section 6.)
* `SoldAsApproved`: what Odoo saw when it created a sale order passes the policy check
  that Python made on data it read piece by piece and earlier. Odoo does not know the
  policy's tolerance; comparing the list price with the one Python used makes up for it.
* `ReplayIsNotBlocked`, `ReceiptsAreBacked`: a lost answer is made good although stock
  and prices have changed since; a receipt always has a record behind it, whatever was
  lost, late, refused or merely accepted.
* `ProgressedDealIsReported`: a deal that had moved on when a call began never ends that
  call with a receipt, though the search may show its old stage. (The other managed
  fields may still be written in that case, between the stale search and the read-back.)
* `EachAttemptIsCalledOnce`, `SettledByTheLastAttempt`, `LiveReportIsRecorded`,
  `SettledForGood`, `EveryIntentSettles`: the notification's attempts.
* `ReadyIsPromotable`, `RefusedOnlyAfterChange`: the engine's rules, the checks of the
  promotion and those of the preflight are three lists in three functions; a draft that
  passes the first always passes the second, and passes the third as long as the trusted
  data has not changed. The third list is the preflight's (customer, products, stock,
  currency, tolerance); what Odoo checks besides is `Providers`' subject.
* `PromotedAsRequested`: line by line, what is promoted is what the effective draft asks
  for, even if the provider answered for another draft.
* `HighValueIsElevated`: the elevated role approved whatever reaches the threshold,
  though approval sees a stored warning only, perhaps of an earlier draft's validation.
* `PassIsEarned`: exit code 0 means that the application did nothing wrong in any case,
  if it did at most one thing wrong in each, except what the runner cannot see: it
  compares no step that a retried synchronization took (`runner.py:1795`), so one that
  skips some or all of the missing steps and completes the order passes. The phase 11
  design (section 7.4) has the retry resume "the first missing sync step".
* `PassIsConsistent`: the comparison, judging the published file again by its own rules,
  finds nothing to doubt in a run that passed (but it does doubt one that resumed
  nothing).
* `ClaimIsEarned`: an improvement is never claimed from a run in which the application
  did one thing wrong in any case, but for one skipped step; a provider call that failed
  in a live run only fails that run's exit code.
* `EveryRunCanBePublished`: whatever the application does, the result keeps its contract,
  so that a finished run, with its paid calls, is not lost to a validation error.
* `OnlyEvaluationDataIsWiped`: rows are deleted in the evaluation database only.

Every property of a passing run is paired in `PROJECT.json` with a mutant: a plausible
bug, written as an operator beside the one it replaces, that makes TLC find the
property violated.

### Fairness

* The scheduler (n8n) keeps sending requests and time passes: weak fairness of claims,
  of lease expiry and of due times.
* A worker that runs takes its next step, and a provider call ends, if need be by its
  timeout: weak fairness of a worker's steps.
* Crashes that cost a claim end at some time, and so do completions that outlast their
  lease (`OutlivesLease`). The second assumption is needed because the takeover of a row
  that has all its receipts spends no attempt and leaves its place in the queue: without
  it TLC shows an order that is taken over for ever while the other one starves. Leases
  are five minutes and a completion is one transaction.
* `EveryOrderSettles` also assumes that budgets do not cut requests short for ever.
  Without it TLC shows an order that never settles: a worker that yields between the
  preflight and the bridge call forgets that the preflight succeeded, and a yield spends
  no attempt. The execution budget is well above the two step timeouts, so an execution
  that is always cut short there needs a database that is always slow. Leases that are
  lost while there is something to ask a provider need no assumption: they spend attempts.
* These assumptions are the price of the two liveness properties: the preflight that is
  repeated for ever (`order_sync.py:390`) and the completion that is taken over for ever
  (`order_sync.py:131`) are assumed away and caught by no property. What
  `EveryOrderSettles` does show is that crashes, lost leases and late answers use up the
  attempts and leave no order behind.
* `EveryEligibleRowIsClaimed` makes no assumption about yields; it is about the queue,
  not about the progress of one order.
* `EveryIntentSettles` assumes nothing about reports: losing all of them leads to three
  attempts and a final failure.

## 4. Proofs

The theorems hold for any sets of orders, workers, tokens, requests, operators, documents,
calls, partners, intents, dispatchers, answers, drafts, trusted data and cases and any
bounds, from the named assumptions on the constants. None of the safety properties is
inductive; for each specification the invariant that is (`IInv`) says what a process that
has left its transaction still knows about the database.

`OrderSync`. `IInv` adds `RowShape` (the receipts are a prefix of the provider order and
the checkpoint is the step that follows) and `WorkerShape`: busy workers hold different
tokens, and **the worker whose token the row still has knows the row** (its copy has the
same receipts, and the step it began is the checkpoint). The last part is the core of the
argument. A worker reads the row outside the fence; that is harmless because only the
holder of the token writes receipts and the checkpoint, and a token, once lost, is never
given back. From `IInv` follow `TypeCorrect`, `WritesAreNeverOrphaned`,
`WritesComeInOrder`, `RowsAreNeverStranded`, `OneWriter`, `LiveWorkerProceeds`,
`UncertainBridgeIsResumed`, and `Refinement`: each action maps to an action of
`SyncContract` or to a stutter. `AttemptsAreAccounted` is an action property.

`IntakeHistory` (in `IntakeProofs`). `ResumptionNeedsUnusedRetry`: where a valid
history, however long, shows a claim a retry that nobody has used, it holds fewer
resumptions than retries. The induction theorems of the library cannot be used with
these provers, so the induction over a history takes the shortest prefix without the
property and refutes it (`LeastElement`, `Induction`); `ReadingExists` shows that the
recursive definition of `Readings` is one.

`Intake`. A claim works on the history sorted by arrival, the invariant on the log in
commit order. Stamps are distinct, so the sorted history is a permutation of the log and
both hold the same number of each type of event. `IInv` is `TypeOK`, `RowShape` (what
state, fence and snapshot have to do with each other), `RequestShape`, `Ownership` (the
owner is the request whose fence the row holds; **a request that stops in time is over
before its lease**, so whoever takes over finds it gone or `Late`), `Stamps`, and
`RetryBalance`: one retry is not yet resumed exactly while the order is in progress and
nobody owns it since that retry. From it: `ExecutionsDoNotOverlap`, `LiveOwnerProceeds`,
`ForeignContentIsRefused`, `RetriesAreUsedOnce`, and `TakeoverWaitsForExpiry`.
`RedeliveriesAreServed` needs more: where events were committed in the order of their
stamps, the automaton at the end of the history agrees with the order's state (`Parsed`,
`Matches`), so a delivery is never told that the history makes no sense
(`HistoryIsUnderstood`).

`Review`. `IInv` has four parts.
* `Tags`: `Times` (the latest event is no newer than the last arrival, or synchronization
  recorded it and its next one will be newer), and for each operator `Reading` and
  `Commanding`. While nothing was committed since the page was opened, it shows what is
  there (`UpToDate`). Afterwards its ETag is no longer that of the order, or will not be
  once the order can be commanded again (`Superseded`): the order has been ruled on, its
  revision has grown, or, if the page shows a failed order, the commits in between can only
  be retries and failures. A retry is newer than every event its own page had shown, or
  else the failure after it is newer by the clock of the database. `Commanding` is what
  makes the retry so.
* `Exclusion`: `Locking`, `Snapshots`, `Watching` and `ConflictsNeedOverlap` itself. What
  contradicts a promotion under way, whose facts were free of it under the lock, was
  committed by a transaction that held its lock at the same time; `overlapped` remembers
  that pair.
* `Based`: the changes of the latest revision are relative to the one before it.
* `TypeOK`.

Every commit moves one order along its lifecycle (`Effect`), and the lemmas about the four
parts are about `Effect`, not about the actions. From `IInv`: `TagsIdentifyGenerations`,
`DuplicatesNeedOverlap`, `NoLostUpdate`, `ApproversHaveSeenTheIssues`,
`ChangesAreRelativeToTheLast`. `ProcessesAssumption` says that orders are finitely many
(`Init` counts them) and that a delivery is not an operator.

`Providers`. `CallHolds` relates what one call knows, its request under way and the answer
it has not read to what the providers have: `Calling` for what is common, `Bridging` for
Odoo, `Dealing` for HubSpot. The core is that providers only go `Forward`: what exists
remains, and a deal that has moved on stays so. What a call or an answer knew is therefore
true whatever another call does, in time or late. From it: `NothingElseIsSold`,
`RepeatedCallIsServed`, `ReceiptsStandForRecords`, `MovedDealsAreReported`.

`Notifications`. `IInv` says that a dispatcher's token is the row's exactly when its
attempt is the row's current attempt, and that no two dispatchers work on one attempt.
From it: `CallsAreNeverRepeated`, `LastAttemptSettles`, `LiveReportsCount`, and the
action property `SettlementIsFinal`.

`CaseData`. The argument is about the rules first: `ReadyDataIsPromotable` (a draft with
no error issue passes every check of the promotion) and `PromotedPassesPreflight` (what
was promoted passes the preflight's rules on the same trusted data) hold for any draft
and any data that answer it, by way of what the absence of each issue says
(`ClearCustomer`, `ClearOrder`, `ClearLine`). `IInv` then carries them from a request in
flight, whose data answer its draft (`RequestHolds`), over the promotion (`Sold`: the order
fulfils the draft, passes the preflight on `basis`, and has its warning if its value is
high) to the approval (`ApprovalHolds`). The sum in `Total` is opaque to the proofs except
that it is the same before and after the promotion. From it: `TypeCorrect`,
`ReadyIsAlwaysPromotable`, `PromotionIsAsRequested`, `HighValueNeedsElevation`,
`PreflightAgrees`.

`EvaluationRun`. `SafeToReset` (a command that reached the reset has an isolated
configuration) is inductive, since nothing changes the configuration of a running command;
with the reset's own look at the connected database it gives `ResetIsSafe`.
`EveryResultIsPublishable` is about the result, for any corpus, any number of wrong calls
and any number of runs. A result is put together with `model_copy` and validated only when
the run is over, so the invariant `Assembled` is the missing check at every step: the
finished cases keep their contract (`CaseOK`), the rows can be read (`RowsOK`), and
`SeenOK` says for each step of a scenario what the steps before it have observed. One
lemma for each operator that builds or amends a case result (`ResultFromIntake`, `Probed`,
`WithReplay`, `WithRecovery` and the others) shows that it keeps `CaseOK`, one for each
action uses them, and `JudgeAssembles` does the gates and rates. The number of duplicates
is a recursive sum: that it exists and is natural is an induction over the number of
summands (`SumExists`, `SumIsNatural`). The assumptions are that each case of the corpus
is one that its loader accepts (`CorpusAssumption`), that `None` is no string, number or
truth value (`NoneAssumption`) and no evidence (`NoneIsNoEvidence`), and that the texts of
the runner are strings, which the provers do not know of a literal (`TextsAreStrings`).

`EvaluationComparison`. The verdicts are proved for every corpus that says enough, any
number of cases, runs and files on disk, and any number of things that go wrong.
* `PassedRunsAreConsistent` (`PassIsConsistent`): `Backed` says of every finished case that
  passed that the comparison finds no issue in it (`CaseIssues` is empty), and of the case
  at work that its observations were judged by what they say (`Watched`). For each scenario
  a lemma follows the result through its merges and recomputes each score, flag and receipt
  status the way `comparison.py` does (`PlainStandsUp`, `ReplayStandsUp`,
  `RecoveryStandsUp`, `SyncStandsUp`). `Timed` counts: the samples of a stage are the cases
  finished in it, once or twice each, and those of the case at work, so that a complete
  corpus has the population that is asked for. `Reported` carries both from the verdict to
  the exit code.
* `PassedRunsAreEarned` (`PassIsEarned`): what goes wrong alone in a case must not be
  lost on the way to its result. `Earned` says, for each step of each scenario, how the
  order and the observations look while nothing went wrong (`Clean`), and which mark is
  left once something did (`Shown`): an unexpected state, notifications that do not fit
  the history, an approval nobody gave, a probe that was not refused. Every step keeps
  the mark or turns it into another (`Passes`), and the end of the case turns it into a
  result that tells it (`Told`): not `PASS`, without evidence of authority, or with
  evidence that a gate refuses (`Suspect`). `GatesTell` and `EarnedAtExit` say that such
  a result never leads to exit code 0.
* `ClaimsAreEarned` (`ClaimIsEarned`): `Shelved` says of every file that it tells what went
  wrong in its run, wherever the process was killed after the file was written, and
  `PassedShows` that a file which the comparison accepts as passed tells nothing.

What the corpus must say is a hypothesis of these theorems (of the first only
`ResumesSync`), which every case of
`evals/corpus/v1/manifest.json` meets and TLC evaluates on the checked corpus
(`CorpusIsTelling`): a recovery with an approval fails in `SYNCING` (`ResumesSync`); a case
expects the state that its route stands for, and a redelivered document is expected in
review (`Telling`). `models.py` accepts other corpora, and for each of these clauses but
the equality of state and route TLC shows a corpus without it whose runs pass with a fault:
a duplicate that is expected to be ready loses the verdict of its first approval probe, a
duplicate without expectations does not notice a misrouted replay, and a recovery with an
approval and another stage runs the synchronization scenario (`runner.py:1960`) but is
scored as a failed intake (`scoring.py:1003`). The equality is there because the route of
a result is read from its state: a case that expected another state could never pass.

Liveness aside, every property of a passing run is stated by a theorem.

Only model-checked:

* the liveness properties (`EveryOrderSettles`, `EveryEligibleRowIsClaimed`,
  `EveryIntentSettles`): the prover has no rule for fairness and `ENABLED` here;
* the statements that section 6 refutes.

## 5. Not modelled

* The n8n intake workflows and HTTP limits (planned, see below).
* Document parsers, the call to the language model, the text of pages and of the report,
  observability and the UI: no state that these components coordinate on.
* Persistence: `persistence/models.py` and `mappers.py` convert rows to objects and back,
  the repositories are modelled through the transactions that call them. The JSON forms
  of extractions and revisions (`mappers.py`, `review/serialization.py`) are taken to read
  back what was written, so a stored draft that the review's contract refuses cannot
  appear in these models.
* Of the evaluation: extraction quality (field counts), durations, tokens, prices and
  what they cost; two evaluations at the same time (nothing prevents them); queues that
  several cases share (the scenario claims the next eligible order of any case,
  `runner.py:1575`, and checks afterwards that it is its own).
* Authorization beyond the two approval roles.

## 6. Findings

Places where the docs say something else than the code does. Each has a run that shows it.

**`intake_overlap`** (property `IdenticalDeliveryRecovers`). Two identical deliveries
overlap. The one that arrived later creates the order and writes `ORDER_RECEIVED` with
its later stamp; the one that arrived earlier replays the order, claims it and writes
`ORDER_PROCESSING_STARTED` with its earlier stamp. The claim sorts the history by stamp
(`claims.py:338`), so from now on it starts with `ORDER_PROCESSING_STARTED` and is
invalid. If the owner crashes, no delivery recovers the order after the lease expires,
none is told when to come back, and there is no human retry because the order is in
`PROCESSING`. The phase 10 design (line 162) promises the recovery. `RedeliveryIsServed`
in `intake` shows that recovery works whenever events are committed in the order of
their stamps.

**`review_skew`** (property `PromotedOnCurrentFacts`). The facts are read again under the
lock of the order itself; other orders are not locked and no constraint covers a
purchase. Two final transactions that overlap both find no duplicate, and both orders
become ready for the same customer and PO number. The phase 5 design says that the
recheck "rejects a changed fact set rather than committing a stale result".

**`evaluation_live`** (property `LiveRunIsComparable`). The comparison expects no
`provider_free_intake_ms` sample of a live run (`comparison.py:56`), and its test builds
such a run (`tests/evaluation/test_comparison.py:90`). But the synchronization case runs
provider-free in a live run too (`runner.py:1942-1946`) and is timed under exactly this
stage, the default of `run_case`. Every complete live run is refused with
`incomplete_timing_population`, so two live runs are never comparable in latency.

Two more places are known and have no run. `has_processed_source_sha`
(`persistence/repositories.py:226`) looks for a snapshot of the document under any other
order, earlier or later: a copy that arrives under another key while the first order is in
review blocks the first order too, while the phase 5 design (line 716) speaks of an
*earlier* snapshot. And a revalidation that commits between the statements of
`get_review_detail` (`review_reads.py:141`) gives a page with the issues of the old
generation and the ETag of the new one, while the phase 6 design (line 735) says that one
ETag never spans two generations. `ApprovedAsShown` holds all the same: a revalidation
that makes the order ready changes the state, which was read with the order row before
the issues.

## 7. Plan

Done: order synchronization with its contract, intake, notifications, review, the
provider adapters, the validation engine and the data of a case, all with proofs of
their safety properties, and the evaluation with the proofs about its reset, its result,
its verdict and the claims that rest on it. Next, in this order:

1. **Provider oracle**: `Providers` shown to implement what `OrderSync` assumes of a
   provider, with several orders of one customer.
2. **IntakeDelivery**: the retries and the delayed redelivery of the n8n workflows
   composed with `Intake`; a document that arrives is eventually routed or failed.
3. **OrderLifecycle**: an abstract specification of the whole pipeline that `Intake`,
   `Review` and `OrderSync` refine.
4. **Algorithms**: extraction quality and measurements of the evaluation, HTTP limits.

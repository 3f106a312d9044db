# Saarthi: a verification project

TLA+ models of the Saarthi engagement service (`src/backend`) and of its browser
client (`src/app.js`): what request threads, workers, operators and
administrators may do to a customer's offers, to the record of the actions the
bank has performed, to the event stream, to rollout controls and served
artifacts, and to the integrity ledger, in any order and with any of them dying
on the way; what the service decides on the facts it has; and what the page
shows and sends while its answers come late. TLC checks the models on small
instances; TLAPS proves every safety property of these runs for every instance.

## The system

Every method of `database.py` (SQLite, `BEGIN IMMEDIATE`) or
`postgres_database.py` (row locks) is one transaction. The services above them
call several methods in a row, with calls to external systems in between, and
several processes run at once: API workers and one or more event workers. All
the hard behaviour of the system lies between the transactions.

| component | code | state | operations | what is hard |
|---|---|---|---|---|
| offer execution | `fulfillment_service.py`, `fulfillment.py`, `dpdp_engine.py`, `database.py` 235-374, 1071-1126 | `recommendations`, the provider's idempotency key | present, authorize, execute, expire | a claim that goes stale under its owner; completion and abandonment that name no claim; gates read before the claim; lost answers |
| consent and erasure | `dpdp_engine.py`, `database.py` 80-148 | `dpdp_consent`, everything derived | grant, revoke, erase | erasure between any two transactions of other requests |
| human review | `database.py` 1128-1170 | `human_reviews` | create, decide | the review is stored after its offer, in another transaction |
| reconciliation | `reconciliation_service.py`, `database.py` 376-502 | `fulfillment_reconciliations` | claim, complete, fail, list due, acknowledge | worker and operators compete; stale claims; providers that change their answer |
| operations cases | `operations_case_service.py`, `case_management.py`, `database.py` 504-694 | `operations_cases` | request, approve, submit, sync, retry | four eyes over a long protocol; a case outliving its record |
| worker | `worker.py` | its place in the loop, the rows it listed | event batch, reconciliations, cases, in turn | an exception anywhere drops the rest of the iteration |
| event stream | `redis_streams.py`, `event_worker.py`, `event_processor.py`, `database.py` 1190-1200 | Redis stream, pending list, dead letters, receipts | publish, take over, read, handle, acknowledge, dead-letter, replay | redelivery while the first owner is still at work; lost acknowledgements; trimming |
| orchestration | `orchestrator.py` 290-582, `api.py` 365-403, `database.py` 160-230, 1288-1350 | `request_idempotency`, `nudge_budgets` | claim, decide, store, complete or abandon | partial failure after the budget was consumed or the offer stored |
| rollout controls | `rollout.py`, `database.py` 696-782 | `rollout_controls` | request, decide, emergency disable, evaluate | competing decisions of one scope; controls read outside the claim |
| governed artifacts | `governed_artifacts.py`, `database.py` 810-951 | artifacts, the process's policy and product rules | request, decide, activate, restore | database and runtime diverge when an activation fails half way |
| outcomes | `outcome_monitoring.py`, `database.py` 996-1050 | `recommendation_outcomes` | ingest, snapshot | duplicates and conflicting repeats |
| integrity ledger | `audit_ledger.py`, `database.py` 1172-1183 | `audit_ledger` | append, verify | concurrent appends to one chain; a record is a transaction after the change it is about |
| detection, policy, guardians | `signal_detection.py`, `customer_context.py`, `decision_policy.py`, `guardrails.py` 150-185 | none | classify, evaluate, screen, route | thresholds that two parts compare differently |
| browser client | `app.js` | profile, consent badge, run, offer on display, confirm lock, timers | run, poll review, present, authorize, execute, switch profile | answers that arrive after the profile or the consent changed |

Components interact through the database (shared rows), through the stream
(orchestration publishes, the worker consumes) and through direct calls: the
execution asks the consent engine and the rollout service, completion creates
the reconciliation row, a mismatch allows a case. `PROJECT.json` lists every
component with its status, and under `hazards` each place where something can
go wrong that a test would hardly reach.

## Modules

| module | models | composed of |
|---|---|---|
| `OfferLifecycle` | what the service promises about an offer, without threads or time | |
| `OfferExecution` | the tables and request threads of offer execution, consent, review and erasure | instantiates `OfferLifecycle` |
| `OfferExecution_proofs` | theorems about `OfferExecution` | extends it |
| `FulfilmentOperations` | reconciliation, cases, the worker loop and the operators | |
| `FulfilmentOperations_proofs` | theorems about `FulfilmentOperations` | extends it |
| `EventDelivery` | the stream, its workers, receipts, dead letters and replays | |
| `EventDelivery_proofs` | theorems about `EventDelivery` and its operators on batches | extends it |
| `DecisionPolicy` | detection, context, policy, guardian and route of one decision, without state | |
| `Orchestration` | request idempotency, the stages of `run_trace`, the nudge budget | extends `DecisionPolicy` |
| `Orchestration_proofs` | theorems about `Orchestration` and `DecisionPolicy` | extends them |
| `GovernedChange` | what the two governance services promise about a change, without threads or stages | |
| `AuditLedger` | the ledger's chain, and the request threads that append to it after their own transaction | |
| `RolloutControl`, `GovernedArtifact`, `OutcomeMonitoring` | the three services that write to it | extend `AuditLedger` |
| `Governance` | the three at work together | extends them, instantiates `GovernedChange` twice |
| `Governance_proofs` | theorems about the chain, the controls and the artifacts of `Governance` | extends it |
| `GovernanceRecords_proofs` | theorems that relate the ledger to the tables | extends `Governance_proofs` |
| `GovernanceServing_proofs` | theorems about what is served, and the type invariant | extends `GovernanceRecords_proofs` |
| `OfferView` | the browser client's event loop | |
| `OfferView_proofs` | theorems about `OfferView` | extends it |
| `MC...` | instances for TLC | extend the modules |

Both database backends implement the same transactions. Where an action stands
for one, `map` names its SQLite method; guards and helpers that are the same
statement in both are often mapped to the PostgreSQL method, so that both are
read.

### OfferExecution

One customer's offers (statements are keyed by customer, so customers never
meet). A row of `recommendations` is `status`, `createdAt`, `authorizedAt` and
`startedAt`; `review`, `consent` and `recon` are the rows of the other tables,
`provider` the provider's side of the offer's idempotency key. A request thread
is `call[s]`, and its stage says which transaction comes next:

| stage | next transaction | code |
|---|---|---|
| idle | ownership and rollout gate (`Begin`) | `fulfillment_service.py` 23-48, `dpdp_engine.py` 98-102, 146-150 |
| consent | `VerifyConsent` | `dpdp_engine.py` 46-51 |
| transact | `Present`, `Authorize`, `ClaimExecution`, their expiries, or `Refuse` | `database.py` 1071, 251, 310 |
| grant | `GrantActionConsent` | `dpdp_engine.py` 113 |
| calling | the provider answers, or the call fails | `fulfillment.py` 59-77 |
| returned | `CompleteExecution` | `database.py` 350 |
| failed | `AbandonExecution` | `database.py` 368 |

Ownership and rollout gate are two reads; they are one action because a row
never changes its owner and a control that changes between them might as well
change before both. Tokens are not modelled character by character: `Refuse`
lets any execute be turned away (a wrong token), and the check that matters, the
token's age, is `TokenExpired`. The nudge budget of a presentation is in `Orchestration`; here `Refuse` may answer
for it at any time.

Time is a counter of abstract units. Nothing bounds how long a thread holds its
claim: the 5 s of the provider client (`fulfillment.py:40`) are those of each
operation on the socket, and a call that trickles can outlast the 60 s after
which a claim is stale. So a claim can go stale under a dead thread and under a
live one, and is taken over from either. `overstayed` is a history of the model:
the offers of which a live thread was still holding a claim when it became stale.
`SingleOwner` makes its promise outside `overstayed`; no other property refers to
it.

### FulfilmentOperations

Starts where `CompleteExecution` ends: `Fulfil` inserts the reconciliation row.
`waiting` holds the rows whose next check, or whose claim's staleness, is still
ahead, so time needs no counter and no assumption on how long a call takes: a
claim may turn stale under a thread that is still at work. A thread's `job` is
`reconcile`, `submit` or `sync`; `Run` claims the row if it is `Claimable` for the
job (one claim per job, as in the code) and else leaves it alone. After the claim
the thread is `calling`, `answered` or `failed`, and the completion or failure
transaction of its job ends it (`StoreVerdict`, `StoreSubmitted`, `StoreSynced`,
`CheckAgain`, `StoreRetry` are what these write). `DecideOnCase` is an operator's
endpoint that requests or approves a case, under the conditions `MayRequest` and
`MayApprove`. The worker lists
what is due, takes each item, lists the cases, and starts over; an operator's
request runs a single job. Statuses `resolved`, `closed` and `rejected` are one
(`closed`), and `in_progress` is treated as `open`, because the code does.

### EventDelivery

Redis mode. Each Redis command or script is an action: `ClaimStale`
(XAUTOCLAIM), `CountDeliveries` (XPENDING), `ReadGroup` (XREADGROUP), handler,
XACK, the dead-letter script, the replay script. A worker holds a batch of
events with the delivery counts it has read. `AcknowledgeRaises` has both
outcomes of a lost reply. XADD may trim the oldest entries beyond `MaxLen`, or
not, as `~` allows. What an XPENDING of several entries reads is read in one
action; the sentinel for payloads that are not JSON is one of the `poison`
events.

### Orchestration

One customer's requests. `request[k]` is the row of an Idempotency-Key, with how
far it has aged instead of two timestamps: past 60 s a claim can be taken over,
past a day the next claim of any key deletes the row. `call[t]` is a thread of
`POST /api/v1/orchestrate`, and its stage the next transaction:

| stage | next transaction | code |
|---|---|---|
| idle | `ClaimIdempotency` (a replay and a 409 leave the thread idle) | `database.py` 1288 |
| controls, profile, decide | the three control evaluations; the last with the graph's verdict | `orchestrator.py` 303, 336, 412 |
| consent | `VerifyConsent` | `orchestrator.py` 317 |
| budget | `ConsumeNudgeBudget` | `database.py` 186 |
| screen | consent again, the output guardian, the delivery mode | `orchestrator.py` 474-499 |
| store, review | `CreateRecommendation`, `CreateHumanReview` | `orchestrator.py` 508-546 |
| settle | `CompleteIdempotency` | `database.py` 1327 |
| abandon | `AbandonIdempotency` | `database.py` 1343 |

What the graph decides is any member of `Decisions`: all that `DecisionPolicy`
makes of the facts detectors, bank and catalog can supply. `route` is what
becomes of it, `fit` whether the guardian lets its text through, and `merit`,
which nothing in the code reads, what an offer on these facts may be. Blocked states of `run_trace` become the answer of the
request, except the 503s, which release the key. `paid` remembers whether, and
in which cycle, a nudge was counted for a call or an offer; `contained` and
`interrupted` are histories the properties speak of. Expiry, authorization and
the gates before a retrieval are in `OfferExecution`; the retrieval's
transaction is here as well, because it spends the same budget. Controls are one
strictest mode per scope: `global` counts as channel, `signal` and `model` as
product, since they are evaluated together.

### DecisionPolicy

Operators only. `Evidence` is what the two detectors can supply: `Classify` is
the rule detector (a code of the contract, else the first category of
friction, opportunity, life event, stress that has a feature, else stress at 60),
`Accepted` the conditions under which the answer of the bank's detection service
is believed; `TrustedContexts` what the context client lets through; `Facts`
combines them with every product of the catalog or none. `Passes` is the
conjunction of the policy's checks, `Evaluate` its outcome, `Screened` the output
guardian (its consent check is a step of `Orchestration`), `Route` the delivery
mode. `Merit` is the reference for offers that were stored, without the code's order
of checks: nothing when the category settled on is stress or the bank flags the
customer, on stale facts, beyond the customer's means or at an extreme rate; a
product of the high tier after a review only. It does not see what else a text
mentions, nor what type a product has beyond what affordability needs. Two
documents ask for more than that, and than the code keeps (see Findings, "Of the
decision").
The segment check of the policy is left out because it compares the context's
segment with itself; the guardian's KFS check never refuses, since every text it
is asked about ends with "Refer to KFS.".

### Governance

A request thread is `call[t]`; it belongs to a process (`home[t]`) and either is
idle, is in a stage of its service, or has a record to append:

| stage | next transaction | code |
|---|---|---|
| idle | `Request`, `Decide`, `EmergencyDisable` of controls; `RequestArtifact`, `RejectArtifact`, `ClaimActivation`; `LookUp` of an outcome's recommendation | `database.py` 696-782, 810-916, 996 |
| claimed, snapshotted, applied | `Snapshot`, `Materialize`, `Complete` or `LoseClaim` | `governed_artifacts.py` 255-275 |
| undo, abandon | `Undo` restores what was served, `Abandon` gives the claim up | `governed_artifacts.py` 276-290 |
| report | `RecordOutcome` or `RefuseOutcome` | `database.py` 1012 |
| append | `ReadHead` under the ledger's lock | `database.py` 1172 |
| insert | `Insert` | `database.py` 1178 |

Every change is committed before its record is appended. A thread may raise at
each call that can (`AppendFails`, `MaterializeFails`, `CompleteFails`,
`UndoFails`, `ActivationRaises`), and a process may die with all its threads and
start again from the active version (`Restart`). `CompleteFails` covers a commit
whose answer is lost. `lost` remembers the records that went with a thread,
`disturbed` that a claim was taken over or a rollback failed. `stale` is a claim
a minute old. Controls of one scope and versions of one artifact type are
numbered in the order of their requests; the mode of a control is left to the
modules that evaluate controls, and here an emergency is a control whose
requester decided it.

### OfferView

JavaScript runs one handler at a time, so an action is a handler up to its next
`await`. `app` holds the module's variables, the clearable timers and the cards;
`requests` the fetches that are not answered, each with the identity of the
profile selected when it was sent; `steps` the timers that play the steps of a
run; `confirmation` the calls of `confirmAction`, which wait three times.
Helpers such as `NavigateToView` or `CloseConsentScreen` are functions of `app`,
composed in the order of the code. A run of the pipeline has at most one
recommendation and at most one offer, and both are named by its number. The
seven step timers of a run are one, the last; its stress card's timer and a
second success timer are folded into the first; whether the offline simulation's
budget pauses a promotion is a choice.

## What is checked

| run | bounds | distinct states | shows |
|---|---|---|---|
| `offer_execution` | 1 offer, 2 threads, claim timeout 2, token 3, offer 4, clock to 6, threads symmetric | 902 272 | `TypeOK`, `SingleOwner`, `CompletionRecorded`, `AskedOnlyWithConsent`, and that the threads implement `OfferLifecycle` (`KeepsThePromise`) |
| `fulfilment_operations` | 1 action, worker and 1 operator thread, 2 principals, 3 incidents | 135 806 | `TypeOK`, `FourEyes`, `CaseHasItsRecord`, `VerdictIsFinal`; `Reconciled`, `CaseIsFiled`, `ClosureIsNoticed` in the end |
| `event_delivery` | 2 workers, batches of 2, 2 attempts, 2 identifiers, trimming above 1, 2 faults | 160 286 | `TypeOK`, `NothingIsDropped`, `DeadLetterIsEarned`; `EventIsSettled` in the end |
| `orchestration` | 1 key, 2 threads, cap 1, 3 offers, 3 incidents, threads symmetric; facts on both sides of every threshold | 1 612 432 | `TypeOK`, `NudgesAreCounted`, `NoSurplusOffer`, `ContainmentSticks`, `AnswerStands`, `OffersAreSuitable` |
| `governance` | 2 threads in 1 or 2 processes, 3 people, 3 controls, 2 versions, 1 outcome event with 2 contents; five distributions of requests and failures (`MCQuotas`); threads, processes, people symmetric | 241 857 | `TypeOK`, `ServesApproved`, `LedgerVerifies`, `LedgerTellsTruth`, `ChangesAreRecorded`; both services implement `GovernedChange` (`ControlsAreGoverned`, `ArtifactsAreGoverned`); `EmergencyHolds` |
| `offer_view` | 2 profiles, 3 runs, 2 polls, 2 confirmations at once, 1 change of profile, consent or mode | 449 590 | `TypeOK`, `LatestRunOnly`, `ShownToItsOwner`, `AskedByItsOwner`, `TokenOfItsOffer`, `ConfirmedAsRead`; `LockIsReleased`, `PollingEnds` in the end |
| `offer_replay`, `offer_record`, `offer_containment`, `mismatch_acknowledged`, `event_replays`, `support_budget` | as above or smaller | | the findings below |

Why the bounds are enough. The timing constants of `offer_execution` are the
smallest that keep the code's order (claim timeout < token < offer) and the clock
runs past all of them, so a claim can go stale under a dead or a slow thread and be
taken over, a token and an offer expire, in every order; two threads are what a takeover
needs, and offers share nothing but the consent table, in which each has its own
purpose. The clock stops, hence no deadlock check in that run. In
`fulfilment_operations` one action suffices because rows do not interact, two
principals because the guard compares two, and three incidents allow a failed
call, a crash and an operator's request in one history. In `event_delivery` a
second identifier is the second event of a batch or the replay of the first,
and two faults are a crash on the last attempt after another fault. In
`orchestration` one key suffices for retries, and two threads at work on it,
after a takeover or an erasure, contend for the budget as threads of two keys
would; three offers leave room for a surplus one after an interruption, and three
incidents for a takeover, an exception and one more disturbance in one history.
A claim waits for room among the offers, hence no deadlock check there. Its facts
are chosen at the thresholds: ages -1, 24 and 25 hours, incomes of 0 to 2 units,
rates 35 to 37, confidences 64 and 65, commitments on both sides of a limit, every
category, tier and product type, texts with features of two categories. In
`governance` a takeover needs two threads and two approvers besides the
requester; three controls are one in effect, one waiting and an emergency; two
versions are the old and the new one; the first four quotas give one service all
the requests of a behaviour, the last one some to each, so that their appends
meet in the ledger. Requests run out, hence no deadlock check. In `offer_view`
three runs are one under way, one that replaces it and the navigation in
between, and one change is one switch of persona, revocation or outage in the
middle of them; two polls stand for the twelve of the code; the runs end, hence
no deadlock check.

Every property of a passing run has a mutant: a variant of one definition, as a
plausible slip of the code would make it, kept beside the definition under
`\* Slip:`; `PROJECT.json` pairs them, and TLC finds each violated.

### Fairness

`OfferExecution`, `Orchestration` and `Governance` have none; all their properties
are safety. In `OfferView` timers fire and fetches are answered or fail in the end
(`apiRequest` sets no limit of its own, so this rests on the browser's); nothing is
assumed of the customer. In
`FulfilmentOperations` the worker takes steps (`worker.py` loops until it is
told to stop and catches what its iteration raises; a dead process is
restarted by the deployment), timers elapse, the provider settles an action and
the external platform closes a case in the end. Operators owe nothing. The
failures, crashes and operators' requests of a behaviour are bounded together by
`MaxIncidents`: with an outage that never ends nothing can be reconciled. The
event batch at the head of the loop is assumed to get done; while Redis is down
it raises every time and starves the two queues (see `hazards`). In
`EventDelivery` every worker takes steps and entries become idle; faults are
bounded by `MaxFaults`.

## What is proved

`OfferExecution_proofs`, for any sets of offers and sessions, any claim timeout
above zero, any lifetimes, and provider calls of any length:

| theorem | statement |
|---|---|
| `TypeCorrect` | `Spec => []TypeOK` |
| `Invariance` | `Spec => []IInv` |
| `OneOwner` | `Spec => []SingleOwner` |
| `CompletionIsRecorded` | `Spec => []CompletionRecorded` |
| `Consented` | `Spec => []AskedOnlyWithConsent` |
| `Implements` | `Spec => KeepsThePromise` |

None of the three invariants is inductive. `complete_execution` and
`abandon_execution` only ask that the row be `executing`, not that it carry the
caller's claim, so single ownership rests on time: until a live thread overstays,
the row still carries the very claim a thread holds unless it was expired or
erased, and that claim is not stale, so that nobody else can take it (`Owns`). That
is half of `ClaimInv`. The other half holds of slow threads as well: a thread
which saw the provider act completes an offer the provider has acted on. The three
theorems below `OneOwner` rest on that half only, so they hold of two owners of
which one completes, or releases, what the other has claimed.
`StageInv` says how far the provider and the review can be for each status,
which is what the refinement needs of `Ask` and what keeps a refused review from
coming after the call. `ConsentInv` carries the verified action consent from its
check to the claim: consent may be withdrawn in between, but its record is never
deleted. `IInv` is their conjunction; each lemma shows one part preserved, with
one step per action, and `PromiseStep` maps each action to a step of
`OfferLifecycle` or a stutter through the phase it moves (`StatusMovesPhase`).

`Governance_proofs`, for any threads, processes and people and any bounds:

| theorem | statement |
|---|---|
| `LedgerIsWhole` | `Spec => []LedgerVerifies` |
| `ControlsGoverned` | `Spec => ControlsAreGoverned` |
| `EmergencyKept` | `Spec => EmergencyHolds` |
| `ArtifactsGoverned` | `Spec => ArtifactsAreGoverned` |

That the chain is whole is inductive only together with the lock: `LedgerInv`
adds that at most one thread is between reading the head and inserting, and that
the head it holds is still the last. Every step outside the ledger leaves the
chain and sends no call to an insert (`Outside`); the lemmas say so for each form
in which a service updates its call. For the controls, `ControlShape` says what
an absent, a waiting and an active row contain: an emergency overwrites the
decider of a waiting row but not of an active one (`COALESCE`), and the mapping
to `GovernedChange` needs to know which has one. `ControlOrder` says that rows
are stored in order and that whatever waits during an emergency was requested
after it; `EmergencyStands` follows. For the artifacts the mapping shows a
version under materialization as still proposed. The abstract approval needs a
second person at the moment of completion, long after the guard that compared
two people: `ArtifactShape` carries it on the claimed row, and `ActivationShape`
that a thread in a stage of an activation has a version in hand, however often
its claim was taken over or its process died (`CompletionApproves`). The only
assumption used is that `Nobody` is no person, and that the bounds are numbers.

`GovernanceRecords_proofs` and `GovernanceServing_proofs`, under the same conditions:

| theorem | statement |
|---|---|
| `ChangesRecorded` | `Spec => []ChangesAreRecorded` |
| `LedgerIsTrue` | `Spec => []LedgerTellsTruth` |
| `ApprovedIsServed` | `Spec => []ServesApproved` |
| `GovernanceTyped` | `Spec => []TypeOK` |

What the tables say is a set of events, row by row (`ControlSays`,
`ArtifactSays`). The argument classifies the steps (`RecordStep`): a step commits
one new event and its thread then holds the record (`Commits`), or it commits one
and the thread was told otherwise, which puts the record among the lost ones
(`CommitsUnheard`, the completion whose answer is lost), or it is silent, or it
moves a record towards the ledger or loses it, or it erases the outcomes. Only
`RowsInv` decides which: a decision adds an event because a row it turns is not
decided yet. `ChangesAreRecorded` follows by one lemma per class. The converse,
`LedgerTellsTruth`, is not inductive for what is in a hand: `TruthInv` adds that a
record in hand is the word of a row, that no two threads hold the same, and that
none is in the ledger already. `ServesApproved` is not inductive because it says
nothing while a thread is at work: `ServeInv` says that a process that serves
something else has a thread that will put it right (`Answers`), that every thread
at work holds its claim or has been approved without knowing, alone on its
version, and that what it would restore is good. All of it is lost with `disturbed`, hence the condition in
the property. `OneProposal`, at most one version under way, is the guard of the
request carried over the stages of an approval.

`FulfilmentOperations_proofs`, for any actions, operators and principals, and any
number of incidents:

| theorem | statement |
|---|---|
| `OperationsTyped` | `Spec => []TypeOK` |
| `CasesNeedTwo` | `Spec => []FourEyes` |
| `CasesHaveRecords` | `Spec => []CaseHasItsRecord` |
| `VerdictsStand` | `Spec => VerdictIsFinal` |

The statements that complete or fail a job name the row's status, not the claim,
so any thread may write long after its claim was taken over. The invariants rest
on what each of them may write from each status: `CallInv` adds that a thread's
answer is one of its own job, so that a verdict is never stored for a case.
`VerdictIsFinal` is a property of steps and has one lemma for each of them.

`EventDelivery_proofs`, for any workers, batch size, attempts, trimming bound,
identifiers and faults:

| theorem | statement |
|---|---|
| `DeliveryTyped` | `Spec => []TypeOK` |
| `NoEventDropped` | `Spec => []NothingIsDropped` |
| `DeadLettersEarned` | `Spec => []DeadLetterIsEarned` |

`NothingIsDropped` needs to know what each worker is about to do. `Doing` says
that a worker about to acknowledge has its event's receipt, that one which reports
a failure has a poison event or there has been a fault, and that the counts in its
batch are at most the deliveries Redis has counted; `Delivered` that Redis counts
a delivery of everything it has given out and of nothing else. That a batch neither
exceeds its size nor names an event twice is a fact about `Lowest`: the rank of an
identifier in a finite set is injective and onto (`RankGrows`, `RankIsOnto`,
`LowestIsTaken`), so `Lowest` enumerates exactly the lowest members, in order.

`Orchestration_proofs`, for any keys, offers and finite set of sessions, any cap
and any number of incidents, and whatever detectors, bank and catalog supply:

| theorem | statement |
|---|---|
| `OrchestrationTyped` | `Spec => []TypeOK` |
| `NudgesCover` | `Spec => []NudgesAreCounted` |
| `RetriesEarnOffers` | `Spec => []NoSurplusOffer` |
| `ContainmentKept` | `Spec => []ContainmentSticks` |
| `AnswersStand` | `Spec => AnswerStands` |
| `OffersStaySuitable` | `Spec => OffersAreSuitable` |
| `HardshipIsSupported` | hardship found in a text without a code: `Route(f) = "support"`, or more than one category found and confidence 65 |

`OrchInv` says what a thread may carry at each stage (`Sound`) and three counts.
`NoSurplusOffer` is not inductive: an offer is stored by a thread that claimed the
key much earlier, and the row may have gone in the meantime. What never exceeds
one plus the interruptions is the sum `SurplusIsEarned`: offers of the key,
threads that may still store one or delete its row, and one more if the row is
free to be claimed. A claim turns the last into the second, a store the second
into the first, an abandonment gives the row back; only an interruption raises
the bound. `Counted` balances the budget in the same way (a reservation becomes an
offer's payment), and `RoomIsKept` says that the bound on the model's offers never
stops a thread that has begun. `OffersAreSuitable` needs no induction on the
decision: `PassingIsSuitable` shows from the policy's checks that what passes with
the delivery mode it gets is what `Merit` allows (`DecisionsAreSuitable`), and
`Sound` carries it over the budget, the second consent check and the storage.
`HardshipIsSupported` is about what `Merit` does not see: where the rule detector
finds hardship in a text without a code, the route is support unless another family
was found beside it, and then the evidence is the uncertain 65.

`OfferView_proofs`, for any personas and confirmations, runs, polls and changes:

| theorem | statement |
|---|---|
| `ViewTyped` | `Spec => []TypeOK` |
| `LatestIsShown` | `Spec => []LatestRunOnly` |
| `ShownToOwner` | `Spec => []ShownToItsOwner` |
| `AskedByOwner` | `Spec => []AskedByItsOwner` |
| `TokensMatch` | `Spec => []TokenOfItsOffer` |
| `ConfirmedWasRead` | `Spec => ConfirmedAsRead` |

The client compares a late answer's run with the latest one and nothing else, so
that a card is shown to its persona rests on there being nothing of a run before
it has begun: `Past` (nothing belongs to a run to come), `Unanswered` (until a run
is answered it has no recommendation, step, poll or load), `Loading` and
`RunIsShown` (the persona selected, and the consent screen if it invites, are
those of the run that has begun). Handlers are composed of small functions of the
page; `ShowsNoMore` and `SameRun` state once what each of these leaves alone.

### Assumptions of the proofs

Each is a named ASSUME of the module that declares the constants, and TLC
evaluates it in every run of that module: numbers are numbers; `Nobody`, `NoKey`
and `Unreported` are not members of the sets they stand beside; a claim is not
stale when it is made (`ExecTimeout > 0`, `TimingAssumption`); sessions of `Orchestration` are finitely many,
since threads are counted; the types of products are the four
`governed_artifacts.py:113` admits and other facts have the types their contracts
give them (`PolicyAssumption`).

### Only model-checked

- Liveness: `Reconciled`, `CaseIsFiled` and `ClosureIsNoticed` of
  `FulfilmentOperations`, `EventIsSettled` of `EventDelivery`, `LockIsReleased` and
  `PollingEnds` of `OfferView`. TLAPS proves neither leads-to under weak fairness
  of actions whose ENABLED must be expanded, nor ENABLED itself.
- The findings below, each a counterexample on a small instance.

Every other property of a run is the statement of a theorem, and each inductive
invariant was an invariant of TLC on its run's instance before it was proved.

## Findings

1. **A fulfilled offer can expire** (`offer_replay`). `database.py:1081`:
   retrieving any offer past its expiry sets it to `expired` unless it is
   `authorized`; this overwrites `fulfilled` (and `executing`). The execution is
   then answered `not_authorized`, where `docs/API.md:33` says that completed
   replays return the original provider result.
2. **A performed action can stay without its verification record**
   (`offer_record`). Only a completion from `executing` writes it; when the
   answer of the provider is lost, or the thread dies, a retry can write it only
   while the token is valid (`database.py:342`). `README.md:186`: every
   completed action creates a durable verification record.
3. **An execution in flight passes a new control** (`offer_containment`). The
   rollout gate (`fulfillment_service.py:27`) and the claim are transactions
   apart. `README.md:188`: in-flight offers cannot bypass containment.
4. **An acknowledged mismatch can leave the queue unmatched**
   (`mismatch_acknowledged`). A repeated check that fails or finds the action
   unsettled moves it to `retry`. `docs/API.md:110`: it is left in `mismatch`
   until a subsequent provider check matches.
5. **A replay can stay out of the ledger** (`event_replays`). Its append comes
   after the script and only for requests that are not deduplicated, so the
   retry of an interrupted request never records it (`api.py:357`).
   `docs/API.md:59`: replay is recorded in the integrity ledger.

6. **Support can consume the budget** (`support_budget`). The nudge is reserved
   (`orchestrator.py:448`) before the output guardian is asked; when it refuses,
   or the product's tier is `support`, the customer gets support and the nudge
   stays counted. The rate of exactly 36% is one way: `decision_policy.py:96`
   passes it, `guardrails.py:176` refuses it. `README.md:175`: support
   interventions do not consume the budget.

Seen while modelling and not claimed by any run, for want of a statement they
contradict: a crash between authorization and action consent leaves an offer
that can neither be executed nor authorized again; a case approved on a mismatch
is filed although a later check matched; an event whose acknowledgement was lost
may be dead-lettered although it has its receipt, and gets a second one when it
is replayed; a review may appear after the erasure of its offer, and so may
an offer, or an answer that names an erased one. Neither completion nor
abandonment of a request names its claim: a thread whose claim was taken over
and that then fails deletes the row of its successor, so that the next retry
runs beside it, and one that finds its claim gone after it stored an offer does
the same. `NoSurplusOffer` bounds what this can store, it does not exclude it.
An exception after the offer was stored releases the key too, and the retry
stores a second offer and spends a second nudge.

Of the governance services, likewise without a run:

- Once a claim was taken over, the overtaken thread still restores what it found
  before it began. When the second approver has completed in the meantime, the
  process serves an older version than the database calls active, or the built-in
  one, until it restarts; `ServesApproved` therefore promises nothing after a
  takeover. Other processes serve the old version until they restart in any
  case: an approval is applied to the process that handles it.
- A completion that raises after its commit leaves the version active in the
  database, the old one served, and no record of the approval.
- A thread that dies between a change and its record leaves the change
  unrecorded, and nothing appends it later: a retry of the request is refused,
  or, for an outcome, answered as a replay without an append.
- On SQLite, whose foreign keys are not enforced, an outcome whose recommendation
  was erased after the look-up is stored.
- `get_active_rollout_controls` reads the latest 1000 rows: with more active
  controls than that the oldest would not be seen.

Of the decision, where two documents say more than the code keeps. No run shows
these, and `OffersAreSuitable` passes because it does not claim them:

- `docs/ARCHITECTURE.md:146`: "When financial hardship signals are detected,
  marketing nudges are instantly **BLOCKED**". `VersionedRuleSignalDetector`
  settles on one category: that of the text's code (`signal_detection.py:169`), or
  else the first of the list that has a feature, in which stress comes last
  (`signal_detection.py:176`, `MULTI_CATEGORY_PRECEDENCE_APPLIED`). A text that
  mentions a loan and a missed payment is an opportunity at 65, above the
  default minimum of 60, the policy sees "opportunity" only, and a nudge is made;
  so it is, at 99, when the code names an opportunity. `HardshipIsSupported` says
  that there is no third way. A minimum above 65 would close the first, but the
  detector calls itself ready only up to 60 (`signal_detection.py:207`).
- `docs/AI_MODEL_GOVERNANCE.md:18`: "Withhold uncertainty, credit, investment and
  vulnerable-customer cases for support or human review." The policy withholds
  vulnerable customers and, if `high_risk_review_required` is set, the high tier
  (`decision_policy.py:107-112`). Evidence at 65, and a product of type credit
  or investment in the low tier, are offered at once.

A support-tier product on a signal that is not stress spends a nudge and ends in
support.

Of the browser client:

- the answer to a consent look-up or update is applied to the badge of whichever
  profile is selected by then, and a profile without a record is seeded as
  granted in the name of the one selected when the look-up is answered, which may
  have been revoked in the meantime;
- a nudge of a run under way can still appear after a revocation, for which
  `app.js:848` says there will be none, as long as the run is the latest;
- a confirmation that ends late releases the lock of the one that replaced it, so
  a third can start beside the second; Cancel does not stop one in flight;
- the success path dismisses the offer without comparing it again.

## Plan

What was planned is modelled, and every safety property of the runs is proved.
What is left:

1. `Orchestration` with the stream's publication, for two customers with one
   idempotency key.
2. `OfferExecution` composed with the controls of `RolloutControl` instead of a
   gate that opens and closes.
3. An abstract specification of the event stream (each event is waiting, settled
   or trimmed) and of a case's life that `EventDelivery` and
   `FulfilmentOperations` implement, proved step by step from the invariants
   above.

Modules to be proved about use no RECURSIVE operators, keep their parameters as
constants with named assumptions, and state invariants as conjunctions of named
parts.

## Not modelled

Masking expressions, prompts and language models, the queries to the knowledge
graph and the vector index (no state of their own), HTTP status codes, schemas
and authentication (checked once per request), settings (checked once at start),
mock bank services (the modules' environment), the migration runner, training
scripts, markup and layout. Reports (drift, fairness, health, exports, lists) only
read. Signatures and schemas of artifacts are a step that may fail; in neo4j mode
the product catalogue is a graph all processes share, which `GovernedArtifact`
does not follow. The in-memory event stream is a development stand-in that no
separate worker can share; its own index and identifier problems are listed as
hazards. The two database backends run the same transactions; where PostgreSQL's
foreign keys matter (a review or an outcome inserted after an erasure) the
modules follow SQLite and, for outcomes, allow both.

## Running

    tlc -workers 2 -config OfferExecution.cfg MCOfferExecution
    tlc -workers 2 -config FulfilmentOperations.cfg MCFulfilmentOperations
    tlc -workers 2 -config EventDelivery.cfg MCEventDelivery
    tlc -workers 2 -config Orchestration.cfg MCOrchestration
    tlc -workers 2 -config Governance.cfg MCGovernance
    tlc -workers 2 -config OfferView.cfg MCOfferView
    tlapm OfferExecution_proofs.tla
    tlapm Governance_proofs.tla
    tlapm GovernanceRecords_proofs.tla
    tlapm GovernanceServing_proofs.tla
    tlapm FulfilmentOperations_proofs.tla
    tlapm EventDelivery_proofs.tla
    tlapm Orchestration_proofs.tla
    tlapm OfferView_proofs.tla

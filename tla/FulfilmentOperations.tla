------------------------ MODULE FulfilmentOperations ------------------------
(***************************************************************************)
(* What follows a completed action: the worker that reconciles it with the *)
(* provider's own record, and the four-eyes case that escalates a          *)
(* discrepancy.  The worker and the operators' requests share the two      *)
(* tables; every database method is one transaction and one action, and    *)
(* the provider is called between two of them.  Nothing here relies on how *)
(* long a call takes: a claim may turn stale under a thread still at work. *)
(***************************************************************************)
EXTENDS Naturals, FiniteSets

CONSTANTS Recs,           \* recommendations, each of a customer of its own
          Operators,      \* threads that serve the operators' requests
          Principals,     \* pseudonymous references of operators
          MaxIncidents    \* bound on operator requests, crashes and failed calls together

ASSUME IncidentsAssumption == MaxIncidents \in Nat

VARIABLES recon,          \* fulfillment_reconciliations.status, or none / erased
          acknowledged,   \* fulfillment_reconciliations.acknowledged_at is set
          opsCase,        \* operations_cases.status, or none / erased
          requester,      \* operations_cases.requested_by_ref
          approver,       \* operations_cases.approved_by_ref
          reference,      \* operations_cases.external_case_reference is set
          waiting,        \* rows whose next check, or whose claim's staleness, is ahead
          truth,          \* what the provider says of the action
          casework,       \* the case in the external platform
          call,           \* what each thread is doing
          phase, agenda,  \* where the worker is in its loop, and what it has listed
          incidents       \* bounded count of operator requests, crashes, failed calls

rows == <<recon, acknowledged, opsCase, requester, approver, reference, waiting>>
outside == <<truth, casework>>
loop == <<phase, agenda>>
vars == <<rows, outside, call, loop, incidents>>

Worker == "worker"
Threads == {Worker} \cup Operators
Nobody == "nobody"
Jobs == {"reconcile", "submit", "sync"}
Idle == [at |-> "idle"]
ReconStatuses == {"none", "pending", "checking", "retry", "matched", "mismatch", "erased"}
\* resolved, closed and rejected are one: closed; in_progress is treated as open.
CaseStatuses == {"none", "draft", "approved", "submitting", "submission_retry", "open",
                 "syncing", "sync_retry", "closed", "erased"}
Answers == {"unsettled", "completed", "discrepant", "open", "closed"}
Calls == [at : {"calling", "answered", "failed"}, job : Jobs, rec : Recs, answer : Answers]

Row(job, r) == <<IF job = "reconcile" THEN "recon" ELSE "case", r>>
Elapsed(job, r) == Row(job, r) \notin waiting
Arm(job, r) == waiting' = waiting \cup {Row(job, r)}
Disarm(job, r) == waiting' = waiting \ {Row(job, r)}
SetRecon(r, to) == recon' = [recon EXCEPT ![r] = to]
SetCase(r, to) == opsCase' = [opsCase EXCEPT ![r] = to]
Finish(t) == call' = [call EXCEPT ![t] = Idle]
Incident == incidents < MaxIncidents /\ incidents' = incidents + 1

Init ==
  /\ recon = [r \in Recs |-> "none"]
  /\ acknowledged = [r \in Recs |-> FALSE]
  /\ opsCase = [r \in Recs |-> "none"]
  /\ requester = [r \in Recs |-> Nobody]
  /\ approver = [r \in Recs |-> Nobody]
  /\ reference = [r \in Recs |-> FALSE]
  /\ waiting = {}
  /\ truth = [r \in Recs |-> "unsettled"]
  /\ casework = [r \in Recs |-> "none"]
  /\ call = [t \in Threads |-> Idle]
  /\ phase = "poll" /\ agenda = {}
  /\ incidents = 0

-----------------------------------------------------------------------------
(* The environment: completed executions, erasure, time and the providers. *)

\* complete_execution inserts the row, due at once.
Fulfil(r) ==
  /\ recon[r] = "none"
  /\ SetRecon(r, "pending")
  /\ UNCHANGED <<acknowledged, opsCase, requester, approver, reference, waiting, outside, call,
                 loop, incidents>>

\* Slip: the case is kept when the customer's rows are deleted.
Erase_KeepsCase(r) ==
  /\ recon[r] \notin {"none", "erased"}
  /\ SetRecon(r, "erased")
  /\ acknowledged' = [acknowledged EXCEPT ![r] = FALSE]
  /\ waiting' = waiting \ {Row("reconcile", r)}
  /\ UNCHANGED <<opsCase, requester, approver, reference, outside, call, loop, incidents>>

\* The customer's reconciliation and case go in one transaction.
Erase(r) ==
  /\ recon[r] \notin {"none", "erased"}
  /\ SetRecon(r, "erased")
  /\ SetCase(r, "erased")
  /\ acknowledged' = [acknowledged EXCEPT ![r] = FALSE]
  /\ requester' = [requester EXCEPT ![r] = Nobody]
  /\ approver' = [approver EXCEPT ![r] = Nobody]
  /\ reference' = [reference EXCEPT ![r] = FALSE]
  /\ waiting' = waiting \ {Row("reconcile", r), Row("submit", r)}
  /\ UNCHANGED <<outside, call, loop, incidents>>

\* next_check_at / next_action_at is reached, or a claim has become stale.
Elapse(row) ==
  /\ row \in waiting
  /\ waiting' = waiting \ {row}
  /\ UNCHANGED <<recon, acknowledged, opsCase, requester, approver, reference, outside, call,
                 loop, incidents>>

\* Pending or processing at first; a settled action may be reversed, or its record corrected.
ProviderSettles(r) ==
  /\ \E verdict \in {"completed", "discrepant"} :
       truth[r] # verdict /\ truth' = [truth EXCEPT ![r] = verdict]
  /\ UNCHANGED <<rows, casework, call, loop, incidents>>

CaseworkCloses(r) ==
  /\ casework[r] = "open"
  /\ casework' = [casework EXCEPT ![r] = "closed"]
  /\ UNCHANGED <<rows, truth, call, loop, incidents>>

-----------------------------------------------------------------------------
(* The operators: acknowledgement, request and approval.                   *)

InMismatch(r) == recon[r] = "mismatch"

AcknowledgeMismatch(r) ==
  /\ InMismatch(r)
  /\ acknowledged' = [acknowledged EXCEPT ![r] = TRUE]
  /\ UNCHANGED <<recon, opsCase, requester, approver, reference, waiting, outside, call, loop,
                 incidents>>

MayRequest(r) == opsCase[r] = "none" /\ InMismatch(r)

RequestCase(r, p) ==
  /\ MayRequest(r)
  /\ SetCase(r, "draft")
  /\ requester' = [requester EXCEPT ![r] = p]
  /\ UNCHANGED <<recon, acknowledged, approver, reference, waiting, outside, call, loop, incidents>>

\* Slip: anyone entitled to approve may approve.
MayApprove_Anyone(r, p) == opsCase[r] = "draft"

MayApprove(r, p) == requester[r] # p /\ opsCase[r] = "draft"

ApproveCase(r, p) ==
  /\ MayApprove(r, p)
  /\ SetCase(r, "approved")
  /\ approver' = [approver EXCEPT ![r] = p]
  /\ Disarm("submit", r)
  /\ UNCHANGED <<recon, acknowledged, requester, reference, outside, call, loop, incidents>>

DecideOnCase(r) == \E p \in Principals : RequestCase(r, p) \/ ApproveCase(r, p)

-----------------------------------------------------------------------------
(* The claims.                                                             *)

\* Everything but a matched record, or one that is being checked.
ReconciliationClaimable(r) ==
  \/ recon[r] \in {"pending", "retry", "mismatch"}
  \/ recon[r] = "checking" /\ Elapsed("reconcile", r)

SubmissionClaimable(r) ==
  /\ recon[r] \notin {"none", "erased"}
  /\ \/ opsCase[r] \in {"approved", "submission_retry"}
     \/ opsCase[r] = "submitting" /\ Elapsed("submit", r)

\* Slip: a stale synchronization is not taken over.
SyncClaimable_NoTakeover(r) == opsCase[r] \in {"open", "sync_retry"} /\ reference[r]

SyncClaimable(r) ==
  /\ \/ opsCase[r] \in {"open", "sync_retry"}
     \/ opsCase[r] = "syncing" /\ Elapsed("sync", r)
  /\ reference[r]

ClaimReconciliation(r) ==
  /\ ReconciliationClaimable(r)
  /\ SetRecon(r, "checking") /\ Arm("reconcile", r)
  /\ UNCHANGED opsCase

ClaimSubmission(r) ==
  /\ SubmissionClaimable(r)
  /\ SetCase(r, "submitting") /\ Arm("submit", r)
  /\ UNCHANGED recon

ClaimSync(r) ==
  /\ SyncClaimable(r)
  /\ SetCase(r, "syncing") /\ Arm("sync", r)
  /\ UNCHANGED recon

Claimable(job, r) ==
  CASE job = "reconcile" -> ReconciliationClaimable(r)
    [] job = "submit" -> SubmissionClaimable(r)
    [] job = "sync" -> SyncClaimable(r)

Claim(job, r) ==
  \/ job = "reconcile" /\ ClaimReconciliation(r)
  \/ job = "submit" /\ ClaimSubmission(r)
  \/ job = "sync" /\ ClaimSync(r)

\* A thread runs a job: without the claim it only reports what it found.
Run(t, job, r) ==
  \/ /\ Claim(job, r)
     /\ call' = [call EXCEPT ![t] = [at |-> "calling", job |-> job, rec |-> r, answer |-> "open"]]
     /\ UNCHANGED <<acknowledged, requester, approver, reference>>
  \/ ~Claimable(job, r) /\ UNCHANGED <<rows, call>>

-----------------------------------------------------------------------------
(* A thread that holds a claim: the provider call and its outcome.         *)

At(t, at, job) == call[t].at = at /\ call[t].job = job
Becomes(t, at, answer) ==
  call' = [call EXCEPT ![t] = [at |-> at, job |-> call[t].job, rec |-> call[t].rec,
                               answer |-> answer]]

\* The provider's record of the action, in whatever state it is.
ProviderAnswers(t) ==
  /\ At(t, "calling", "reconcile")
  /\ Becomes(t, "answered", truth[call[t].rec])
  /\ UNCHANGED <<rows, outside, loop, incidents>>

\* create_case is idempotent on the case identifier; the answer may be lost.
CaseworkOpens(t) ==
  /\ At(t, "calling", "submit")
  /\ casework[call[t].rec] = "none"
  /\ casework' = [casework EXCEPT ![call[t].rec] = "open"]
  /\ UNCHANGED <<rows, truth, call, loop, incidents>>

CaseworkAnswers(t, job) ==
  /\ At(t, "calling", job)
  /\ casework[call[t].rec] # "none"
  /\ Becomes(t, "answered", casework[call[t].rec])
  /\ UNCHANGED <<rows, outside, loop, incidents>>

\* An outage, an answer outside the contract, or a completion that cannot be stored.
DependencyFails(t) ==
  /\ call[t].at \in {"calling", "answered"}
  /\ Incident
  /\ Becomes(t, "failed", "open")
  /\ UNCHANGED <<rows, outside, loop>>

WriteVerdict(r, answer) ==
  CASE answer = "unsettled" -> SetRecon(r, "retry") /\ Arm("reconcile", r)
    [] answer = "completed" -> SetRecon(r, "matched") /\ Disarm("reconcile", r)
    [] OTHER -> SetRecon(r, "mismatch") /\ Disarm("reconcile", r)

\* Slip: a verdict is written over whatever the row holds.
StoreVerdict_Unguarded(r, answer) == WriteVerdict(r, answer)

StoreVerdict(r, answer) ==
  IF recon[r] = "checking" THEN WriteVerdict(r, answer) ELSE UNCHANGED <<recon, waiting>>

CompleteReconciliation(t) ==
  /\ At(t, "answered", "reconcile")
  /\ StoreVerdict(call[t].rec, call[t].answer)
  /\ Finish(t)
  /\ UNCHANGED <<acknowledged, opsCase, requester, approver, reference, outside, loop, incidents>>

CheckAgain(r) ==
  IF recon[r] = "checking" THEN SetRecon(r, "retry") /\ Arm("reconcile", r)
  ELSE UNCHANGED <<recon, waiting>>

FailReconciliation(t) ==
  /\ At(t, "failed", "reconcile")
  /\ CheckAgain(call[t].rec)
  /\ Finish(t)
  /\ UNCHANGED <<acknowledged, opsCase, requester, approver, reference, outside, loop, incidents>>

\* The platform's status becomes the case's; an open case is synchronized again later.
StoreCaseStatus(r, status) ==
  /\ SetCase(r, status)
  /\ IF status = "open" THEN Arm("sync", r) ELSE Disarm("sync", r)

StoreSubmitted(r, status) ==
  IF opsCase[r] = "submitting"
  THEN StoreCaseStatus(r, status) /\ reference' = [reference EXCEPT ![r] = TRUE]
  ELSE UNCHANGED <<opsCase, waiting, reference>>

CompleteSubmission(t) ==
  /\ At(t, "answered", "submit")
  /\ StoreSubmitted(call[t].rec, call[t].answer)
  /\ Finish(t)
  /\ UNCHANGED <<recon, acknowledged, requester, approver, outside, loop, incidents>>

StoreSynced(r, status) ==
  IF opsCase[r] = "syncing" THEN StoreCaseStatus(r, status) ELSE UNCHANGED <<opsCase, waiting>>

CompleteSync(t) ==
  /\ At(t, "answered", "sync")
  /\ StoreSynced(call[t].rec, call[t].answer)
  /\ Finish(t)
  /\ UNCHANGED <<recon, acknowledged, requester, approver, reference, outside, loop, incidents>>

\* Slip: the reconciliation's retry state is written into a case.
RetryStatus_Reconciliation(job) == "retry"

RetryStatus(job) == IF job = "submit" THEN "submission_retry" ELSE "sync_retry"

StoreRetry(r, job) ==
  IF opsCase[r] = (IF job = "submit" THEN "submitting" ELSE "syncing")
  THEN SetCase(r, RetryStatus(job)) /\ Arm(job, r)
  ELSE UNCHANGED <<opsCase, waiting>>

FailCaseAction(t, job) ==
  /\ At(t, "failed", job)
  /\ StoreRetry(call[t].rec, job)
  /\ Finish(t)
  /\ UNCHANGED <<recon, acknowledged, requester, approver, reference, outside, loop, incidents>>

\* What the three services do with a claim.
Reconcile(t) == ProviderAnswers(t) \/ CompleteReconciliation(t) \/ FailReconciliation(t)
Submit(t) ==
  \/ CaseworkOpens(t)
  \/ CaseworkAnswers(t, "submit")
  \/ CompleteSubmission(t)
  \/ FailCaseAction(t, "submit")
Sync(t) == CaseworkAnswers(t, "sync") \/ CompleteSync(t) \/ FailCaseAction(t, "sync")
Proceed(t) == Reconcile(t) \/ Submit(t) \/ Sync(t)

-----------------------------------------------------------------------------
(* Who runs the jobs: an operator's request, or the worker's loop.         *)

OperatorRuns(t, job, r) ==
  /\ call[t] = Idle
  /\ Incident
  /\ Run(t, job, r)
  /\ UNCHANGED <<outside, loop>>

RunReconciliation(t) == \E r \in Recs : OperatorRuns(t, "reconcile", r)
RunCaseAction(t) == \E job \in {"submit", "sync"}, r \in Recs : OperatorRuns(t, job, r)

\* Slip: what a crashed worker left in hand is not listed again.
DueReconciliations_NoTakeover ==
  {<<"reconcile", r>> : r \in {x \in Recs : recon[x] \in {"pending", "retry"}
                                            /\ Elapsed("reconcile", x)}}

DueReconciliations ==
  {<<"reconcile", r>> : r \in {x \in Recs : recon[x] \in {"pending", "retry", "checking"}
                                            /\ Elapsed("reconcile", x)}}

\* Slip: a submission that failed is left to the operators.
DueCaseActions_NoRetry ==
  {<<"submit", r>> : r \in {x \in Recs : opsCase[x] \in {"approved", "submitting"}
                                         /\ Elapsed("submit", x)}}
  \cup {<<"sync", r>> : r \in {x \in Recs : opsCase[x] \in {"open", "sync_retry", "syncing"}
                                            /\ Elapsed("sync", x)}}

DueCaseActions ==
  {<<"submit", r>> :
     r \in {x \in Recs : opsCase[x] \in {"approved", "submission_retry", "submitting"}
                         /\ Elapsed("submit", x)}}
  \cup {<<"sync", r>> : r \in {x \in Recs : opsCase[x] \in {"open", "sync_retry", "syncing"}
                                            /\ Elapsed("sync", x)}}

\* The event batch has been processed; reconciliations due now are listed once.
WorkerPolls ==
  /\ phase = "poll"
  /\ phase' = "reconcile" /\ agenda' = DueReconciliations
  /\ UNCHANGED <<rows, outside, call, incidents>>

WorkerTakes ==
  /\ call[Worker] = Idle
  /\ \E item \in agenda :
       /\ Run(Worker, item[1], item[2])
       /\ agenda' = agenda \ {item}
  /\ UNCHANGED <<phase, outside, incidents>>

\* The list is done: the cases are listed next, and then the loop starts over.
WorkerAdvances ==
  /\ call[Worker] = Idle /\ agenda = {}
  /\ \/ phase = "reconcile" /\ phase' = "cases" /\ agenda' = DueCaseActions
     \/ phase = "cases" /\ phase' = "poll" /\ agenda' = {}
  /\ UNCHANGED <<rows, outside, call, incidents>>

\* A process dies; the worker also gives up its list when anything in its loop raises.
Crash(t) ==
  /\ call[t] # Idle \/ (t = Worker /\ phase # "poll")
  /\ Incident
  /\ Finish(t)
  /\ IF t = Worker THEN phase' = "poll" /\ agenda' = {} ELSE UNCHANGED loop
  /\ UNCHANGED <<rows, outside>>

-----------------------------------------------------------------------------
WorkerStep == WorkerPolls \/ WorkerTakes \/ WorkerAdvances \/ Proceed(Worker)

Next ==
  \/ WorkerStep
  \/ \E t \in Operators :
       Proceed(t) \/ RunReconciliation(t) \/ RunCaseAction(t)
  \/ \E t \in Threads : DependencyFails(t) \/ Crash(t)
  \/ \E r \in Recs :
       \/ Fulfil(r)
       \/ Erase(r)
       \/ ProviderSettles(r)
       \/ CaseworkCloses(r)
       \/ AcknowledgeMismatch(r)
       \/ DecideOnCase(r)
  \/ \E row \in waiting : Elapse(row)

\* The worker's process is restarted and its loop runs; timers elapse; the provider settles
\* an action, and the external platform closes a case, in the end.
Fairness ==
  /\ WF_vars(WorkerStep)
  /\ \A row \in {"recon", "case"} \X Recs : WF_vars(Elapse(row))
  /\ \A r \in Recs : WF_vars(truth[r] = "unsettled" /\ ProviderSettles(r))
  /\ \A r \in Recs : WF_vars(CaseworkCloses(r))

Spec == Init /\ [][Next]_vars /\ Fairness

-----------------------------------------------------------------------------
(* What must hold.                                                         *)

\* Type invariant of both tables, the providers and the threads.
TypeOK ==
  /\ recon \in [Recs -> ReconStatuses]
  /\ acknowledged \in [Recs -> BOOLEAN]
  /\ opsCase \in [Recs -> CaseStatuses]
  /\ requester \in [Recs -> Principals \cup {Nobody}]
  /\ approver \in [Recs -> Principals \cup {Nobody}]
  /\ reference \in [Recs -> BOOLEAN]
  /\ waiting \subseteq {"recon", "case"} \X Recs
  /\ truth \in [Recs -> {"unsettled", "completed", "discrepant"}]
  /\ casework \in [Recs -> {"none", "open", "closed"}]
  /\ call \in [Threads -> Calls \cup {Idle}]
  /\ phase \in {"poll", "reconcile", "cases"}
  /\ agenda \subseteq Jobs \X Recs
  /\ incidents \in 0 .. MaxIncidents

\* A case reaches the external platform only when one operator asked for it and another
\* approved it, whoever submits, retries or synchronizes it.
FourEyes ==
  \A r \in Recs : casework[r] # "none" /\ opsCase[r] # "erased" =>
    /\ requester[r] \in Principals /\ approver[r] \in Principals
    /\ requester[r] # approver[r]

\* A case never survives the reconciliation it is about, and only a case the platform knows
\* is synchronized: no job still in flight at an erasure brings either row back.
CaseHasItsRecord ==
  \A r \in Recs :
    /\ recon[r] \in {"none", "erased"} => opsCase[r] = recon[r]
    /\ opsCase[r] \in {"open", "syncing", "sync_retry", "closed"} =>
         reference[r] /\ casework[r] # "none"

\* A verified action stays verified and a closed case stays closed until erased: no late
\* completion, stale claim or failed retry of another thread reopens either.
VerdictIsFinal ==
  [][\A r \in Recs :
       /\ recon[r] = "matched" => recon'[r] \in {"matched", "erased"}
       /\ opsCase[r] = "closed" => opsCase'[r] \in {"closed", "erased"}
       /\ reference[r] => reference'[r] \/ opsCase'[r] = "erased"]_vars

\* Every completed action is compared with the provider's record in the end: crashes,
\* outages and competing operators delay the verdict, they do not lose the row.
Reconciled ==
  \A r \in Recs : recon[r] = "pending" ~> recon[r] \in {"matched", "mismatch", "erased"}

\* An approved case is filed in the end.
CaseIsFiled ==
  \A r \in Recs : opsCase[r] = "approved" ~> reference[r] \/ opsCase[r] = "erased"

\* The closing of a filed case by the external platform is noticed in the end.
ClosureIsNoticed ==
  \A r \in Recs :
    casework[r] = "closed" /\ reference[r] ~> opsCase[r] \in {"closed", "erased"}

-----------------------------------------------------------------------------
(* What the documents say and the code does not keep; see README, Findings. *)

\* docs/API.md: an acknowledged record stays in mismatch until a provider check matches.
AcknowledgedStaysOpen ==
  \A r \in Recs : acknowledged[r] => recon[r] \in {"mismatch", "checking", "matched"}
=============================================================================

-------------------- MODULE FulfilmentOperations_proofs --------------------
(***************************************************************************)
(* Proofs about FulfilmentOperations, for any recommendations, operators   *)
(* and principals, any number of incidents and calls that take any time.   *)
(***************************************************************************)
EXTENDS FulfilmentOperations, TLAPS

\* What every provider's answer must look like to be stored under its job.
AnswerOf(job) ==
  IF job = "reconcile" THEN {"unsettled", "completed", "discrepant"} ELSE {"open", "closed"}

CallInv ==
  \A t \in Threads : call[t] # Idle =>
    /\ call[t] \in Calls
    /\ call[t].at = "answered" => call[t].answer \in AnswerOf(call[t].job)

Inv == TypeOK /\ CallInv

\* Taking a claim or leaving the row alone, a run keeps the types.
LEMMA RunTyped ==
  ASSUME Inv, NEW t \in Threads, NEW job \in Jobs, NEW r \in Recs, Run(t, job, r)
  PROVE  /\ recon' \in [Recs -> ReconStatuses]
         /\ opsCase' \in [Recs -> CaseStatuses]
         /\ waiting' \subseteq {"recon", "case"} \X Recs
         /\ call' \in [Threads -> Calls \cup {Idle}]
         /\ UNCHANGED <<acknowledged, requester, approver, reference>>
         /\ CallInv'
<1> USE DEF Inv, TypeOK
<1>1. CASE ~Claimable(job, r) /\ UNCHANGED <<rows, call>>
  BY <1>1 DEF rows, CallInv
<1>2. CASE Claim(job, r) /\ UNCHANGED <<acknowledged, requester, approver, reference>>
           /\ call' = [call EXCEPT ![t] = [at |-> "calling", job |-> job, rec |-> r, answer |-> "open"]]
  <2>1. [at |-> "calling", job |-> job, rec |-> r, answer |-> "open"] \in Calls
    BY DEF Calls, Answers
  <2>2. call' \in [Threads -> Calls \cup {Idle}] /\ CallInv'
    BY <1>2, <2>1 DEF CallInv, Idle
  <2>3. Row(job, r) \in {"recon", "case"} \X Recs
    BY DEF Row
  <2>4. waiting' \subseteq {"recon", "case"} \X Recs
    BY <1>2, <2>3 DEF Claim, ClaimReconciliation, ClaimSubmission, ClaimSync, Arm
  <2>5. recon' \in [Recs -> ReconStatuses] /\ opsCase' \in [Recs -> CaseStatuses]
    BY <1>2 DEF Claim, ClaimReconciliation, ClaimSubmission, ClaimSync, SetRecon, SetCase,
       ReconStatuses, CaseStatuses
  <2>6. QED
    BY <1>2, <2>2, <2>4, <2>5
<1>3. QED
  BY <1>1, <1>2 DEF Run

\* A thread whose call moves on, or ends, keeps the shape of what the threads hold.
LEMMA CallMoves ==
  ASSUME Inv, NEW t \in Threads, call[t] # Idle,
         NEW at \in {"answered", "failed"}, NEW answer \in Answers, Becomes(t, at, answer),
         at = "answered" => answer \in AnswerOf(call[t].job)
  PROVE  call' \in [Threads -> Calls \cup {Idle}] /\ CallInv'
<1>1. [at |-> at, job |-> call[t].job, rec |-> call[t].rec, answer |-> answer] \in Calls
  BY DEF Inv, CallInv, Calls
<1>2. QED
  BY <1>1 DEF Inv, TypeOK, CallInv, Becomes, Idle

LEMMA CallEnds ==
  ASSUME Inv, NEW t \in Threads, Finish(t)
  PROVE  call' \in [Threads -> Calls \cup {Idle}] /\ CallInv'
BY DEF Inv, TypeOK, CallInv, Finish

\* What a call that holds a claim is about.
LEMMA Held ==
  ASSUME Inv, NEW t \in Threads, NEW at \in {"calling", "answered", "failed"}, call[t].at = at
  PROVE  /\ call[t] # Idle
         /\ call[t] \in Calls
         /\ call[t].rec \in Recs /\ call[t].job \in Jobs /\ call[t].answer \in Answers
BY DEF Inv, TypeOK, CallInv, Calls, Idle

\* The environment and the operators' decisions leave the threads alone.
LEMMA TableStepTyped ==
  ASSUME Inv, NEW r \in Recs,
         \/ Fulfil(r) \/ Erase(r) \/ ProviderSettles(r) \/ CaseworkCloses(r)
         \/ AcknowledgeMismatch(r) \/ DecideOnCase(r)
  PROVE  Inv'
<1> USE DEF Inv, TypeOK, CallInv, outside, loop, rows
<1>1. CASE Fulfil(r)
  BY <1>1 DEF Fulfil, SetRecon, ReconStatuses
<1>2. CASE Erase(r)
  BY <1>2 DEF Erase, SetRecon, SetCase, ReconStatuses, CaseStatuses
<1>3. CASE ProviderSettles(r)
  BY <1>3 DEF ProviderSettles
<1>4. CASE CaseworkCloses(r)
  BY <1>4 DEF CaseworkCloses
<1>5. CASE AcknowledgeMismatch(r)
  BY <1>5 DEF AcknowledgeMismatch
<1>6. ASSUME NEW p \in Principals, RequestCase(r, p) PROVE Inv'
  BY <1>6 DEF RequestCase, SetCase, CaseStatuses
<1>7. ASSUME NEW p \in Principals, ApproveCase(r, p) PROVE Inv'
  BY <1>7 DEF ApproveCase, SetCase, CaseStatuses, Disarm
<1>8. QED
  BY <1>1, <1>2, <1>3, <1>4, <1>5, <1>6, <1>7 DEF DecideOnCase

\* What a thread does with its claim.
LEMMA ProceedTyped == ASSUME Inv, NEW t \in Threads, Proceed(t) PROVE Inv'
<1> DEFINE r == call[t].rec
<1>1. CASE ProviderAnswers(t)
  <2>1. call[t] # Idle /\ r \in Recs /\ call[t].job = "reconcile"
    BY <1>1, Held DEF ProviderAnswers, At
  <2>2. truth[r] \in AnswerOf("reconcile") /\ truth[r] \in Answers
    BY <2>1 DEF Inv, TypeOK, AnswerOf, Answers
  <2>3. call' \in [Threads -> Calls \cup {Idle}] /\ CallInv'
    BY <1>1, <2>1, <2>2, CallMoves DEF ProviderAnswers
  <2>4. QED
    BY <1>1, <2>3 DEF Inv, TypeOK, ProviderAnswers, rows, outside, loop
<1>2. CASE CaseworkOpens(t)
  BY <1>2, Held DEF Inv, TypeOK, CallInv, CaseworkOpens, rows, loop
<1>3. ASSUME NEW job \in {"submit", "sync"}, CaseworkAnswers(t, job) PROVE Inv'
  <2>1. call[t] # Idle /\ r \in Recs /\ call[t].job = job
    BY <1>3, Held DEF CaseworkAnswers, At
  <2>2. casework[r] \in AnswerOf(job) /\ casework[r] \in Answers
    BY <1>3, <2>1 DEF Inv, TypeOK, AnswerOf, Answers, CaseworkAnswers
  <2>3. call' \in [Threads -> Calls \cup {Idle}] /\ CallInv'
    BY <1>3, <2>1, <2>2, CallMoves DEF CaseworkAnswers
  <2>4. QED
    BY <1>3, <2>3 DEF Inv, TypeOK, CaseworkAnswers, rows, outside, loop
<1>4. CASE CompleteReconciliation(t) \/ FailReconciliation(t)
  <2>1. r \in Recs
    BY <1>4, Held DEF CompleteReconciliation, FailReconciliation, At
  <2>2. call' \in [Threads -> Calls \cup {Idle}] /\ CallInv'
    BY <1>4, CallEnds DEF CompleteReconciliation, FailReconciliation
  <2>3. recon' \in [Recs -> ReconStatuses] /\ waiting' \subseteq {"recon", "case"} \X Recs
    BY <1>4, <2>1 DEF Inv, TypeOK, CompleteReconciliation, FailReconciliation, StoreVerdict,
       WriteVerdict, CheckAgain, SetRecon, Arm, Disarm, Row, ReconStatuses
  <2>4. QED
    BY <1>4, <2>2, <2>3 DEF Inv, TypeOK, CompleteReconciliation, FailReconciliation, outside, loop
<1>5. CASE CompleteSubmission(t) \/ CompleteSync(t)
  <2>1. r \in Recs /\ call[t].answer \in {"open", "closed"}
    <3>1. call[t].answer \in AnswerOf(call[t].job) /\ call[t].job \in {"submit", "sync"}
      BY <1>5, Held DEF CompleteSubmission, CompleteSync, At, Inv, CallInv
    <3>2. QED
      BY <1>5, <3>1, Held DEF CompleteSubmission, CompleteSync, At, AnswerOf
  <2>2. call' \in [Threads -> Calls \cup {Idle}] /\ CallInv'
    BY <1>5, CallEnds DEF CompleteSubmission, CompleteSync
  <2>3. /\ opsCase' \in [Recs -> CaseStatuses] /\ waiting' \subseteq {"recon", "case"} \X Recs
        /\ reference' \in [Recs -> BOOLEAN]
    <3>1. CASE opsCase' = opsCase /\ waiting' = waiting
      BY <1>5, <2>1, <3>1 DEF Inv, TypeOK, CompleteSubmission, CompleteSync, StoreSubmitted,
         StoreCaseStatus
    <3>2. CASE StoreCaseStatus(r, call[t].answer)
      <4>1. opsCase' \in [Recs -> CaseStatuses]
        BY <2>1, <3>2 DEF Inv, TypeOK, StoreCaseStatus, SetCase, CaseStatuses
      <4>2. waiting' \subseteq {"recon", "case"} \X Recs
        BY <2>1, <3>2 DEF Inv, TypeOK, StoreCaseStatus, Arm, Disarm, Row
      <4>3. reference' \in [Recs -> BOOLEAN]
        BY <1>5, <2>1 DEF Inv, TypeOK, CompleteSubmission, CompleteSync, StoreSubmitted
      <4>4. QED
        BY <4>1, <4>2, <4>3
    <3>3. QED
      BY <1>5, <3>1, <3>2 DEF CompleteSubmission, CompleteSync, StoreSubmitted, StoreSynced
  <2>4. QED
    BY <1>5, <2>2, <2>3 DEF Inv, TypeOK, CompleteSubmission, CompleteSync, outside, loop
<1>6. ASSUME NEW job \in {"submit", "sync"}, FailCaseAction(t, job) PROVE Inv'
  <2>1. r \in Recs
    BY <1>6, Held DEF FailCaseAction, At
  <2>2. call' \in [Threads -> Calls \cup {Idle}] /\ CallInv'
    BY <1>6, CallEnds DEF FailCaseAction
  <2>3. opsCase' \in [Recs -> CaseStatuses] /\ waiting' \subseteq {"recon", "case"} \X Recs
    BY <1>6, <2>1 DEF Inv, TypeOK, FailCaseAction, StoreRetry, RetryStatus, SetCase, Arm, Row,
       CaseStatuses
  <2>4. QED
    BY <1>6, <2>2, <2>3 DEF Inv, TypeOK, FailCaseAction, outside, loop
<1>7. QED
  BY <1>1, <1>2, <1>3, <1>4, <1>5, <1>6 DEF Proceed, Reconcile, Submit, Sync

\* The jobs the worker lists are jobs on recommendations.
LEMMA AgendaTyped ==
  DueReconciliations \subseteq Jobs \X Recs /\ DueCaseActions \subseteq Jobs \X Recs
BY DEF DueReconciliations, DueCaseActions, Jobs

\* The worker's loop, the operators' runs, and what goes wrong in either.
LEMMA LoopTyped ==
  ASSUME Inv,
         \/ WorkerPolls \/ WorkerTakes \/ WorkerAdvances
         \/ \E t \in Operators : RunReconciliation(t) \/ RunCaseAction(t)
         \/ \E t \in Threads : DependencyFails(t) \/ Crash(t)
         \/ \E row \in waiting : Elapse(row)
  PROVE  Inv'
<1> USE DEF rows, outside, loop
<1>1. CASE WorkerPolls \/ WorkerAdvances
  BY <1>1, AgendaTyped DEF Inv, TypeOK, CallInv, WorkerPolls, WorkerAdvances
<1>2. CASE WorkerTakes
  <2>1. PICK item \in agenda : Run(Worker, item[1], item[2]) /\ agenda' = agenda \ {item}
    BY <1>2 DEF WorkerTakes
  <2>2. item[1] \in Jobs /\ item[2] \in Recs /\ Worker \in Threads
    BY DEF Inv, TypeOK, Threads
  <2>3. QED
    BY <1>2, <2>1, <2>2, RunTyped DEF Inv, TypeOK, WorkerTakes
<1>3. ASSUME NEW t \in Operators, NEW job \in Jobs, NEW r \in Recs, OperatorRuns(t, job, r)
      PROVE Inv'
  BY <1>3, RunTyped, IncidentsAssumption DEF Inv, TypeOK, OperatorRuns, Incident, Threads
<1>4. ASSUME NEW t \in Threads, DependencyFails(t) PROVE Inv'
  <2>1. call' \in [Threads -> Calls \cup {Idle}] /\ CallInv'
    BY <1>4, Held, CallMoves DEF DependencyFails, Answers
  <2>2. QED
    BY <1>4, <2>1, IncidentsAssumption DEF Inv, TypeOK, DependencyFails, Incident
<1>5. ASSUME NEW t \in Threads, Crash(t) PROVE Inv'
  <2>1. incidents' \in 0 .. MaxIncidents
    BY <1>5, IncidentsAssumption DEF Inv, TypeOK, Crash, Incident
  <2>2. call' \in [Threads -> Calls \cup {Idle}] /\ CallInv'
    BY <1>5, CallEnds DEF Crash
  <2>3. QED
    BY <1>5, <2>1, <2>2 DEF Inv, TypeOK, Crash
<1>6. ASSUME NEW row \in waiting, Elapse(row) PROVE Inv'
  BY <1>6 DEF Inv, TypeOK, CallInv, Elapse
<1>7. QED
  BY <1>1, <1>2, <1>3, <1>4, <1>5, <1>6 DEF RunReconciliation, RunCaseAction, Jobs

LEMMA TypeStep == Inv /\ [Next]_vars => Inv'
<1> SUFFICES ASSUME Inv, [Next]_vars PROVE Inv'
  OBVIOUS
<1>1. CASE UNCHANGED vars
  BY <1>1 DEF Inv, TypeOK, CallInv, vars, rows, outside, loop
<1>2. CASE Next
  BY <1>2, TableStepTyped, ProceedTyped, LoopTyped DEF Next, WorkerStep, Threads
<1>3. QED
  BY <1>1, <1>2


\* The tables, the providers and the threads keep their types, whatever happens in which
\* order and however long a call takes (fulfillment_reconciliations, operations_cases).
THEOREM OperationsTyped == Spec => []TypeOK
<1>1. Init => Inv
  BY IncidentsAssumption DEF Init, Inv, TypeOK, CallInv, ReconStatuses, CaseStatuses
<1>2. QED
  BY <1>1, TypeStep, PTL DEF Spec, Inv

-----------------------------------------------------------------------------
(* What the two tables and the external platform say of one another.       *)

Filed == {"open", "syncing", "sync_retry", "closed"}

\* One conjunct per relation: who stands behind a case, whether its record is there, and
\* how far the platform knows it.
CaseInv ==
  \A r \in Recs :
    /\ opsCase[r] \notin {"none", "erased"} => requester[r] \in Principals
    /\ opsCase[r] \notin {"none", "draft", "erased"} =>
         approver[r] \in Principals /\ requester[r] # approver[r]
    /\ recon[r] \in {"none", "erased"} => opsCase[r] = recon[r]
    /\ opsCase[r] \in Filed => reference[r] /\ casework[r] # "none"
    /\ casework[r] # "none" => opsCase[r] \notin {"none", "draft"}

\* Only an approved case is ever in the hands of a submission, and only a case the platform
\* knows in the hands of one that was answered.
SubmissionInv ==
  \A t \in Threads : call[t] # Idle /\ call[t].job = "submit" =>
    /\ opsCase[call[t].rec] \notin {"none", "draft"}
    /\ call[t].at = "answered" => casework[call[t].rec] # "none"

IInv == Inv /\ CaseInv /\ SubmissionInv

\* A step that makes no case a draft again, and does not take one off the platform, leaves
\* the submissions that are under way as they should be.
LEMMA SubmissionsStay ==
  ASSUME IInv, call' \in [Threads -> Calls \cup {Idle}],
         \A u \in Threads : call'[u] \in {call[u], Idle},
         \A r \in Recs : opsCase[r] \notin {"none", "draft"} => opsCase'[r] \notin {"none", "draft"},
         \A r \in Recs : casework[r] # "none" => casework'[r] # "none"
  PROVE  SubmissionInv'
<1> SUFFICES ASSUME NEW t \in Threads, call'[t] # Idle, call'[t].job = "submit"
             PROVE  /\ opsCase'[call'[t].rec] \notin {"none", "draft"}
                    /\ call'[t].at = "answered" => casework'[call'[t].rec] # "none"
  BY DEF SubmissionInv
<1>1. call'[t] = call[t] /\ call[t].rec \in Recs
  BY DEF IInv, Inv, CallInv, Calls
<1>2. QED
  BY <1>1 DEF IInv, SubmissionInv

\* Environment and operators.
LEMMA TableStepKeeps ==
  ASSUME IInv, Inv', NEW r \in Recs,
         \/ Fulfil(r) \/ Erase(r) \/ ProviderSettles(r) \/ CaseworkCloses(r)
         \/ AcknowledgeMismatch(r) \/ DecideOnCase(r)
  PROVE  CaseInv' /\ SubmissionInv'
<1> USE DEF IInv, Inv, TypeOK, outside, rows
<1>1. CASE Fulfil(r)
  <2>1. CaseInv'
    BY <1>1 DEF Fulfil, SetRecon, CaseInv
  <2>2. QED
    BY <1>1, <2>1, SubmissionsStay DEF Fulfil
<1>2. CASE Erase(r)
  <2>1. CaseInv'
    BY <1>2 DEF Erase, SetRecon, SetCase, CaseInv, Filed
  <2>2. QED
    BY <1>2, <2>1, SubmissionsStay DEF Erase, SetCase
<1>3. CASE ProviderSettles(r) \/ AcknowledgeMismatch(r)
  <2>1. CaseInv'
    BY <1>3 DEF ProviderSettles, AcknowledgeMismatch, CaseInv
  <2>2. QED
    BY <1>3, <2>1, SubmissionsStay DEF ProviderSettles, AcknowledgeMismatch
<1>4. CASE CaseworkCloses(r)
  <2>1. CaseInv'
    BY <1>4 DEF CaseworkCloses, CaseInv
  <2>2. QED
    BY <1>4, <2>1, SubmissionsStay DEF CaseworkCloses
<1>5. ASSUME NEW p \in Principals, RequestCase(r, p) PROVE CaseInv' /\ SubmissionInv'
  <2>1. CaseInv'
    BY <1>5 DEF RequestCase, MayRequest, InMismatch, SetCase, CaseInv, Filed
  <2>2. QED
    BY <1>5, <2>1, SubmissionsStay DEF RequestCase, MayRequest, SetCase
<1>6. ASSUME NEW p \in Principals, ApproveCase(r, p) PROVE CaseInv' /\ SubmissionInv'
  <2>1. CaseInv'
    BY <1>6 DEF ApproveCase, MayApprove, SetCase, CaseInv, Filed
  <2>2. QED
    BY <1>6, <2>1, SubmissionsStay DEF ApproveCase, SetCase
<1>7. QED
  BY <1>1, <1>2, <1>3, <1>4, <1>5, <1>6 DEF DecideOnCase

\* Claims: only an approved case is submitted, only a filed one synchronized.
LEMMA RunKeeps ==
  ASSUME IInv, Inv', NEW t \in Threads, NEW job \in Jobs, NEW r \in Recs, Run(t, job, r),
         UNCHANGED casework
  PROVE  CaseInv' /\ SubmissionInv'
<1> USE DEF IInv, Inv, TypeOK
<1>1. CASE ~Claimable(job, r) /\ UNCHANGED <<rows, call>>
  BY <1>1 DEF rows, CaseInv, SubmissionInv
<1>2. CASE Claim(job, r) /\ UNCHANGED <<acknowledged, requester, approver, reference>>
           /\ call' = [call EXCEPT ![t] = [at |-> "calling", job |-> job, rec |-> r, answer |-> "open"]]
  <2>1. CASE job = "reconcile" /\ ClaimReconciliation(r)
    BY <1>2, <2>1 DEF ClaimReconciliation, ReconciliationClaimable, SetRecon, CaseInv,
       SubmissionInv, Idle
  <2>2. CASE job = "submit" /\ ClaimSubmission(r)
    <3>1. CaseInv'
      BY <1>2, <2>2 DEF ClaimSubmission, SubmissionClaimable, SetCase, CaseInv, Filed
    <3>2. opsCase'[r] = "submitting" /\ \A x \in Recs \ {r} : opsCase'[x] = opsCase[x]
      BY <2>2 DEF ClaimSubmission, SetCase
    <3>3. SubmissionInv'
      BY <1>2, <3>2 DEF SubmissionInv, CallInv, Calls, Idle
    <3>4. QED
      BY <3>1, <3>3
  <2>3. CASE job = "sync" /\ ClaimSync(r)
    <3>1. CaseInv'
      BY <1>2, <2>3 DEF ClaimSync, SyncClaimable, SetCase, CaseInv, Filed
    <3>2. opsCase'[r] = "syncing" /\ \A x \in Recs \ {r} : opsCase'[x] = opsCase[x]
      BY <2>3 DEF ClaimSync, SetCase
    <3>3. SubmissionInv'
      BY <1>2, <2>3, <3>2 DEF SubmissionInv, CallInv, Calls, Idle
    <3>4. QED
      BY <3>1, <3>3
  <2>4. QED
    BY <1>2, <2>1, <2>2, <2>3 DEF Claim
<1>3. QED
  BY <1>1, <1>2 DEF Run

\* The provider's answers and what is stored of them.
LEMMA ProceedKeeps ==
  ASSUME IInv, Inv', NEW t \in Threads, Proceed(t) PROVE CaseInv' /\ SubmissionInv'
<1> DEFINE r == call[t].rec
<1> USE DEF IInv, Inv, TypeOK, outside, rows
<1>1. CASE ProviderAnswers(t)
  <2>1. CaseInv'
    BY <1>1 DEF ProviderAnswers, CaseInv
  <2>2. call[t].job = "reconcile" /\ call' = [call EXCEPT ![t] = [at |-> "answered",
          job |-> call[t].job, rec |-> call[t].rec, answer |-> truth[r]]]
    BY <1>1 DEF ProviderAnswers, At, Becomes
  <2>3. SubmissionInv'
    BY <1>1, <2>2 DEF ProviderAnswers, SubmissionInv
  <2>4. QED
    BY <2>1, <2>3
<1>2. CASE CaseworkOpens(t)
  <2>1. r \in Recs /\ opsCase[r] \notin {"none", "draft"}
    BY <1>2, Held DEF CaseworkOpens, At, SubmissionInv
  <2>2. CaseInv'
    BY <1>2, <2>1 DEF CaseworkOpens, CaseInv
  <2>3. QED
    BY <1>2, <2>2, SubmissionsStay DEF CaseworkOpens
<1>3. ASSUME NEW job \in {"submit", "sync"}, CaseworkAnswers(t, job)
      PROVE  CaseInv' /\ SubmissionInv'
  <2>1. CaseInv'
    BY <1>3 DEF CaseworkAnswers, CaseInv
  <2>2. call[t] # Idle /\ casework[r] # "none" /\ call' = [call EXCEPT ![t] = [at |-> "answered",
          job |-> call[t].job, rec |-> r, answer |-> casework[r]]]
    BY <1>3, Held DEF CaseworkAnswers, At, Becomes
  <2>3. SubmissionInv'
    BY <1>3, <2>2 DEF CaseworkAnswers, SubmissionInv
  <2>4. QED
    BY <2>1, <2>3
<1>4. CASE CompleteReconciliation(t) \/ FailReconciliation(t)
  <2>1. r \in Recs
    BY <1>4, Held DEF CompleteReconciliation, FailReconciliation, At
  <2>2. \/ recon' = recon
        \/ /\ recon[r] = "checking"
           /\ \E to \in {"retry", "matched", "mismatch"} : recon' = [recon EXCEPT ![r] = to]
    BY <1>4 DEF CompleteReconciliation, FailReconciliation, StoreVerdict, WriteVerdict, CheckAgain,
       SetRecon
  <2>3. UNCHANGED <<opsCase, requester, approver, reference, casework>>
    BY <1>4 DEF CompleteReconciliation, FailReconciliation
  <2>4. CaseInv'
    BY <2>1, <2>2, <2>3 DEF CaseInv
  <2>5. QED
    BY <1>4, <2>3, <2>4, SubmissionsStay DEF CompleteReconciliation, FailReconciliation, Finish
<1>5. CASE CompleteSubmission(t) \/ CompleteSync(t)
  <2>1. r \in Recs /\ call[t].answer \in {"open", "closed"}
    <3>1. call[t].answer \in AnswerOf(call[t].job) /\ call[t].job \in {"submit", "sync"}
      BY <1>5, Held DEF CompleteSubmission, CompleteSync, At, CallInv
    <3>2. QED
      BY <1>5, <3>1, Held DEF CompleteSubmission, CompleteSync, At, AnswerOf
  <2>2. UNCHANGED <<recon, requester, approver, casework>>
    BY <1>5 DEF CompleteSubmission, CompleteSync
  <2>3. \/ UNCHANGED <<opsCase, reference>>
        \/ /\ opsCase[r] \in {"submitting", "syncing"}
           /\ opsCase' = [opsCase EXCEPT ![r] = call[t].answer]
           /\ reference'[r] /\ casework[r] # "none"
           /\ \A x \in Recs : reference[x] => reference'[x]
    <3>1. CASE CompleteSubmission(t)
      <4>1. casework[r] # "none"
        BY <3>1, Held DEF CompleteSubmission, At, SubmissionInv
      <4>2. QED
        BY <3>1, <4>1, <2>1 DEF CompleteSubmission, StoreSubmitted, StoreCaseStatus, SetCase
    <3>2. CASE CompleteSync(t)
      BY <3>2, <2>1 DEF CompleteSync, StoreSynced, StoreCaseStatus, SetCase, CaseInv, Filed
    <3>3. QED
      BY <1>5, <3>1, <3>2
  <2>4. CaseInv'
    BY <2>1, <2>2, <2>3 DEF CaseInv, Filed
  <2>5. QED
    BY <1>5, <2>1, <2>2, <2>3, <2>4, SubmissionsStay DEF CompleteSubmission, CompleteSync, Finish
<1>6. ASSUME NEW job \in {"submit", "sync"}, FailCaseAction(t, job)
      PROVE  CaseInv' /\ SubmissionInv'
  <2>1. r \in Recs
    BY <1>6, Held DEF FailCaseAction, At
  <2>2. UNCHANGED <<recon, requester, approver, reference, casework>>
    BY <1>6 DEF FailCaseAction
  <2>3. \/ opsCase' = opsCase
        \/ opsCase[r] = "submitting" /\ opsCase' = [opsCase EXCEPT ![r] = "submission_retry"]
        \/ opsCase[r] = "syncing" /\ opsCase' = [opsCase EXCEPT ![r] = "sync_retry"]
    BY <1>6 DEF FailCaseAction, StoreRetry, RetryStatus, SetCase
  <2>4. CaseInv'
    BY <2>1, <2>2, <2>3 DEF CaseInv, Filed
  <2>5. QED
    BY <1>6, <2>1, <2>2, <2>3, <2>4, SubmissionsStay DEF FailCaseAction, Finish
<1>7. QED
  BY <1>1, <1>2, <1>3, <1>4, <1>5, <1>6 DEF Proceed, Reconcile, Submit, Sync

\* The worker's loop, the operators' runs, and what goes wrong in either.
LEMMA LoopKeeps ==
  ASSUME IInv, Inv',
         \/ WorkerPolls \/ WorkerTakes \/ WorkerAdvances
         \/ \E t \in Operators : RunReconciliation(t) \/ RunCaseAction(t)
         \/ \E t \in Threads : DependencyFails(t) \/ Crash(t)
         \/ \E row \in waiting : Elapse(row)
  PROVE  CaseInv' /\ SubmissionInv'
<1> USE DEF IInv, Inv, TypeOK, rows, outside, loop
<1>1. CASE WorkerPolls \/ WorkerAdvances
  BY <1>1 DEF WorkerPolls, WorkerAdvances, CaseInv, SubmissionInv
<1>2. CASE WorkerTakes
  <2>1. PICK item \in agenda : Run(Worker, item[1], item[2]) /\ agenda' = agenda \ {item}
    BY <1>2 DEF WorkerTakes
  <2>2. item[1] \in Jobs /\ item[2] \in Recs /\ Worker \in Threads
    BY DEF Threads
  <2>3. QED
    BY <1>2, <2>1, <2>2, RunKeeps DEF WorkerTakes
<1>3. ASSUME NEW t \in Operators, NEW job \in Jobs, NEW r \in Recs, OperatorRuns(t, job, r)
      PROVE  CaseInv' /\ SubmissionInv'
  BY <1>3, RunKeeps DEF OperatorRuns, Threads
<1>4. ASSUME NEW t \in Threads, DependencyFails(t) PROVE CaseInv' /\ SubmissionInv'
  <2>1. CaseInv'
    BY <1>4 DEF DependencyFails, CaseInv
  <2>2. call[t] # Idle /\ call' = [call EXCEPT ![t] = [at |-> "failed", job |-> call[t].job,
          rec |-> call[t].rec, answer |-> "open"]]
    BY <1>4, Held DEF DependencyFails, Becomes
  <2>3. SubmissionInv'
    BY <1>4, <2>2 DEF DependencyFails, SubmissionInv
  <2>4. QED
    BY <2>1, <2>3
<1>5. ASSUME NEW t \in Threads, Crash(t) PROVE CaseInv' /\ SubmissionInv'
  <2>1. CaseInv'
    BY <1>5 DEF Crash, CaseInv
  <2>2. QED
    BY <1>5, <2>1, SubmissionsStay DEF Crash, Finish
<1>6. ASSUME NEW row \in waiting, Elapse(row) PROVE CaseInv' /\ SubmissionInv'
  BY <1>6 DEF Elapse, CaseInv, SubmissionInv
<1>7. QED
  BY <1>1, <1>2, <1>3, <1>4, <1>5, <1>6 DEF RunReconciliation, RunCaseAction, Jobs

LEMMA OperationsInductive == IInv /\ [Next]_vars => IInv'
<1> SUFFICES ASSUME IInv, [Next]_vars PROVE CaseInv' /\ SubmissionInv'
  BY TypeStep DEF IInv
<1>1. Inv'
  BY TypeStep DEF IInv
<1>2. CASE UNCHANGED vars
  BY <1>2 DEF IInv, CaseInv, SubmissionInv, vars, rows, outside
<1>3. CASE Next
  BY <1>1, <1>3, TableStepKeeps, ProceedKeeps, LoopKeeps DEF Next, WorkerStep, Threads
<1>4. QED
  BY <1>2, <1>3

LEMMA OperationsInvariant == Spec => []IInv
<1>1. Init => IInv
  <2>1. Init => Inv
    BY IncidentsAssumption DEF Init, Inv, TypeOK, CallInv, ReconStatuses, CaseStatuses
  <2>2. Init => CaseInv /\ SubmissionInv
    BY DEF Init, CaseInv, SubmissionInv, Filed
  <2>3. QED
    BY <2>1, <2>2 DEF IInv
<1>2. QED
  BY <1>1, OperationsInductive, PTL DEF Spec

\* Nobody files a case alone: whatever has reached the external platform was requested by
\* one operator and approved by another (approve_operations_case).
THEOREM CasesNeedTwo == Spec => []FourEyes
<1>1. IInv => FourEyes
  BY DEF IInv, CaseInv, FourEyes
<1>2. QED
  BY <1>1, OperationsInvariant, PTL

\* A case goes with its reconciliation, and only a case the platform knows is synchronized
\* (process_erasure_request, complete_operations_case_submission).
THEOREM CasesHaveRecords == Spec => []CaseHasItsRecord
<1>1. IInv => CaseHasItsRecord
  BY DEF IInv, CaseInv, CaseHasItsRecord, Filed
<1>2. QED
  BY <1>1, OperationsInvariant, PTL

-----------------------------------------------------------------------------
(* Verdicts are final.                                                     *)

\* What a step may do to a row that is settled.
RowStands(r) ==
  /\ recon[r] = "matched" => recon'[r] \in {"matched", "erased"}
  /\ opsCase[r] = "closed" => opsCase'[r] \in {"closed", "erased"}
  /\ reference[r] => reference'[r] \/ opsCase'[r] = "erased"

LEMMA TableStepStands ==
  ASSUME IInv, NEW r \in Recs,
         \/ Fulfil(r) \/ Erase(r) \/ ProviderSettles(r) \/ CaseworkCloses(r)
         \/ AcknowledgeMismatch(r) \/ DecideOnCase(r)
  PROVE  \A x \in Recs : RowStands(x)
<1> USE DEF IInv, Inv, TypeOK, rows, RowStands
<1>1. CASE Fulfil(r) \/ Erase(r)
  BY <1>1 DEF Fulfil, Erase, SetRecon, SetCase
<1>2. CASE ProviderSettles(r) \/ CaseworkCloses(r) \/ AcknowledgeMismatch(r)
  BY <1>2 DEF ProviderSettles, CaseworkCloses, AcknowledgeMismatch
<1>3. CASE DecideOnCase(r)
  BY <1>3 DEF DecideOnCase, RequestCase, MayRequest, ApproveCase, MayApprove, SetCase
<1>4. QED
  BY <1>1, <1>2, <1>3

LEMMA RunStands ==
  ASSUME IInv, NEW t \in Threads, NEW job \in Jobs, NEW r \in Recs, Run(t, job, r)
  PROVE  \A x \in Recs : RowStands(x)
BY DEF IInv, Inv, TypeOK, rows, RowStands, Run, Claim, ClaimReconciliation, ClaimSubmission,
   ClaimSync, ReconciliationClaimable, SubmissionClaimable, SyncClaimable, SetRecon, SetCase

LEMMA ProceedStands ==
  ASSUME IInv, NEW t \in Threads, Proceed(t) PROVE \A x \in Recs : RowStands(x)
<1> USE DEF IInv, Inv, TypeOK, rows, RowStands
<1>1. CASE ProviderAnswers(t) \/ CaseworkOpens(t)
  BY <1>1 DEF ProviderAnswers, CaseworkOpens
<1>2. ASSUME NEW job \in {"submit", "sync"}, CaseworkAnswers(t, job)
      PROVE \A x \in Recs : RowStands(x)
  BY <1>2 DEF CaseworkAnswers
<1>3. CASE CompleteReconciliation(t) \/ FailReconciliation(t)
  BY <1>3 DEF CompleteReconciliation, FailReconciliation, StoreVerdict, WriteVerdict, CheckAgain,
     SetRecon
<1>4. CASE CompleteSubmission(t) \/ CompleteSync(t)
  BY <1>4 DEF CompleteSubmission, CompleteSync, StoreSubmitted, StoreSynced, StoreCaseStatus, SetCase
<1>5. ASSUME NEW job \in {"submit", "sync"}, FailCaseAction(t, job)
      PROVE \A x \in Recs : RowStands(x)
  BY <1>5 DEF FailCaseAction, StoreRetry, RetryStatus, SetCase
<1>6. QED
  BY <1>1, <1>2, <1>3, <1>4, <1>5 DEF Proceed, Reconcile, Submit, Sync

LEMMA LoopStands ==
  ASSUME IInv,
         \/ WorkerPolls \/ WorkerTakes \/ WorkerAdvances
         \/ \E t \in Operators : RunReconciliation(t) \/ RunCaseAction(t)
         \/ \E t \in Threads : DependencyFails(t) \/ Crash(t)
         \/ \E row \in waiting : Elapse(row)
  PROVE  \A x \in Recs : RowStands(x)
<1>1. CASE WorkerTakes
  BY <1>1, RunStands DEF WorkerTakes, IInv, Inv, TypeOK, Threads
<1>2. ASSUME NEW t \in Operators, RunReconciliation(t) \/ RunCaseAction(t)
      PROVE \A x \in Recs : RowStands(x)
  BY <1>2, RunStands DEF RunReconciliation, RunCaseAction, OperatorRuns, Threads, Jobs
<1>3. CASE \/ WorkerPolls \/ WorkerAdvances
           \/ \E t \in Threads : DependencyFails(t) \/ Crash(t)
           \/ \E row \in waiting : Elapse(row)
  BY <1>3 DEF WorkerPolls, WorkerAdvances, DependencyFails, Crash, Elapse, rows, RowStands
<1>4. QED
  BY <1>1, <1>2, <1>3

\* A matched action stays matched, a closed case closed and a filed case filed, until its
\* customer is erased, whoever still holds a claim (the guards on 'checking', 'submitting'
\* and 'syncing' in the completions).
THEOREM VerdictsStand == Spec => VerdictIsFinal
<1>1. ASSUME IInv, [Next]_vars PROVE \A r \in Recs : RowStands(r)
  <2>1. CASE UNCHANGED vars
    BY <2>1 DEF vars, rows, RowStands
  <2>2. CASE Next
    BY <1>1, <2>2, TableStepStands, ProceedStands, LoopStands DEF Next, WorkerStep, Threads
  <2>3. QED
    BY <1>1, <2>1, <2>2
<1>2. IInv /\ [Next]_vars => [\A r \in Recs :
       /\ recon[r] = "matched" => recon'[r] \in {"matched", "erased"}
       /\ opsCase[r] = "closed" => opsCase'[r] \in {"closed", "erased"}
       /\ reference[r] => reference'[r] \/ opsCase'[r] = "erased"]_vars
  BY <1>1 DEF RowStands
<1>3. QED
  BY <1>2, OperationsInvariant, PTL DEF Spec, VerdictIsFinal
=============================================================================

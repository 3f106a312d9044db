----------------------------- MODULE Governance -----------------------------
(***************************************************************************)
(* The governance services at work together: administrators' requests on   *)
(* rollout controls and signed artifacts, and reported outcomes, served by *)
(* threads of several processes that share the database and its ledger.    *)
(***************************************************************************)
EXTENDS RolloutControl, GovernedArtifact, OutcomeMonitoring

vars == <<ledgerVars, control, artifactVars, outcomeVars>>

Init == LedgerInit /\ ControlInit /\ ArtifactInit /\ OutcomeInit

Ledger == (\E t \in Threads : LedgerStep(t)) /\ UNCHANGED <<control, artifactVars, outcomeVars>>
Control == (\E t \in Threads : ControlStep(t)) /\ UNCHANGED <<artifactVars, outcomeVars>>
Artifact ==
  /\ \/ \E t \in Threads : ArtifactStep(t)
     \/ \E a \in Artifacts : Elapse(a)
     \/ \E p \in Processes : Restart(p)
  /\ UNCHANGED <<control, outcomeVars>>
Outcome ==
  /\ (\E t \in Threads : OutcomeStep(t)) \/ EraseCustomer
  /\ UNCHANGED <<control, artifactVars>>

Next == Ledger \/ Control \/ Artifact \/ Outcome

Spec == Init /\ [][Next]_vars

-----------------------------------------------------------------------------
(* Properties.                                                             *)

TypeOK ==
  /\ control \in [Controls -> [status : ControlStatuses, by : People \cup {Nobody},
                               decider : People \cup {Nobody}, effective : BOOLEAN]]
  /\ artifact \in [Artifacts -> [status : ArtifactStatuses, by : People \cup {Nobody},
                                 decider : People \cup {Nobody}, effective : BOOLEAN,
                                 stale : BOOLEAN]]
  /\ runtime \in [Processes -> Artifacts \cup {BuiltIn}]
  /\ home \in [Threads -> Processes]
  /\ \A t \in Threads :
       /\ Stage(t) \in {"idle", "report", "append", "insert"} \cup Activating
       /\ activation[t].artifact \in Artifacts <=> Stage(t) \in Activating
       /\ Stage(t) = "insert" => call[t].head <= LastHash
  /\ observation \in [Events -> Contents \cup {Unreported}]

\* Controls of a scope, whoever works on it at once, change as GovernedChange promises:
\* one proposal at a time, in effect only by a second person's word and instead of what
\* was in effect, one person alone only to overrule (request_rollout_control,
\* decide_rollout_control, emergency_disable_rollout_scope).
ControlPromise == INSTANCE GovernedChange WITH
  Changes <- Controls, Persons <- People, Overridable <- TRUE,
  change <- [c \in Controls |-> [standing |-> control[c].status, by |-> control[c].by,
                                 decider |-> control[c].decider]]
ControlsAreGoverned == ControlPromise!ChangeSpec

\* Versions of an artifact type do too, with no exception for one person, although an
\* approval takes a claim, a materialization and a completion, any of which may fail or
\* be overtaken: a version under materialization is still only proposed.
Proposed(row) == row.status = "materializing"
ArtifactView ==
  [a \in Artifacts |->
    [standing |-> IF Proposed(artifact[a]) THEN "pending" ELSE artifact[a].status,
     by |-> artifact[a].by,
     decider |-> IF Proposed(artifact[a]) THEN Nobody ELSE artifact[a].decider]]
ArtifactPromise == INSTANCE GovernedChange WITH
  Changes <- Artifacts, Persons <- People, Overridable <- FALSE, change <- ArtifactView
ArtifactsAreGoverned == ArtifactPromise!ChangeSpec

\* An emergency disable must never be undone by one person, nor by a proposal that was
\* already on the table: what lifts it was requested after it and approved by another
\* (docs/OPERATIONS_RUNBOOK.md, emergency_disable_rollout_scope).
InEmergency(c) == control[c].status = "active" /\ IsEmergency(c)
EmergencyHolds ==
  [][\A c \in Controls : InEmergency(c) /\ control'[c].status # "active" =>
       \E d \in Controls :
         /\ d > c
         /\ control'[d].status = "active"
         /\ control[d].status = "pending" => control'[d].by # control'[d].decider]_vars

\* A process with no approval at work serves the built-in catalogue or a version that two
\* people stood behind, whatever failed or restarted (GovernedArtifactService.decide).
\* Not promised once a claim was taken over from a live thread, or a rollback raised.
ServesApproved ==
  ~disturbed => \A p \in Processes :
    (\A t \in Threads : home[t] = p => Stage(t) \notin Activating)
      => runtime[p] = BuiltIn \/ artifact[runtime[p]].effective

\* The chain that verify walks is whole, however the appends of threads and processes
\* interleave and wherever they fail (append_integrity_record).
LedgerVerifies == Verifies

\* The ledger says of every change what the tables say: nobody is credited with a
\* decision another took or that was not taken, and no change is recorded twice.
\* The outcomes of an erased customer remain in the ledger alone.
Committed == ControlEvents \cup ArtifactEvents \cup OutcomeEvents
OfErased(r) == r.service = "outcome" /\ erased
LedgerTellsTruth ==
  \A i \in DOMAIN ledger : LET r == ledger[i].record IN
    OfErased(r) \/ (r \in Committed /\ \A j \in 1 .. i - 1 : ledger[j].record # r)

\* Every committed change is recorded, or its record is in the hands of a live thread, or
\* a failure came between the two transactions: no path of the services skips the ledger.
ChangesAreRecorded == Committed \subseteq Recorded \cup InHand \cup lost
=============================================================================

-------------------------- MODULE GovernedArtifact --------------------------
(***************************************************************************)
(* The versions of one artifact type (a product catalogue or a policy      *)
(* registry), and what each API process serves.  Approval is not one       *)
(* transaction: a thread claims the version, applies it to the catalogue   *)
(* of its own process, and only then completes the activation; a claim     *)
(* older than a minute may be taken over.  Signature and schema checks are *)
(* a step that fails.  A version is numbered in the order of requests; 0   *)
(* is the catalogue built into the program.                                *)
(***************************************************************************)
EXTENDS AuditLedger

CONSTANT MaxArtifacts           \* bound on the versions requested

ASSUME GovernedArtifactAssumption == MaxArtifacts \in Nat

VARIABLES artifact,             \* governed_artifacts of the type
          runtime,              \* the version each process serves
          activation,           \* the approval each thread is at work on
          disturbed             \* history: a claim was taken over from a thread still at
                                \* work, or a rollback failed
artifactVars == <<artifact, runtime, activation, disturbed>>

Artifacts == 1 .. MaxArtifacts
BuiltIn == 0
ArtifactStatuses == {"absent", "pending", "materializing", "active", "rejected", "superseded"}
Activating == {"claimed", "snapshotted", "applied", "undo", "abandon"}
NoArtifact ==
  [status |-> "absent", by |-> Nobody, decider |-> Nobody, effective |-> FALSE, stale |-> FALSE]
Activation(a, who, restore) == [artifact |-> a, who |-> who, restore |-> restore]
NoActivation == Activation(0, Nobody, BuiltIn)

ArtifactInit ==
  /\ artifact = [a \in Artifacts |-> NoArtifact]
  /\ runtime = [p \in Processes |-> BuiltIn]
  /\ activation = [t \in Threads |-> NoActivation]
  /\ disturbed = FALSE

Versions(statuses) == {a \in Artifacts : artifact[a].status \in statuses}
\* apply_governed_feed: the feed is checked as a whole before it takes the old one's place.
Serve(p, version) == [runtime EXCEPT ![p] = version]
\* snapshot_governed_feed
Served(p) == runtime[p]

\* get_active_governed_artifact
ActiveOr(other) ==
  IF Versions({"active"}) = {} THEN other ELSE CHOOSE a \in Versions({"active"}) : TRUE

GotoStage(t, stage) == call' = [call EXCEPT ![t].stage = stage]
\* Slip: the approval is forgotten only by the thread.
Finished_CallOnly(t) == call' = [call EXCEPT ![t] = Idle] /\ UNCHANGED activation

Finished(t) ==
  /\ call' = [call EXCEPT ![t] = Idle]
  /\ activation' = [activation EXCEPT ![t] = NoActivation]

RequestArtifact(t, p) ==
  /\ Begin(t, "artifact")
  /\ Versions({"pending", "materializing"}) = {}
  /\ \E a \in Artifacts :
       /\ artifact[a].status = "absent" /\ \A b \in 1 .. a - 1 : artifact[b].status # "absent"
       /\ artifact' = [artifact EXCEPT ![a].status = "pending", ![a].by = p]
       /\ ToRecord(t, Entry("artifact", a, "requested", p))
  /\ UNCHANGED <<ledger, home, lost, runtime, activation, disturbed>>

RejectArtifact(t, a, p) ==
  /\ Begin(t, "artifact")
  /\ artifact[a].status = "pending" /\ artifact[a].by # p
  /\ artifact' = [artifact EXCEPT ![a].status = "rejected", ![a].decider = p]
  /\ ToRecord(t, Entry("artifact", a, "rejected", p))
  /\ UNCHANGED <<ledger, home, lost, runtime, activation, disturbed>>

\* Slip: whoever requested the version may approve it.
MayClaim_Anyone(row, p) ==
  \/ row.status = "pending"
  \/ row.status = "materializing" /\ row.stale

MayClaim(row, p) ==
  /\ row.by # p
  /\ \/ row.status = "pending"
     \/ row.status = "materializing" /\ row.stale

ClaimActivation(t, a, p) ==
  /\ Begin(t, "artifact")
  /\ MayClaim(artifact[a], p)
  /\ artifact' = [artifact EXCEPT ![a].status = "materializing", ![a].decider = p,
                                  ![a].stale = FALSE]
  /\ activation' = [activation EXCEPT ![t] = Activation(a, p, BuiltIn)]
  /\ GotoStage(t, "claimed")
  /\ disturbed' = (disturbed \/ \E u \in Threads : activation[u].artifact = a)
  /\ UNCHANGED <<ledger, home, lost, runtime>>

\* The claim is a minute old.
Elapse(a) ==
  /\ artifact[a].status = "materializing" /\ ~artifact[a].stale
  /\ artifact' = [artifact EXCEPT ![a].stale = TRUE]
  /\ UNCHANGED <<ledgerVars, runtime, activation, disturbed>>

\* What a rollback will restore: the active version, or a copy of what is served.
Snapshot(t) ==
  /\ Stage(t) = "claimed"
  /\ activation' = [activation EXCEPT ![t] =
       Activation(activation[t].artifact, activation[t].who, ActiveOr(Served(home[t])))]
  /\ GotoStage(t, "snapshotted")
  /\ UNCHANGED <<ledger, home, quota, lost, artifact, runtime, disturbed>>

Materialize(t) ==
  /\ Stage(t) = "snapshotted"
  /\ runtime' = Serve(home[t], activation[t].artifact)
  /\ GotoStage(t, "applied")
  /\ UNCHANGED <<ledger, home, quota, lost, artifact, activation, disturbed>>

\* The digest, the signature or the feed is refused: what is served stays as it was.
MaterializeFails(t) ==
  /\ Stage(t) = "snapshotted"
  /\ Incident
  /\ GotoStage(t, "abandon")
  /\ UNCHANGED <<ledger, home, lost, artifactVars>>

\* Slip: the claim is looked for by its state, not by who holds it.
Owns_Anyone(t) == artifact[activation[t].artifact].status = "materializing"

Owns(t) ==
  LET row == artifact[activation[t].artifact]
  IN row.status = "materializing" /\ row.decider = activation[t].who

Activated(a) ==
  [b \in Artifacts |->
    IF b = a THEN [artifact[a] EXCEPT !.status = "active", !.effective = TRUE, !.stale = FALSE]
    ELSE IF artifact[b].status = "active" THEN [artifact[b] EXCEPT !.status = "superseded"]
    ELSE artifact[b]]

Approval(t) == Entry("artifact", activation[t].artifact, "approved", activation[t].who)

Complete(t) ==
  /\ Stage(t) = "applied"
  /\ Owns(t)
  /\ artifact' = Activated(activation[t].artifact)
  /\ ToRecord(t, Approval(t))
  /\ activation' = [activation EXCEPT ![t] = NoActivation]
  /\ UNCHANGED <<ledger, home, quota, lost, runtime, disturbed>>

\* claim_lost: another approval took the claim over.
LoseClaim(t) ==
  /\ Stage(t) = "applied"
  /\ ~Owns(t)
  /\ GotoStage(t, "undo")
  /\ UNCHANGED <<ledger, home, quota, lost, artifactVars>>

\* The transaction raises; whether it has committed is not known to the thread.
CompleteFails(t) ==
  /\ Stage(t) = "applied"
  /\ Incident
  /\ GotoStage(t, "undo")
  /\ \/ UNCHANGED <<artifact, lost>>
     \/ /\ Owns(t)
        /\ artifact' = Activated(activation[t].artifact)
        /\ lost' = lost \cup {Approval(t)}
  /\ UNCHANGED <<ledger, home, runtime, activation, disturbed>>

\* Slip: what was served before is not restored.
Rollback_ClaimOnly(t) == runtime

Rollback(t) == Serve(home[t], activation[t].restore)

Undo(t) ==
  /\ Stage(t) = "undo"
  /\ runtime' = Rollback(t)
  /\ GotoStage(t, "abandon")
  /\ UNCHANGED <<ledger, home, quota, lost, artifact, activation, disturbed>>

\* The rollback raises: it is not retried, and the claim is not abandoned.
UndoFails(t) ==
  /\ Stage(t) = "undo"
  /\ Incident
  /\ Finished(t)
  /\ disturbed' = TRUE
  /\ UNCHANGED <<ledger, home, lost, artifact, runtime>>

Abandon(t) ==
  /\ Stage(t) = "abandon"
  /\ artifact' = IF ~Owns(t) THEN artifact
                 ELSE [artifact EXCEPT ![activation[t].artifact].status = "pending",
                                       ![activation[t].artifact].decider = Nobody,
                                       ![activation[t].artifact].stale = FALSE]
  /\ Finished(t)
  /\ UNCHANGED <<ledger, home, quota, lost, runtime, disturbed>>

\* The read of the active version, or the abandoning, raises: the claim is left behind.
ActivationRaises(t) ==
  /\ Stage(t) \in {"claimed", "abandon"}
  /\ Incident
  /\ Finished(t)
  /\ UNCHANGED <<ledger, home, lost, artifact, runtime, disturbed>>

\* A process dies with its threads and comes back: materialize_active.
Restart(p) ==
  /\ Incident
  /\ LET dead == {t \in Threads : home[t] = p}
     IN /\ Drop(dead)
        /\ activation' = [t \in Threads |-> IF t \in dead THEN NoActivation ELSE activation[t]]
  /\ runtime' = Serve(p, ActiveOr(BuiltIn))
  /\ UNCHANGED <<ledger, home, artifact, disturbed>>

ArtifactStep(t) ==
  \/ \E p \in People :
       \/ RequestArtifact(t, p)
       \/ \E a \in Artifacts : RejectArtifact(t, a, p) \/ ClaimActivation(t, a, p)
  \/ Snapshot(t) \/ Materialize(t) \/ MaterializeFails(t)
  \/ Complete(t) \/ LoseClaim(t) \/ CompleteFails(t)
  \/ Undo(t) \/ UndoFails(t) \/ Abandon(t) \/ ActivationRaises(t)

\* What the rows say has happened, as the ledger names it.
ArtifactEvents ==
  {Entry("artifact", a, "requested", artifact[a].by) :
     a \in {b \in Artifacts : artifact[b].status # "absent"}}
  \cup {Entry("artifact", a, "approved", artifact[a].decider) :
     a \in {b \in Artifacts : artifact[b].effective}}
  \cup {Entry("artifact", a, "rejected", artifact[a].decider) : a \in Versions({"rejected"})}
=============================================================================

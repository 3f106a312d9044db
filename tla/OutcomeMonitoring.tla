-------------------------- MODULE OutcomeMonitoring --------------------------
(***************************************************************************)
(* The outcomes reported for one recommendation.  A report carries the     *)
(* identifier of the source's event; the first one is stored, an exact     *)
(* retry is answered with the stored one, other content is refused.  The   *)
(* recommendation is looked up before the insert, in another transaction:  *)
(* its customer may be erased in between.                                  *)
(***************************************************************************)
EXTENDS AuditLedger

CONSTANTS Events,               \* source_event_id
          Contents              \* what a report says: outcome, impact, evidence, time

VARIABLES observation,          \* recommendation_outcomes, by source_event_ref
          erased                \* the customer's rows have been deleted

outcomeVars == <<observation, erased>>
Unreported == "unreported"

ASSUME OutcomeMonitoringAssumption == Unreported \notin Contents

OutcomeInit ==
  /\ observation = [e \in Events |-> Unreported]
  /\ erased = FALSE

\* get_recommendation_monitoring_context finds the recommendation.
LookUp(t, e, content) ==
  /\ Begin(t, "outcome")
  /\ ~erased
  /\ call' = [call EXCEPT ![t] = [stage |-> "report", head |-> Genesis,
                                   record |-> Entry("outcome", e, content, Nobody)]]
  /\ UNCHANGED <<ledger, home, lost, outcomeVars>>

Reported(t) == call[t].record.subject

Insertable(e) == observation[e] = Unreported

\* INSERT ... ON CONFLICT DO NOTHING.  SQLite keeps the row of an erased recommendation.
RecordOutcome(t) ==
  /\ Stage(t) = "report"
  /\ Insertable(Reported(t))
  /\ observation' = [observation EXCEPT ![Reported(t)] = call[t].record.event]
  /\ ToRecord(t, call[t].record)
  /\ UNCHANGED <<ledger, home, quota, lost, erased>>

\* A replay or an idempotency conflict; or PostgreSQL's foreign key refuses the row.
RefuseOutcome(t) ==
  /\ Stage(t) = "report"
  /\ ~Insertable(Reported(t)) \/ erased
  /\ call' = [call EXCEPT ![t] = Idle]
  /\ UNCHANGED <<ledger, home, quota, lost, outcomeVars>>

\* process_erasure_request deletes the recommendation with its outcomes.
EraseCustomer ==
  /\ ~erased
  /\ erased' = TRUE
  /\ observation' = [e \in Events |-> Unreported]
  /\ UNCHANGED ledgerVars

OutcomeStep(t) ==
  \/ \E e \in Events, content \in Contents : LookUp(t, e, content)
  \/ RecordOutcome(t)
  \/ RefuseOutcome(t)

OutcomeEvents ==
  {Entry("outcome", e, observation[e], Nobody) :
     e \in {f \in Events : observation[f] # Unreported}}
=============================================================================

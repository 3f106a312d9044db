--------------------------- MODULE RolloutControl ---------------------------
(***************************************************************************)
(* The controls of one rollout scope.  Each database method is one         *)
(* transaction (BEGIN IMMEDIATE, or the scope's advisory lock).  Controls  *)
(* are numbered in the order in which they are stored.  Mode and cohort    *)
(* are left to the gates that read them (OfferExecution, Orchestration):   *)
(* here an emergency control is the one whose requester decided it.        *)
(***************************************************************************)
EXTENDS AuditLedger

CONSTANT MaxControls            \* bound on the scope's rows

ASSUME RolloutControlAssumption == MaxControls \in Nat

VARIABLE control                \* rollout_controls of the scope

Controls == 1 .. MaxControls
ControlStatuses == {"absent", "pending", "active", "rejected", "superseded"}
NoControl == [status |-> "absent", by |-> Nobody, decider |-> Nobody, effective |-> FALSE]

ControlInit == control = [c \in Controls |-> NoControl]

InStatus(statuses) == {c \in Controls : control[c].status \in statuses}
\* The identifier is a fresh UUID: the next row.
NextControl(c) == control[c].status = "absent" /\ \A d \in 1 .. c - 1 : control[d].status # "absent"

Request(t, p) ==
  /\ Begin(t, "control")
  /\ InStatus({"pending"}) = {}
  /\ \E c \in Controls :
       /\ NextControl(c)
       /\ control' = [control EXCEPT ![c].status = "pending", ![c].by = p]
       /\ ToRecord(t, Entry("control", c, "requested", p))
  /\ UNCHANGED <<ledger, home, lost>>

\* Slip: whoever requested the change may decide it.
MayDecide_Anyone(row, p) == row.status = "pending"

MayDecide(row, p) == row.by # p /\ row.status = "pending"

Activate(c, p) ==
  control' = [d \in Controls |->
    IF d = c THEN [control[c] EXCEPT !.status = "active", !.decider = p, !.effective = TRUE]
    ELSE IF control[d].status = "active" THEN [control[d] EXCEPT !.status = "superseded"]
    ELSE control[d]]

Decide(t, c, p) ==
  /\ Begin(t, "control")
  /\ MayDecide(control[c], p)
  /\ \/ /\ Activate(c, p)
        /\ ToRecord(t, Entry("control", c, "approved", p))
     \/ /\ control' = [control EXCEPT ![c].status = "rejected", ![c].decider = p]
        /\ ToRecord(t, Entry("control", c, "rejected", p))
  /\ UNCHANGED <<ledger, home, lost>>

\* Slip: a proposal waiting for approval survives the emergency.
Overtaken_ActiveOnly == {"active"}

Overtaken == {"active", "pending"}

\* decided_by_ref = COALESCE(decided_by_ref, actor)
Superseded(row, p) ==
  [row EXCEPT !.status = "superseded", !.decider = IF @ = Nobody THEN p ELSE @]

EmergencyDisable(t, p) ==
  /\ Begin(t, "control")
  /\ \E c \in Controls :
       /\ NextControl(c)
       /\ control' = [d \in Controls |->
            IF d = c THEN [status |-> "active", by |-> p, decider |-> p, effective |-> TRUE]
            ELSE IF control[d].status \in Overtaken THEN Superseded(control[d], p)
            ELSE control[d]]
       /\ ToRecord(t, Entry("control", c, "disabled", p))
  /\ UNCHANGED <<ledger, home, lost>>

ControlStep(t) ==
  \E p \in People :
    \/ Request(t, p)
    \/ \E c \in Controls : Decide(t, c, p)
    \/ EmergencyDisable(t, p)

\* What the rows say has happened, as the ledger names it.
IsEmergency(c) == control[c].effective /\ control[c].by = control[c].decider
ControlEvents ==
  {Entry("control", c, "requested", control[c].by) :
     c \in {d \in Controls : control[d].status # "absent" /\ ~IsEmergency(d)}}
  \cup {Entry("control", c, IF IsEmergency(c) THEN "disabled" ELSE "approved", control[c].decider) :
     c \in {d \in Controls : control[d].effective}}
  \cup {Entry("control", c, "rejected", control[c].decider) : c \in InStatus({"rejected"})}
=============================================================================

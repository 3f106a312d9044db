--------------------------- MODULE GovernedChange ---------------------------
(***************************************************************************)
(* What both governance services promise about changes of one scope, or of *)
(* one artifact type, however many administrators work at once: there is   *)
(* one proposal at a time; it takes effect, or is turned down, by the word *)
(* of a second person; and what was in effect gives way in the same        *)
(* instant.  One person alone may only overrule, and only where the        *)
(* service has an emergency to provide for.                                *)
(***************************************************************************)
CONSTANTS Changes,              \* identifiers of changes
          Persons,              \* the principals' references
          Nobody,               \* no one yet
          Overridable           \* whether one person may overrule what is in effect

VARIABLE change                 \* each change: how it stands, who asked, who decided

Standings == {"absent", "pending", "active", "rejected", "superseded"}
Stand(c) == change[c].standing
Change(standing, by, decider) == [standing |-> standing, by |-> by, decider |-> decider]
Unasked == Change("absent", Nobody, Nobody)
\* A change as it was asked for, in another standing.
Turned(c, standing, decider) == Change(standing, change[c].by, decider)
GivesWay(c) == Turned(c, "superseded", change[c].decider)

ChangeInit == change = [c \in Changes |-> Unasked]

Propose(c, p) ==
  /\ Stand(c) = "absent"
  /\ \A d \in Changes : Stand(d) # "pending"
  /\ change' = [change EXCEPT ![c] = Change("pending", p, Nobody)]

Approve(c, p) ==
  /\ Stand(c) = "pending"
  /\ change[c].by # p
  /\ change' = [d \in Changes |->
       IF d = c THEN Turned(c, "active", p)
       ELSE IF Stand(d) = "active" THEN GivesWay(d)
       ELSE change[d]]

TurnDown(c, p) ==
  /\ Stand(c) = "pending"
  /\ change[c].by # p
  /\ change' = [change EXCEPT ![c] = Turned(c, "rejected", p)]

Overrule(c, p) ==
  /\ Overridable
  /\ Stand(c) = "absent"
  /\ change' = [d \in Changes |->
       CASE d = c -> Change("active", p, p)
         [] Stand(d) = "active" -> GivesWay(d)
         [] Stand(d) = "pending" -> Turned(d, "superseded", p)
         [] OTHER -> change[d]]

ChangeNext ==
  \E c \in Changes, p \in Persons :
    Propose(c, p) \/ Approve(c, p) \/ TurnDown(c, p) \/ Overrule(c, p)

ChangeSpec == ChangeInit /\ [][ChangeNext]_change
=============================================================================

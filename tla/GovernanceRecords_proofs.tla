---------------------- MODULE GovernanceRecords_proofs ----------------------
(***************************************************************************)
(* Proofs that relate the ledger of Governance to the tables it records.   *)
(***************************************************************************)
EXTENDS Governance_proofs

-----------------------------------------------------------------------------
(* What the rows of each table say has happened, row by row.               *)

Recording == {"append", "insert"}
When(condition, event) == IF condition THEN {event} ELSE {}

Emergency(row) == row.effective /\ row.by = row.decider
ControlSays(c, row) ==
  When(row.status # "absent" /\ ~Emergency(row), Entry("control", c, "requested", row.by))
  \cup When(row.effective,
            Entry("control", c, IF Emergency(row) THEN "disabled" ELSE "approved", row.decider))
  \cup When(row.status = "rejected", Entry("control", c, "rejected", row.decider))

ArtifactSays(a, row) ==
  When(row.status # "absent", Entry("artifact", a, "requested", row.by))
  \cup When(row.effective, Entry("artifact", a, "approved", row.decider))
  \cup When(row.status = "rejected", Entry("artifact", a, "rejected", row.decider))

LEMMA ControlEventsByRow ==
  /\ \A r : r \in ControlEvents <=> \E c \in Controls : r \in ControlSays(c, control[c])
  /\ \A r : r \in ControlEvents' <=> \E c \in Controls : r \in ControlSays(c, control'[c])
<1>1. \A r : r \in ControlEvents <=> \E c \in Controls : r \in ControlSays(c, control[c])
  BY DEF ControlEvents, ControlSays, When, Emergency, IsEmergency, InStatus
<1>2. \A r : r \in ControlEvents' <=> \E c \in Controls : r \in ControlSays(c, control'[c])
  BY DEF ControlEvents, ControlSays, When, Emergency, IsEmergency, InStatus
<1>3. QED
  BY <1>1, <1>2

LEMMA ArtifactEventsByRow ==
  /\ \A r : r \in ArtifactEvents <=> \E a \in Artifacts : r \in ArtifactSays(a, artifact[a])
  /\ \A r : r \in ArtifactEvents' <=> \E a \in Artifacts : r \in ArtifactSays(a, artifact'[a])
<1>1. \A r : r \in ArtifactEvents <=> \E a \in Artifacts : r \in ArtifactSays(a, artifact[a])
  BY DEF ArtifactEvents, ArtifactSays, When, Versions
<1>2. \A r : r \in ArtifactEvents' <=> \E a \in Artifacts : r \in ArtifactSays(a, artifact'[a])
  BY DEF ArtifactEvents, ArtifactSays, When, Versions
<1>3. QED
  BY <1>1, <1>2

\* What a row says names the row.
LEMMA RowsSpeakForThemselves ==
  /\ \A c, row, r : r \in ControlSays(c, row) => r.subject = c /\ r.service = "control"
  /\ \A a, row, r : r \in ArtifactSays(a, row) => r.subject = a /\ r.service = "artifact"
BY DEF ControlSays, ArtifactSays, When, Entry

\* A row in effect is, or was, the active one.
ControlSettled ==
  \A c \in Controls : control[c].effective => control[c].status \in {"active", "superseded"}

\* A step by which one control says one thing more.
ControlAdds(c, r) ==
  /\ r \in ControlSays(c, control'[c])
  /\ r \notin ControlSays(c, control[c])
  /\ ControlSays(c, control'[c]) = ControlSays(c, control[c]) \cup {r}
  /\ \A d \in Controls \ {c} : ControlSays(d, control'[d]) = ControlSays(d, control[d])

LEMMA ControlAdded ==
  ASSUME NEW c \in Controls, NEW r, ControlAdds(c, r)
  PROVE  r \notin ControlEvents /\ ControlEvents' = ControlEvents \cup {r}
<1>1. \A d \in Controls \ {c} : r \notin ControlSays(d, control[d])
  BY RowsSpeakForThemselves DEF ControlAdds
<1>2. r \notin ControlEvents
  BY <1>1, ControlEventsByRow DEF ControlAdds
<1>3. \A x : x \in ControlEvents' <=> x \in ControlEvents \/ x = r
  BY ControlEventsByRow DEF ControlAdds
<1>4. QED
  BY <1>2, <1>3

\* What the rows a step does not turn say: nothing new.
LEMMA ControlSaysTheSame ==
  ASSUME NEW c, NEW row, NEW after,
         after.by = row.by, after.effective = row.effective,
         row.effective => after.decider = row.decider,
         row.status \notin {"absent", "rejected"}, after.status \notin {"absent", "rejected"}
  PROVE  ControlSays(c, after) = ControlSays(c, row)
BY DEF ControlSays, When, Emergency

\* Every request, decision and emergency adds its one event.
LEMMA ControlCommits ==
  ASSUME ControlShape, ControlSettled, NEW t \in Threads, ControlStep(t)
  PROVE  /\ Stage(t) = "idle"
         /\ \E r, c : c \in Controls /\ ToRecord(t, r) /\ ControlAdds(c, r)
         /\ ControlSettled'
<1> USE AuditLedgerAssumption
<1>1. ASSUME NEW p \in People, Request(t, p)
      PROVE  \E r, c : c \in Controls /\ ToRecord(t, r) /\ ControlAdds(c, r)
  <2>1. PICK c \in Controls :
          /\ NextControl(c)
          /\ control' = [control EXCEPT ![c].status = "pending", ![c].by = p]
          /\ ToRecord(t, Entry("control", c, "requested", p))
    BY <1>1 DEF Request
  <2>2. /\ control[c] = NoControl /\ \A d \in Controls \ {c} : control'[d] = control[d]
        /\ control'[c].status = "pending" /\ control'[c].by = p /\ control'[c].effective = FALSE
    BY <2>1 DEF ControlShape, ControlRow, NextControl, NoControl
  <2>3. ControlSays(c, control[c]) = {}
    BY <2>2 DEF NoControl, ControlSays, When
  <2>4. ControlSays(c, control'[c]) = {Entry("control", c, "requested", p)}
    BY <2>2 DEF ControlSays, When, Emergency
  <2>5. QED
    BY <2>1, <2>2, <2>3, <2>4 DEF ControlAdds
<1>2. ASSUME NEW p \in People, NEW c \in Controls, Decide(t, c, p)
      PROVE  \E r, d : d \in Controls /\ ToRecord(t, r) /\ ControlAdds(d, r)
  <2>1. /\ control[c].status = "pending" /\ control[c].by # p /\ control[c].effective = FALSE
        /\ ControlSays(c, control[c]) = {Entry("control", c, "requested", control[c].by)}
    BY <1>2 DEF Decide, MayDecide, ControlSettled, ControlShape, ControlRow, ControlSays, When,
       Emergency
  <2>2. CASE Activate(c, p) /\ ToRecord(t, Entry("control", c, "approved", p))
    <3>1. /\ control'[c].status = "active" /\ control'[c].decider = p
          /\ control'[c].by = control[c].by /\ control'[c].effective = TRUE
      BY <2>2 DEF Activate, ControlShape, ControlRow
    <3>2. ControlSays(c, control'[c]) = {Entry("control", c, "requested", control[c].by),
                                         Entry("control", c, "approved", p)}
      BY <2>1, <3>1 DEF ControlSays, When, Emergency
    <3>3. Entry("control", c, "approved", p) # Entry("control", c, "requested", control[c].by)
      BY DEF Entry
    <3>4. \A d \in Controls \ {c} :
            \/ control'[d] = control[d]
            \/ /\ control[d].status = "active" /\ control'[d].status = "superseded"
               /\ control'[d].by = control[d].by /\ control'[d].decider = control[d].decider
               /\ control'[d].effective = control[d].effective
      BY <2>2 DEF Activate, ControlShape, ControlRow
    <3>5. \A d \in Controls \ {c} : ControlSays(d, control'[d]) = ControlSays(d, control[d])
      BY <3>4, ControlSaysTheSame
    <3>6. QED
      BY <2>1, <2>2, <3>2, <3>3, <3>5 DEF ControlAdds
  <2>3. CASE /\ control' = [control EXCEPT ![c].status = "rejected", ![c].decider = p]
             /\ ToRecord(t, Entry("control", c, "rejected", p))
    <3>1. /\ control'[c].status = "rejected" /\ control'[c].decider = p
          /\ control'[c].by = control[c].by /\ control'[c].effective = FALSE
          /\ \A d \in Controls \ {c} : control'[d] = control[d]
      BY <2>1, <2>3 DEF ControlShape, ControlRow
    <3>2. ControlSays(c, control'[c]) = {Entry("control", c, "requested", control[c].by),
                                         Entry("control", c, "rejected", p)}
      BY <3>1 DEF ControlSays, When, Emergency
    <3>3. Entry("control", c, "rejected", p) # Entry("control", c, "requested", control[c].by)
      BY DEF Entry
    <3>4. QED
      BY <2>1, <2>3, <3>1, <3>2, <3>3 DEF ControlAdds
  <2>4. QED
    BY <1>2, <2>2, <2>3 DEF Decide
<1>3. ASSUME NEW p \in People, EmergencyDisable(t, p)
      PROVE  \E r, c : c \in Controls /\ ToRecord(t, r) /\ ControlAdds(c, r)
  <2>1. PICK c \in Controls :
          /\ NextControl(c)
          /\ control' = [d \in Controls |->
               IF d = c THEN [status |-> "active", by |-> p, decider |-> p, effective |-> TRUE]
               ELSE IF control[d].status \in Overtaken THEN Superseded(control[d], p)
               ELSE control[d]]
          /\ ToRecord(t, Entry("control", c, "disabled", p))
    BY <1>3 DEF EmergencyDisable
  <2>2. control[c] = NoControl
    BY <2>1 DEF ControlShape, NextControl
  <2>3. ControlSays(c, control[c]) = {}
    BY <2>2 DEF NoControl, ControlSays, When
  <2>4. ControlSays(c, control'[c]) = {Entry("control", c, "disabled", p)}
    BY <2>1 DEF ControlSays, When, Emergency
  <2>5. \A d \in Controls \ {c} :
          \/ control'[d] = control[d]
          \/ /\ control[d].status \in {"active", "pending"} /\ control'[d].status = "superseded"
             /\ control'[d].by = control[d].by /\ control'[d].effective = control[d].effective
             /\ control[d].status = "active" => control'[d].decider = control[d].decider
    BY <2>1 DEF Overtaken, Superseded, ControlShape, ControlRow
  <2>6. \A d \in Controls \ {c} : ControlSays(d, control'[d]) = ControlSays(d, control[d])
    <3>1. \A d \in Controls : control[d].status = "pending" => control[d].effective = FALSE
      BY DEF ControlSettled, ControlShape, ControlRow
    <3>2. QED
      BY <2>5, <3>1, ControlSaysTheSame
  <2>7. QED
    BY <2>1, <2>3, <2>4, <2>6 DEF ControlAdds
<1>4. Stage(t) = "idle"
  BY DEF ControlStep, Request, Decide, EmergencyDisable, Begin
<1>5. ASSUME NEW p \in People, Request(t, p)
      PROVE  ControlSettled'
  <2>1. PICK c \in Controls :
          NextControl(c) /\ control' = [control EXCEPT ![c].status = "pending", ![c].by = p]
    BY <1>5 DEF Request
  <2>2. /\ control'[c].effective = FALSE
        /\ \A d \in Controls \ {c} : control'[d] = control[d]
    BY <2>1 DEF ControlShape, ControlRow, NextControl, NoControl
  <2>3. QED
    BY <2>2 DEF ControlSettled
<1>6. ASSUME NEW p \in People, NEW c \in Controls, Decide(t, c, p)
      PROVE  ControlSettled'
  <2>1. control[c].status = "pending" /\ control[c].effective = FALSE
    BY <1>6 DEF Decide, MayDecide, ControlSettled, ControlShape, ControlRow
  <2>2. CASE Activate(c, p)
    <3>1. /\ control'[c].status = "active"
          /\ \A d \in Controls \ {c} :
               control'[d] = control[d] \/ control'[d].status = "superseded"
      BY <2>2 DEF Activate, ControlShape, ControlRow
    <3>2. QED
      BY <3>1 DEF ControlSettled
  <2>3. CASE control' = [control EXCEPT ![c].status = "rejected", ![c].decider = p]
    <3>1. control'[c].effective = FALSE /\ \A d \in Controls \ {c} : control'[d] = control[d]
      BY <2>1, <2>3 DEF ControlShape, ControlRow
    <3>2. QED
      BY <3>1 DEF ControlSettled
  <2>4. QED
    BY <1>6, <2>2, <2>3 DEF Decide
<1>7. ASSUME NEW p \in People, EmergencyDisable(t, p)
      PROVE  ControlSettled'
  <2>1. PICK c \in Controls :
          control' = [d \in Controls |->
            IF d = c THEN [status |-> "active", by |-> p, decider |-> p, effective |-> TRUE]
            ELSE IF control[d].status \in Overtaken THEN Superseded(control[d], p)
            ELSE control[d]]
    BY <1>7 DEF EmergencyDisable
  <2>2. /\ control'[c].status = "active"
        /\ \A d \in Controls \ {c} :
             control'[d] = control[d] \/ control'[d].status = "superseded"
    BY <2>1 DEF Superseded, ControlShape, ControlRow
  <2>3. QED
    BY <2>2 DEF ControlSettled
<1>8. QED
  BY <1>1, <1>2, <1>3, <1>4, <1>5, <1>6, <1>7 DEF ControlStep

-----------------------------------------------------------------------------
(* The same for the versions of an artifact.                               *)

\* A version in effect is, or was, the active one, and no other is in effect.
ArtifactSettled ==
  \A a \in Artifacts : /\ artifact[a].effective => artifact[a].status \in {"active", "superseded"}
                       /\ artifact[a].status \in {"active", "superseded"} => artifact[a].effective

ArtifactAdds(a, r) ==
  /\ r \in ArtifactSays(a, artifact'[a])
  /\ r \notin ArtifactSays(a, artifact[a])
  /\ ArtifactSays(a, artifact'[a]) = ArtifactSays(a, artifact[a]) \cup {r}
  /\ \A b \in Artifacts \ {a} : ArtifactSays(b, artifact'[b]) = ArtifactSays(b, artifact[b])

LEMMA ArtifactAdded ==
  ASSUME NEW a \in Artifacts, NEW r, ArtifactAdds(a, r)
  PROVE  r \notin ArtifactEvents /\ ArtifactEvents' = ArtifactEvents \cup {r}
<1>1. \A b \in Artifacts \ {a} : r \notin ArtifactSays(b, artifact[b])
  BY RowsSpeakForThemselves DEF ArtifactAdds
<1>2. r \notin ArtifactEvents
  BY <1>1, ArtifactEventsByRow DEF ArtifactAdds
<1>3. \A x : x \in ArtifactEvents' <=> x \in ArtifactEvents \/ x = r
  BY ArtifactEventsByRow DEF ArtifactAdds
<1>4. QED
  BY <1>2, <1>3

\* A row that moves without being decided: the same row, or one that is superseded or
\* whose claim is taken, given up or grows old.
Undecided(a) ==
  \/ artifact'[a] = artifact[a]
  \/ /\ artifact'[a].by = artifact[a].by
     /\ artifact'[a].effective = artifact[a].effective
     /\ \/ /\ artifact[a].status = "active" /\ artifact'[a].status = "superseded"
           /\ artifact'[a].decider = artifact[a].decider
        \/ /\ artifact[a].status \in {"pending", "materializing"}
           /\ artifact'[a].status \in {"pending", "materializing"}

\* A step after which every row of a version is the row it was or has moved undecided.
LEMMA UndecidedSaysTheSame ==
  ASSUME ArtifactShape, ArtifactSettled, NEW a \in Artifacts, Undecided(a)
  PROVE  /\ ArtifactSays(a, artifact'[a]) = ArtifactSays(a, artifact[a])
         /\ artifact'[a].effective => artifact'[a].status \in {"active", "superseded"}
         /\ artifact'[a].status \in {"active", "superseded"} => artifact'[a].effective
<1>1. CASE artifact'[a] = artifact[a]
  BY <1>1 DEF ArtifactSettled
<1>2. CASE artifact'[a] # artifact[a]
  BY <1>2 DEF Undecided, ArtifactSays, When, ArtifactSettled
<1>3. QED
  BY <1>1, <1>2

\* A version that is decided, or whose activation is complete.
Decided(a, word, p) ==
  /\ artifact[a].status \in {"pending", "materializing"}
  /\ artifact'[a].by = artifact[a].by /\ artifact'[a].decider = p
  /\ \/ /\ artifact'[a].status = "active" /\ artifact'[a].effective = TRUE
        /\ word = "approved"
     \/ /\ artifact'[a].status = "rejected" /\ artifact'[a].effective = FALSE
        /\ word = "rejected"
  /\ \A b \in Artifacts \ {a} : Undecided(b)

LEMMA DecidedAdds ==
  ASSUME ArtifactShape, ArtifactSettled, NEW a \in Artifacts, NEW p, NEW word,
         Decided(a, word, p)
  PROVE  ArtifactAdds(a, Entry("artifact", a, word, p)) /\ ArtifactSettled'
<1> USE DEF Decided
<1>1. ~artifact[a].effective
  BY DEF ArtifactSettled
<1>2. ArtifactSays(a, artifact[a]) = {Entry("artifact", a, "requested", artifact[a].by)}
  BY <1>1 DEF ArtifactSays, When
<1>3. ArtifactSays(a, artifact'[a]) =
        {Entry("artifact", a, "requested", artifact[a].by), Entry("artifact", a, word, p)}
  BY DEF ArtifactSays, When
<1>4. Entry("artifact", a, word, p) # Entry("artifact", a, "requested", artifact[a].by)
  BY DEF Entry
<1>5. ArtifactSettled'
  BY UndecidedSaysTheSame DEF ArtifactSettled
<1>6. QED
  BY <1>2, <1>3, <1>4, <1>5, UndecidedSaysTheSame DEF ArtifactAdds

LEMMA RequestAdds ==
  ASSUME ArtifactShape, ArtifactSettled, NEW t \in Threads, NEW p \in People,
         RequestArtifact(t, p)
  PROVE  /\ \E r, a : a \in Artifacts /\ ToRecord(t, r) /\ ArtifactAdds(a, r)
         /\ ArtifactSettled'
<1>1. PICK a \in Artifacts :
        /\ artifact[a].status = "absent"
        /\ artifact' = [artifact EXCEPT ![a].status = "pending", ![a].by = p]
        /\ ToRecord(t, Entry("artifact", a, "requested", p))
  BY DEF RequestArtifact
<1>2. /\ artifact[a] = NoArtifact /\ \A b \in Artifacts \ {a} : artifact'[b] = artifact[b]
      /\ artifact'[a].status = "pending" /\ artifact'[a].by = p /\ artifact'[a].effective = FALSE
  BY <1>1 DEF ArtifactShape, ArtifactRow, NoArtifact
<1>3. ArtifactSays(a, artifact[a]) = {}
  BY <1>2 DEF NoArtifact, ArtifactSays, When
<1>4. ArtifactSays(a, artifact'[a]) = {Entry("artifact", a, "requested", p)}
  BY <1>2 DEF ArtifactSays, When
<1>5. ArtifactSettled'
  BY <1>2 DEF ArtifactSettled
<1>6. QED
  BY <1>1, <1>2, <1>3, <1>4, <1>5 DEF ArtifactAdds

LEMMA RejectAdds ==
  ASSUME ArtifactShape, ArtifactSettled, NEW t \in Threads, NEW a \in Artifacts,
         NEW p \in People, RejectArtifact(t, a, p)
  PROVE  /\ \E r : ToRecord(t, r) /\ ArtifactAdds(a, r)
         /\ ArtifactSettled'
<1>1. /\ artifact[a].status = "pending"
      /\ artifact' = [artifact EXCEPT ![a].status = "rejected", ![a].decider = p]
      /\ ToRecord(t, Entry("artifact", a, "rejected", p))
  BY DEF RejectArtifact
<1>2. artifact[a].effective = FALSE
  BY <1>1 DEF ArtifactSettled, ArtifactShape, ArtifactRow
<1>3. /\ artifact'[a].status = "rejected" /\ artifact'[a].decider = p
      /\ artifact'[a].by = artifact[a].by /\ artifact'[a].effective = FALSE
      /\ \A b \in Artifacts \ {a} : artifact'[b] = artifact[b]
  BY <1>1, <1>2 DEF ArtifactShape, ArtifactRow
<1>4. Decided(a, "rejected", p)
  BY <1>1, <1>3 DEF Decided, Undecided
<1>5. QED
  BY <1>1, <1>4, DecidedAdds

LEMMA CompletionAdds ==
  ASSUME ArtifactShape, ArtifactSettled, NEW t \in Threads, activation[t].artifact \in Artifacts,
         Owns(t), artifact' = Activated(activation[t].artifact)
  PROVE  ArtifactAdds(activation[t].artifact, Approval(t)) /\ ArtifactSettled'
<1> DEFINE a == activation[t].artifact
<1>1. artifact[a].status = "materializing" /\ artifact[a].decider = activation[t].who
  BY DEF Owns
<1>2. /\ artifact'[a].status = "active" /\ artifact'[a].effective = TRUE
      /\ artifact'[a].by = artifact[a].by /\ artifact'[a].decider = activation[t].who
  BY <1>1 DEF Activated, ArtifactShape, ArtifactRow
<1>3. \A b \in Artifacts \ {a} : Undecided(b)
  BY DEF Activated, ArtifactShape, ArtifactRow, Undecided
<1> HIDE DEF a
<1>4. a \in Artifacts /\ Approval(t) = Entry("artifact", a, "approved", activation[t].who)
  BY DEF a, Approval
<1>5. Decided(a, "approved", activation[t].who)
  BY <1>1, <1>2, <1>3 DEF Decided
<1>6. ArtifactAdds(a, Approval(t)) /\ ArtifactSettled'
  BY <1>4, <1>5, DecidedAdds
<1>7. QED
  BY <1>6 DEF a

\* The other steps of an approval leave no word.
Preparing(t) ==
  \/ \E p \in People, a \in Artifacts : ClaimActivation(t, a, p)
  \/ Snapshot(t) \/ Materialize(t) \/ MaterializeFails(t) \/ LoseClaim(t)
  \/ CompleteFails(t) /\ UNCHANGED <<artifact, lost>>
  \/ Undo(t) \/ UndoFails(t) \/ Abandon(t) \/ ActivationRaises(t)

\* The completion committed although the thread was told otherwise.
Unheard(t) ==
  /\ CompleteFails(t)
  /\ Owns(t) /\ artifact' = Activated(activation[t].artifact)
  /\ lost' = lost \cup {Approval(t)}

LEMMA PreparingIsUndecided ==
  ASSUME ArtifactInv, NEW t \in Threads, Preparing(t)
  PROVE  \A a \in Artifacts : Undecided(a)
<1> USE DEF ArtifactInv
<1>1. CASE \E p \in People, a \in Artifacts : ClaimActivation(t, a, p)
  <2>1. PICK p \in People, a \in Artifacts : ClaimActivation(t, a, p)
    BY <1>1
  <2>2. /\ artifact[a].status \in {"pending", "materializing"}
        /\ artifact'[a].status = "materializing" /\ artifact'[a].by = artifact[a].by
        /\ artifact'[a].effective = artifact[a].effective
        /\ \A b \in Artifacts \ {a} : artifact'[b] = artifact[b]
    BY <2>1 DEF ClaimActivation, MayClaim, ArtifactShape, ArtifactRow
  <2>3. QED
    BY <2>2 DEF Undecided
<1>2. CASE Abandon(t)
  <2>1. CASE ~Owns(t)
    BY <1>2, <2>1 DEF Abandon, Undecided
  <2>2. CASE Owns(t)
    <3> DEFINE a == activation[t].artifact
    <3>1. a \in Artifacts /\ artifact[a].status = "materializing"
      BY <1>2, <2>2 DEF Abandon, Activating, ActivationShape, Owns
    <3>2. /\ artifact'[a].status = "pending" /\ artifact'[a].by = artifact[a].by
          /\ artifact'[a].effective = artifact[a].effective
          /\ \A b \in Artifacts : b # a => artifact'[b] = artifact[b]
      BY <1>2, <2>2, <3>1 DEF Abandon, ArtifactShape, ArtifactRow
    <3> HIDE DEF a
    <3>3. QED
      BY <3>1, <3>2 DEF Undecided
  <2>3. QED
    BY <2>1, <2>2
<1>3. CASE \/ Snapshot(t) \/ Materialize(t) \/ MaterializeFails(t) \/ LoseClaim(t)
           \/ CompleteFails(t) /\ UNCHANGED <<artifact, lost>>
           \/ Undo(t) \/ UndoFails(t) \/ ActivationRaises(t)
  <2>1. artifact' = artifact
    BY <1>3 DEF Snapshot, Materialize, MaterializeFails, LoseClaim, Undo, UndoFails,
       ActivationRaises, artifactVars
  <2>2. QED
    BY <2>1 DEF Undecided
<1>4. QED
  BY <1>1, <1>2, <1>3 DEF Preparing

-----------------------------------------------------------------------------
(* The reports of outcomes.                                                *)

\* A thread that has looked a recommendation up holds the report it is to store.
Reports ==
  \A t \in Threads : Stage(t) = "report" =>
    \E e \in Events, content \in Contents : call[t].record = Entry("outcome", e, content, Nobody)

OutcomeShape == observation \in [Events -> Contents \cup {Unreported}]

LEMMA ReportAdds ==
  ASSUME OutcomeShape, Reports, NEW t \in Threads, RecordOutcome(t)
  PROVE  /\ call[t].record \notin OutcomeEvents
         /\ OutcomeEvents' = OutcomeEvents \cup {call[t].record}
<1> USE OutcomeMonitoringAssumption
<1>1. PICK e \in Events, content \in Contents :
        call[t].record = Entry("outcome", e, content, Nobody)
  BY DEF RecordOutcome, Reports
<1>2. /\ observation[e] = Unreported
      /\ observation' = [observation EXCEPT ![e] = content]
  BY <1>1 DEF RecordOutcome, Insertable, Reported, Entry
<1>3. /\ observation'[e] = content /\ content # Unreported
      /\ \A f \in Events \ {e} : observation'[f] = observation[f]
  BY <1>2 DEF OutcomeShape
<1>4. call[t].record \notin OutcomeEvents
  <2>1. \A x \in OutcomeEvents : \E f \in Events : observation[f] # Unreported /\ x.subject = f
    BY DEF OutcomeEvents, Entry
  <2>2. call[t].record.subject = e
    BY <1>1 DEF Entry
  <2>3. QED
    BY <1>2, <2>1, <2>2
<1>5. \A x : x \in OutcomeEvents' <=> x \in OutcomeEvents \/ x = call[t].record
  <2>1. \A x : x \in OutcomeEvents <=>
          \E f \in Events : observation[f] # Unreported
                           /\ x = Entry("outcome", f, observation[f], Nobody)
    BY DEF OutcomeEvents
  <2>2. \A x : x \in OutcomeEvents' <=>
          \E f \in Events : observation'[f] # Unreported
                           /\ x = Entry("outcome", f, observation'[f], Nobody)
    BY DEF OutcomeEvents
  <2>3. QED
    BY <1>1, <1>2, <1>3, <2>1, <2>2
<1>6. QED
  BY <1>4, <1>5

\* The three tables speak of different things.
LEMMA ServicesApart ==
  /\ \A r \in ControlEvents : r.service = "control"
  /\ \A r \in ArtifactEvents : r.service = "artifact"
  /\ \A r \in OutcomeEvents : r.service = "outcome"
<1>1. \A r \in ControlEvents : r.service = "control"
  BY ControlEventsByRow, RowsSpeakForThemselves
<1>2. \A r \in ArtifactEvents : r.service = "artifact"
  BY ArtifactEventsByRow, RowsSpeakForThemselves
<1>3. \A r \in OutcomeEvents : r.service = "outcome"
  BY DEF OutcomeEvents, Entry
<1>4. QED
  BY <1>1, <1>2, <1>3

-----------------------------------------------------------------------------
(* What a step does to the tables' word and to the records in hand.        *)

\* What the rows are known to be when a thread takes its next step.
RowsInv ==
  /\ CallShape
  /\ ControlShape /\ ControlSettled
  /\ ArtifactInv /\ ArtifactSettled
  /\ OutcomeShape /\ Reports

Adds(r) == r \notin Committed /\ Committed' = Committed \cup {r}
OthersStay(t) == \A u \in Threads \ {t} : call'[u] = call[u]
\* A thread that neither holds a record nor comes to hold one.
Quiet(t) == Stage(t) \notin Recording /\ call'[t].stage \notin Recording /\ OthersStay(t)

Commits(t, r) ==
  /\ Stage(t) \notin Recording /\ ToRecord(t, r) /\ Adds(r)
  /\ UNCHANGED <<ledger, lost, erased>>
CommitsUnheard(t, r) ==
  /\ Quiet(t) /\ Adds(r)
  /\ lost' = lost \cup {r} /\ UNCHANGED <<ledger, erased>>
Silent ==
  /\ (\E t \in Threads : Quiet(t)) \/ call' = call
  /\ Committed' = Committed /\ UNCHANGED <<ledger, lost, erased>>
Records ==
  /\ Committed' = Committed /\ UNCHANGED erased
  /\ \/ \E t \in Threads : ReadHead(t) \/ Insert(t)
     \/ \E threads \in SUBSET Threads : Drop(threads) /\ UNCHANGED ledger
Erases ==
  /\ UNCHANGED ledgerVars /\ erased' = TRUE
  /\ \A r : r \in Committed' <=> r \in Committed /\ r.service # "outcome"
RecordStep ==
  (\E t \in Threads : \E r : Commits(t, r) \/ CommitsUnheard(t, r)) \/ Silent \/ Records \/ Erases

LEMMA ControlStepRecords ==
  ASSUME RowsInv, NEW t \in Threads, ControlStep(t), UNCHANGED <<artifactVars, outcomeVars>>
  PROVE  RecordStep
<1>1. PICK r, c : c \in Controls /\ ToRecord(t, r) /\ ControlAdds(c, r)
  BY ControlCommits DEF RowsInv
<1>2. Stage(t) = "idle"
  BY ControlCommits DEF RowsInv
<1>3. UNCHANGED <<ledger, lost, erased>>
  BY DEF ControlStep, Request, Decide, EmergencyDisable, outcomeVars
<1>4. r \in ControlEvents' /\ r \notin ControlEvents /\ ControlEvents' = ControlEvents \cup {r}
  BY <1>1, ControlAdded
<1>5. r.service = "control"
  BY <1>1, RowsSpeakForThemselves DEF ControlAdds
<1>6. ArtifactEvents' = ArtifactEvents /\ OutcomeEvents' = OutcomeEvents
  BY DEF artifactVars, outcomeVars, ArtifactEvents, OutcomeEvents, Versions
<1>7. Adds(r)
  BY <1>4, <1>5, <1>6, ServicesApart DEF Adds, Committed
<1>8. QED
  BY <1>1, <1>2, <1>3, <1>7 DEF RecordStep, Commits, Recording

LEMMA ArtifactStepRecords ==
  ASSUME RowsInv, NEW t \in Threads, ArtifactStep(t), UNCHANGED <<control, outcomeVars>>
  PROVE  RecordStep /\ ArtifactSettled'
<1> USE DEF RowsInv, ArtifactInv
<1>1. ControlEvents' = ControlEvents /\ OutcomeEvents' = OutcomeEvents /\ erased' = erased
  BY DEF outcomeVars, ControlEvents, OutcomeEvents, IsEmergency, InStatus
<1>2. ledger' = ledger
  BY ArtifactOutside
<1>3. ASSUME NEW a \in Artifacts, NEW r, ArtifactAdds(a, r)
      PROVE  Adds(r)
  <2>1. r \notin ArtifactEvents /\ ArtifactEvents' = ArtifactEvents \cup {r}
    BY <1>3, ArtifactAdded
  <2>2. r.service = "artifact"
    BY <1>3, RowsSpeakForThemselves DEF ArtifactAdds
  <2>3. QED
    BY <1>1, <2>1, <2>2, ServicesApart DEF Adds, Committed
<1>4. ASSUME NEW a \in Artifacts, NEW r, ArtifactAdds(a, r), ToRecord(t, r),
             Stage(t) \notin Recording, lost' = lost
      PROVE  RecordStep
  BY <1>1, <1>2, <1>3, <1>4 DEF RecordStep, Commits
<1>5. CASE \E p \in People : RequestArtifact(t, p)
  <2>1. lost' = lost /\ Stage(t) \notin Recording
    BY <1>5 DEF RequestArtifact, Begin, Recording
  <2>2. QED
    BY <1>4, <1>5, <2>1, RequestAdds
<1>6. CASE \E p \in People, a \in Artifacts : RejectArtifact(t, a, p)
  <2>1. lost' = lost /\ Stage(t) \notin Recording
    BY <1>6 DEF RejectArtifact, Begin, Recording
  <2>2. QED
    BY <1>4, <1>6, <2>1, RejectAdds
<1>7. CASE Complete(t) \/ Unheard(t)
  <2>1. /\ Stage(t) = "applied" /\ Owns(t)
        /\ artifact' = Activated(activation[t].artifact)
    BY <1>7 DEF Complete, Unheard, CompleteFails
  <2>2. activation[t].artifact \in Artifacts
    BY <2>1 DEF ActivationShape, Activating
  <2>3. ArtifactAdds(activation[t].artifact, Approval(t)) /\ ArtifactSettled'
    BY <2>1, <2>2, CompletionAdds
  <2>4. CASE Complete(t)
    <3>1. ToRecord(t, Approval(t)) /\ lost' = lost /\ Stage(t) \notin Recording
      BY <2>1, <2>4 DEF Complete, Recording
    <3>2. QED
      BY <1>4, <2>2, <2>3, <3>1
  <2>5. CASE Unheard(t)
    <3>1. GotoStage(t, "undo") /\ lost' = lost \cup {Approval(t)}
      BY <2>5 DEF Unheard, CompleteFails
    <3>2. Quiet(t)
      BY <2>1, <3>1 DEF Quiet, OthersStay, GotoStage, CallShape, Recording
    <3>3. Adds(Approval(t))
      BY <1>3, <2>2, <2>3
    <3>4. CommitsUnheard(t, Approval(t))
      BY <1>1, <1>2, <3>1, <3>2, <3>3 DEF CommitsUnheard
    <3>5. QED
      BY <2>3, <3>4 DEF RecordStep
  <2>6. QED
    BY <1>7, <2>4, <2>5
<1>8. CASE Preparing(t)
  <2>1. \A a \in Artifacts : Undecided(a)
    BY <1>8, PreparingIsUndecided
  <2>2. /\ \A a \in Artifacts : ArtifactSays(a, artifact'[a]) = ArtifactSays(a, artifact[a])
        /\ ArtifactSettled'
    BY <2>1, UndecidedSaysTheSame DEF ArtifactSettled
  <2>3. \A r : r \in ArtifactEvents' <=> r \in ArtifactEvents
    BY <2>2, ArtifactEventsByRow
  <2>4. Committed' = Committed
    BY <1>1, <2>3 DEF Committed
  <2>5. lost' = lost
    BY <1>8 DEF Preparing, ClaimActivation, Snapshot, Materialize, MaterializeFails, LoseClaim,
       CompleteFails, Undo, UndoFails, Abandon, ActivationRaises
  <2>6. /\ Stage(t) \notin Recording
        /\ \/ \E stage : stage \notin Recording /\ GotoStage(t, stage)
           \/ call' = [call EXCEPT ![t] = Idle]
    BY <1>8 DEF Preparing, ClaimActivation, Begin, Snapshot, Materialize, MaterializeFails,
       LoseClaim, CompleteFails, Undo, UndoFails, Abandon, ActivationRaises, Finished, Recording
  <2>7. Quiet(t)
    BY <2>6 DEF Quiet, OthersStay, GotoStage, CallShape, Recording, Idle
  <2>8. QED
    BY <1>1, <1>2, <2>2, <2>4, <2>5, <2>7 DEF RecordStep, Silent
<1>9. \/ \E p \in People : RequestArtifact(t, p)
      \/ \E p \in People, a \in Artifacts : RejectArtifact(t, a, p)
      \/ Complete(t) \/ Unheard(t)
      \/ Preparing(t)
  <2>1. CompleteFails(t) => Unheard(t) \/ Preparing(t)
    BY DEF Preparing, Unheard, CompleteFails
  <2>2. QED
    BY <2>1 DEF ArtifactStep, Preparing
<1>10. QED
  BY <1>5, <1>6, <1>7, <1>8, <1>9

\* A report, its storing, its refusal, and the deletion of the customer.
LEMMA OutcomeStepRecords ==
  ASSUME RowsInv, NEW t \in Threads, OutcomeStep(t), UNCHANGED <<control, artifactVars>>
  PROVE  RecordStep
<1> USE DEF RowsInv
<1>1. ControlEvents' = ControlEvents /\ ArtifactEvents' = ArtifactEvents
  BY DEF artifactVars, ControlEvents, ArtifactEvents, IsEmergency, InStatus, Versions
<1>2. CASE RecordOutcome(t)
  <2>1. Adds(call[t].record)
    <3>1. call[t].record.service = "outcome"
      <4>1. PICK e, content : call[t].record = Entry("outcome", e, content, Nobody)
        BY <1>2 DEF RecordOutcome, Reports
      <4>2. QED
        BY <4>1 DEF Entry
    <3>2. QED
      BY <1>1, <1>2, <3>1, ReportAdds, ServicesApart DEF Adds, Committed
  <2>2. QED
    BY <1>2, <2>1 DEF RecordStep, Commits, RecordOutcome, Recording
<1>3. CASE (\E e \in Events, content \in Contents : LookUp(t, e, content)) \/ RefuseOutcome(t)
  <2>1. UNCHANGED <<ledger, lost, observation, erased>>
    BY <1>3 DEF LookUp, RefuseOutcome, outcomeVars
  <2>2. Stage(t) \notin Recording /\ \E record, stage :
          /\ stage \in {"report", "idle"}
          /\ call' = [call EXCEPT ![t] = [stage |-> stage, record |-> record, head |-> Genesis]]
    BY <1>3 DEF LookUp, RefuseOutcome, Begin, Idle, Recording
  <2>3. Quiet(t)
    BY <2>2 DEF Quiet, OthersStay, CallShape, Recording
  <2>4. Committed' = Committed
    BY <1>1, <2>1 DEF Committed, OutcomeEvents
  <2>5. QED
    BY <2>1, <2>3, <2>4 DEF RecordStep, Silent
<1>4. QED
  BY <1>2, <1>3 DEF OutcomeStep

LEMMA EraseRecords ==
  ASSUME EraseCustomer, UNCHANGED <<control, artifactVars>>
  PROVE  RecordStep
<1>1. ControlEvents' = ControlEvents /\ ArtifactEvents' = ArtifactEvents
  BY DEF artifactVars, ControlEvents, ArtifactEvents, IsEmergency, InStatus, Versions
<1>2. OutcomeEvents' = {}
  BY DEF EraseCustomer, OutcomeEvents
<1>3. \A r : r \in Committed' <=> r \in Committed /\ r.service # "outcome"
  BY <1>1, <1>2, ServicesApart DEF Committed
<1>4. QED
  BY <1>3 DEF RecordStep, Erases, EraseCustomer

\* A claim that ages, and a process that dies.
LEMMA EventRecords ==
  ASSUME RowsInv, UNCHANGED <<control, outcomeVars>>,
         (\E a \in Artifacts : Elapse(a)) \/ (\E p \in Processes : Restart(p))
  PROVE  RecordStep /\ ArtifactSettled'
<1> USE DEF RowsInv, ArtifactInv
<1>1. ControlEvents' = ControlEvents /\ OutcomeEvents' = OutcomeEvents /\ erased' = erased
  BY DEF outcomeVars, ControlEvents, OutcomeEvents, IsEmergency, InStatus
<1>2. \A a \in Artifacts : Undecided(a)
  <2>1. CASE \E a \in Artifacts : Elapse(a)
    <3>1. PICK a \in Artifacts : Elapse(a)
      BY <2>1
    <3>2. /\ artifact[a].status = "materializing" /\ artifact'[a].status = "materializing"
          /\ artifact'[a].by = artifact[a].by /\ artifact'[a].effective = artifact[a].effective
          /\ \A b \in Artifacts \ {a} : artifact'[b] = artifact[b]
      BY <3>1 DEF Elapse, ArtifactShape, ArtifactRow
    <3>3. QED
      BY <3>2 DEF Undecided
  <2>2. CASE \E p \in Processes : Restart(p)
    BY <2>2 DEF Restart, Undecided
  <2>3. QED
    BY <2>1, <2>2
<1>3. /\ \A a \in Artifacts : ArtifactSays(a, artifact'[a]) = ArtifactSays(a, artifact[a])
      /\ ArtifactSettled'
  BY <1>2, UndecidedSaysTheSame DEF ArtifactSettled
<1>4. Committed' = Committed
  <2>1. \A r : r \in ArtifactEvents' <=> r \in ArtifactEvents
    BY <1>3, ArtifactEventsByRow
  <2>2. QED
    BY <1>1, <2>1 DEF Committed
<1>5. CASE \E a \in Artifacts : Elapse(a)
  BY <1>1, <1>3, <1>4, <1>5 DEF Elapse, ledgerVars, RecordStep, Silent
<1>6. CASE \E p \in Processes : Restart(p)
  <2>1. \E threads \in SUBSET Threads : Drop(threads) /\ UNCHANGED ledger
    BY <1>6 DEF Restart
  <2>2. QED
    BY <1>1, <1>3, <1>4, <2>1 DEF RecordStep, Records
<1>7. QED
  BY <1>5, <1>6

LEMMA LedgerStepRecords ==
  ASSUME NEW t \in Threads, LedgerStep(t), UNCHANGED <<control, artifactVars, outcomeVars>>
  PROVE  RecordStep
<1>1. Committed' = Committed /\ erased' = erased
  BY DEF artifactVars, outcomeVars, Committed, ControlEvents, ArtifactEvents, OutcomeEvents,
     IsEmergency, InStatus, Versions
<1>2. CASE AppendFails(t)
  <2>1. \E threads \in SUBSET Threads : Drop(threads) /\ UNCHANGED ledger
    BY <1>2 DEF AppendFails
  <2>2. QED
    BY <1>1, <2>1 DEF RecordStep, Records
<1>3. CASE ReadHead(t) \/ Insert(t)
  BY <1>1, <1>3 DEF RecordStep, Records
<1>4. QED
  BY <1>2, <1>3 DEF LedgerStep

\* Every step of the system is one of these.
LEMMA EveryStepRecords ==
  ASSUME RowsInv, [Next]_vars
  PROVE  RecordStep
<1>1. CASE Ledger
  BY <1>1, LedgerStepRecords DEF Ledger
<1>2. CASE Control
  BY <1>2, ControlStepRecords DEF Control
<1>3. CASE Artifact
  BY <1>3, ArtifactStepRecords, EventRecords DEF Artifact
<1>4. CASE Outcome
  BY <1>4, OutcomeStepRecords, EraseRecords DEF Outcome
<1>5. CASE UNCHANGED vars
  <2>1. Committed' = Committed
    BY <1>5 DEF vars, artifactVars, outcomeVars, Committed, ControlEvents, ArtifactEvents,
       OutcomeEvents, IsEmergency, InStatus, Versions
  <2>2. QED
    BY <1>5, <2>1 DEF vars, ledgerVars, outcomeVars, RecordStep, Silent
<1>6. QED
  BY <1>1, <1>2, <1>3, <1>4, <1>5 DEF Next

-----------------------------------------------------------------------------
(* The rows stay what they are known to be.                                *)

LEMMA RowsStart == Init => RowsInv
<1> SUFFICES ASSUME Init
             PROVE  RowsInv
  OBVIOUS
<1>1. CallShape /\ ControlShape /\ ArtifactInv
  BY LedgerStarts, ControlStarts, ArtifactStarts DEF LedgerInv, ControlInv
<1>2. ControlSettled /\ ArtifactSettled
  BY DEF Init, ControlInit, ArtifactInit, ControlSettled, ArtifactSettled, NoControl, NoArtifact
<1>3. OutcomeShape
  BY DEF Init, OutcomeInit, OutcomeShape
<1>4. Reports
  BY DEF Init, LedgerInit, Reports, Stage, Idle
<1>5. QED
  BY <1>1, <1>2, <1>3, <1>4 DEF RowsInv

\* Nobody holds a report who did not.
NobodyReports == \A u \in Threads : Stage(u)' = "report" => call'[u] = call[u]

\* What a control or an artifact is recorded or activated with is no report,
LEMMA StepsReportNothing ==
  ASSUME CallShape, NEW t \in Threads, ControlStep(t) \/ ArtifactStep(t) \/ LedgerStep(t)
  PROVE  NobodyReports
<1>1. CASE ControlStep(t)
  <2>1. PICK record : ToRecord(t, record)
    BY <1>1 DEF ControlStep, Request, Decide, EmergencyDisable
  <2>2. QED
    BY <2>1 DEF ToRecord, CallShape, NobodyReports, Stage
<1>2. CASE ArtifactStep(t)
  <2>1. \/ \E record : ToRecord(t, record)
        \/ \E stage : stage # "report" /\ GotoStage(t, stage)
        \/ call' = [call EXCEPT ![t] = Idle]
    <3>1. CASE \/ \E p \in People : RequestArtifact(t, p)
               \/ \E p \in People, a \in Artifacts : RejectArtifact(t, a, p)
               \/ Complete(t)
      BY <3>1 DEF RequestArtifact, RejectArtifact, Complete
    <3>2. CASE \/ \E p \in People, a \in Artifacts : ClaimActivation(t, a, p)
               \/ Snapshot(t) \/ Materialize(t) \/ MaterializeFails(t) \/ LoseClaim(t)
               \/ CompleteFails(t) \/ Undo(t)
      BY <3>2 DEF ClaimActivation, Snapshot, Materialize, MaterializeFails, LoseClaim,
         CompleteFails, Undo
    <3>3. CASE UndoFails(t) \/ Abandon(t) \/ ActivationRaises(t)
      BY <3>3 DEF UndoFails, Abandon, ActivationRaises, Finished
    <3>4. QED
      BY <1>2, <3>1, <3>2, <3>3 DEF ArtifactStep
  <2>2. QED
    BY <2>1 DEF ToRecord, GotoStage, Idle, CallShape, NobodyReports, Stage
<1>3. CASE LedgerStep(t)
  BY <1>3 DEF LedgerStep, ReadHead, Insert, AppendFails, Drop, Idle, CallShape, NobodyReports, Stage
<1>4. QED
  BY <1>1, <1>2, <1>3

\* nor is a call that ends with its process, or that is left alone;
LEMMA EventsReportNothing ==
  ASSUME CallShape, \/ EraseCustomer
                    \/ \E a \in Artifacts : Elapse(a)
                    \/ \E p \in Processes : Restart(p)
                    \/ UNCHANGED vars
  PROVE  NobodyReports
BY DEF EraseCustomer, Elapse, Restart, Drop, Idle, vars, ledgerVars, CallShape, NobodyReports, Stage

\* a report is taken up by its look-up alone, and stored as it was taken up.
LEMMA OutcomeKeepsRows ==
  ASSUME CallShape, OutcomeShape, Reports, NEW t \in Threads, OutcomeStep(t)
  PROVE  OutcomeShape' /\ Reports'
<1>1. CASE \E e \in Events, content \in Contents : LookUp(t, e, content)
  <2>1. PICK e \in Events, content \in Contents : LookUp(t, e, content)
    BY <1>1
  <2>2. /\ \A u \in Threads \ {t} : call'[u] = call[u]
        /\ call'[t].record = Entry("outcome", e, content, Nobody)
    BY <2>1 DEF LookUp, CallShape
  <2>3. QED
    BY <2>1, <2>2 DEF LookUp, outcomeVars, OutcomeShape, Reports, Stage
<1>2. CASE RecordOutcome(t)
  <2>1. PICK e \in Events, content \in Contents :
          call[t].record = Entry("outcome", e, content, Nobody)
    BY <1>2 DEF RecordOutcome, Reports
  <2>2. observation' = [observation EXCEPT ![e] = content]
    BY <1>2, <2>1 DEF RecordOutcome, Reported, Entry
  <2>3. Reports'
    BY <1>2 DEF RecordOutcome, ToRecord, CallShape, Reports, Stage
  <2>4. QED
    BY <2>2, <2>3 DEF OutcomeShape
<1>3. CASE RefuseOutcome(t)
  BY <1>3 DEF RefuseOutcome, outcomeVars, Idle, CallShape, OutcomeShape, Reports, Stage
<1>4. QED
  BY <1>1, <1>2, <1>3 DEF OutcomeStep

LEMMA RowsInductive ==
  ASSUME LedgerInv, ControlInv, RowsInv, [Next]_vars
  PROVE  RowsInv'
<1> USE DEF RowsInv
<1>1. CallShape' /\ ControlShape' /\ ArtifactInv'
  BY LedgerInductive, ControlInductive, ArtifactInductive DEF LedgerInv, ControlInv
<1>2. ControlSettled'
  <2>1. CASE \E t \in Threads : ControlStep(t)
    BY <2>1, ControlCommits
  <2>2. CASE control' = control
    BY <2>2 DEF ControlSettled
  <2>3. QED
    BY <2>1, <2>2, ControlElsewhere
<1>3. ArtifactSettled'
  <2>1. CASE Artifact
    BY <2>1, ArtifactStepRecords, EventRecords DEF Artifact
  <2>2. CASE artifact' = artifact
    BY <2>2 DEF ArtifactSettled
  <2>3. QED
    BY <2>1, <2>2 DEF Next, Ledger, Control, Outcome, vars, artifactVars
<1>4. OutcomeShape' /\ Reports'
  <2>1. CASE \E t \in Threads : OutcomeStep(t)
    BY <2>1, OutcomeKeepsRows
  <2>2. ASSUME NobodyReports, observation' = observation \/ EraseCustomer
        PROVE  OutcomeShape' /\ Reports'
    BY <2>2 DEF NobodyReports, EraseCustomer, OutcomeShape, Reports, Stage
  <2>3. CASE EraseCustomer
    BY <2>2, <2>3, EventsReportNothing
  <2>4. CASE Ledger \/ Control \/ Artifact \/ UNCHANGED vars
    <3>1. observation' = observation
      BY <2>4 DEF Ledger, Control, Artifact, vars, outcomeVars
    <3>2. NobodyReports
      BY <2>4, StepsReportNothing, EventsReportNothing DEF Ledger, Control, Artifact
    <3>3. QED
      BY <2>2, <3>1, <3>2
  <2>5. QED
    BY <2>1, <2>3, <2>4 DEF Next, Outcome
<1>5. QED
  BY <1>1, <1>2, <1>3, <1>4

-----------------------------------------------------------------------------
(* No change goes without its record.                                      *)

Covered == Recorded \cup InHand \cup lost
HoldsRecord(t) == Stage(t) \in Recording

LEMMA InHandIsHeld ==
  /\ \A r : r \in InHand <=> \E t \in Threads : HoldsRecord(t) /\ call[t].record = r
  /\ \A r : r \in InHand' <=> \E t \in Threads : HoldsRecord(t)' /\ call'[t].record = r
<1>1. \A r : r \in InHand <=> \E t \in Threads : HoldsRecord(t) /\ call[t].record = r
  BY DEF InHand, HoldsRecord, Recording
<1>2. \A r : r \in InHand' <=> \E t \in Threads : HoldsRecord(t)' /\ call'[t].record = r
  BY DEF InHand, HoldsRecord, Recording, Stage
<1>3. QED
  BY <1>1, <1>2

\* Whoever comes to hold a record holds it, and the others hold what they held.
LEMMA HandTakesRecord ==
  ASSUME CallShape, NEW t \in Threads, NEW r, ToRecord(t, r)
  PROVE  /\ OthersStay(t) /\ HoldsRecord(t)' /\ call'[t].record = r
BY DEF ToRecord, CallShape, OthersStay, HoldsRecord, Recording, Stage

\* A record once covered stays so: it goes from a hand to the ledger, or is lost.
LEMMA CoverLasts ==
  ASSUME LedgerInv, RecordStep
  PROVE  Covered \subseteq Covered'
<1> USE DEF LedgerInv, Covered
<1>1. ASSUME NEW t \in Threads, OthersStay(t), ~HoldsRecord(t)
      PROVE  InHand \subseteq InHand'
  BY <1>1, InHandIsHeld DEF OthersStay, HoldsRecord, Stage
<1>2. CASE \E t \in Threads : \E r : Commits(t, r) \/ CommitsUnheard(t, r)
  <2>1. PICK t, r : t \in Threads /\ (Commits(t, r) \/ CommitsUnheard(t, r))
    BY <1>2
  <2>2. OthersStay(t) /\ ~HoldsRecord(t)
    BY <2>1, HandTakesRecord DEF Commits, CommitsUnheard, Quiet, HoldsRecord
  <2>3. ledger' = ledger /\ lost \subseteq lost'
    BY <2>1 DEF Commits, CommitsUnheard
  <2>4. QED
    BY <1>1, <2>1, <2>2, <2>3 DEF Recorded
<1>3. CASE Silent
  <2>1. InHand \subseteq InHand'
    <3>1. CASE \E t \in Threads : Quiet(t)
      BY <1>1, <3>1 DEF Quiet, HoldsRecord
    <3>2. CASE call' = call
      BY <3>2 DEF InHand, Stage
    <3>3. QED
      BY <1>3, <3>1, <3>2 DEF Silent
  <2>2. QED
    BY <1>3, <2>1 DEF Silent, Recorded
<1>4. CASE Records
  <2>1. CASE \E t \in Threads : ReadHead(t)
    <3>1. PICK t \in Threads : ReadHead(t)
      BY <2>1
    <3>2. OthersStay(t) /\ HoldsRecord(t)' /\ call'[t].record = call[t].record
      BY <3>1 DEF ReadHead, CallShape, OthersStay, HoldsRecord, Recording, Stage
    <3>3. InHand \subseteq InHand'
      BY <3>2, InHandIsHeld DEF OthersStay, HoldsRecord, Stage
    <3>4. QED
      BY <3>1, <3>3 DEF ReadHead, Recorded
  <2>2. CASE \E t \in Threads : Insert(t)
    <3>1. PICK t \in Threads : Insert(t)
      BY <2>2
    <3>2. OthersStay(t)
      BY <3>1 DEF Insert, OthersStay
    <3>3. Recorded' = Recorded \cup {call[t].record}
      <4>1. /\ DOMAIN ledger' = 1 .. Len(ledger) + 1 /\ DOMAIN ledger = 1 .. Len(ledger)
            /\ Len(ledger) \in Nat
            /\ \A i \in 1 .. Len(ledger) : ledger'[i] = ledger[i]
            /\ ledger'[Len(ledger) + 1] = [record |-> call[t].record, previous |-> call[t].head]
        BY <3>1, LongerChain DEF Insert
      <4>2. QED
        BY <4>1 DEF Recorded
    <3>4. \A r \in InHand : r \in InHand' \/ r = call[t].record
      BY <3>2, InHandIsHeld DEF OthersStay, HoldsRecord, Stage
    <3>5. QED
      BY <3>1, <3>3, <3>4 DEF Insert
  <2>3. CASE \E threads \in SUBSET Threads : Drop(threads) /\ UNCHANGED ledger
    <3>1. PICK threads \in SUBSET Threads : Drop(threads) /\ UNCHANGED ledger
      BY <2>3
    <3>2. \A u \in Threads \ threads : call'[u] = call[u]
      BY <3>1 DEF Drop
    <3>3. \A u \in threads : HoldsRecord(u) => call[u].record \in lost'
      BY <3>1 DEF Drop, HoldsRecord, Recording
    <3>4. InHand \subseteq InHand' \cup lost'
      BY <3>2, <3>3, InHandIsHeld DEF HoldsRecord, Stage
    <3>5. QED
      BY <3>1, <3>4 DEF Drop, Recorded
  <2>4. QED
    BY <1>4, <2>1, <2>2, <2>3 DEF Records
<1>5. CASE Erases
  BY <1>5 DEF Erases, ledgerVars, InHand, Recorded, Stage
<1>6. QED
  BY <1>2, <1>3, <1>4, <1>5 DEF RecordStep

LEMMA ChangesCovered ==
  ASSUME LedgerInv, ChangesAreRecorded, RecordStep
  PROVE  ChangesAreRecorded'
<1>1. Committed \subseteq Covered /\ Covered \subseteq Covered'
  BY CoverLasts DEF ChangesAreRecorded, Covered
<1>2. CASE \E t \in Threads : \E r : Commits(t, r) \/ CommitsUnheard(t, r)
  <2>1. PICK t, r : t \in Threads /\ (Commits(t, r) \/ CommitsUnheard(t, r))
    BY <1>2
  <2>2. Committed' = Committed \cup {r}
    BY <2>1 DEF Commits, CommitsUnheard, Adds
  <2>3. r \in Covered'
    <3>1. CASE Commits(t, r)
      <4>1. HoldsRecord(t)' /\ call'[t].record = r
        BY <2>1, <3>1, HandTakesRecord DEF Commits, LedgerInv
      <4>2. QED
        BY <2>1, <4>1, InHandIsHeld DEF Covered
    <3>2. CASE CommitsUnheard(t, r)
      BY <3>2 DEF CommitsUnheard, Covered
    <3>3. QED
      BY <2>1, <3>1, <3>2
  <2>4. QED
    BY <1>1, <2>2, <2>3 DEF ChangesAreRecorded, Covered
<1>3. CASE Silent \/ Records
  BY <1>1, <1>3 DEF Silent, Records, ChangesAreRecorded, Covered
<1>4. CASE Erases
  <2>1. Committed' \subseteq Committed
    BY <1>4 DEF Erases
  <2>2. QED
    BY <1>1, <2>1 DEF ChangesAreRecorded, Covered
<1>5. QED
  BY <1>2, <1>3, <1>4 DEF RecordStep

LEMMA NothingCommittedAtFirst == Init => Committed = {}
BY DEF Init, ControlInit, ArtifactInit, OutcomeInit, NoControl, NoArtifact, Committed,
   ControlEvents, ArtifactEvents, OutcomeEvents, IsEmergency, InStatus, Versions

\* Whatever the services' threads do, in any order and however many, and wherever a call
\* fails or a process dies: no committed request, decision, emergency or outcome is without
\* its record, unless a failure came between the change and the append
\* (the append_integrity_record calls of the three services).
THEOREM ChangesRecorded == Spec => []ChangesAreRecorded
<1> DEFINE Inv == LedgerInv /\ ControlInv /\ RowsInv /\ ChangesAreRecorded
<1>1. Init => Inv
  BY LedgerStarts, ControlStarts, RowsStart, NothingCommittedAtFirst DEF ChangesAreRecorded
<1>2. Inv /\ [Next]_vars => Inv'
  BY LedgerInductive, ControlInductive, RowsInductive, EveryStepRecords, ChangesCovered
<1>3. QED
  BY <1>1, <1>2, PTL DEF Spec

-----------------------------------------------------------------------------
(* The ledger tells the truth.                                             *)

\* What is in the ledger, and what a hand will add to it, is the word of a row or of an
\* erased customer; the word of a row is in one place alone.
Settled(r) == OfErased(r) \/ r \in Committed
InLedger(r) == \E i \in DOMAIN ledger : ledger[i].record = r
TruthInv ==
  /\ \A i \in DOMAIN ledger : Settled(ledger[i].record)
  /\ \A i, j \in DOMAIN ledger :
       ledger[i].record = ledger[j].record => i = j \/ OfErased(ledger[i].record)
  /\ \A t \in Threads : HoldsRecord(t) =>
       /\ Settled(call[t].record)
       /\ InLedger(call[t].record) => OfErased(call[t].record)
       /\ \A u \in Threads : HoldsRecord(u) /\ call[u].record = call[t].record
                              => u = t \/ OfErased(call[t].record)

LEMMA TruthIsTold ==
  ASSUME LedgerInv, TruthInv
  PROVE  LedgerTellsTruth
<1> SUFFICES ASSUME NEW i \in DOMAIN ledger, ~OfErased(ledger[i].record)
             PROVE  /\ ledger[i].record \in Committed
                    /\ \A j \in 1 .. i - 1 : ledger[j].record # ledger[i].record
  BY DEF LedgerTellsTruth
<1>1. ledger[i].record \in Committed
  BY DEF TruthInv, Settled
<1>2. DOMAIN ledger = 1 .. Len(ledger) /\ Len(ledger) \in Nat
  BY LenProperties DEF LedgerInv
<1>3. \A j \in 1 .. i - 1 : j \in DOMAIN ledger /\ j # i
  BY <1>2
<1>4. QED
  BY <1>1, <1>3 DEF TruthInv

\* A step after which the hands hold no more than they did, and the ledger stands.
LEMMA TruthStands ==
  ASSUME TruthInv, ledger' = ledger,
         \A r : Settled(r) => Settled(r)',
         \A r : OfErased(r) => OfErased(r)',
         \A t \in Threads : HoldsRecord(t)' => HoldsRecord(t) /\ call'[t].record = call[t].record
  PROVE  TruthInv'
<1>1. \A i \in DOMAIN ledger : Settled(ledger[i].record)'
  BY DEF TruthInv
<1>2. \A i, j \in DOMAIN ledger :
        ledger[i].record = ledger[j].record => i = j \/ OfErased(ledger[i].record)'
  BY DEF TruthInv
<1>3. \A t \in Threads : HoldsRecord(t)' =>
        /\ Settled(call[t].record)'
        /\ InLedger(call[t].record) => OfErased(call[t].record)'
        /\ \A u \in Threads : HoldsRecord(u)' /\ call'[u].record = call'[t].record
                               => u = t \/ OfErased(call[t].record)'
  BY DEF TruthInv
<1>4. QED
  BY <1>1, <1>2, <1>3 DEF TruthInv, InLedger, Settled, OfErased

\* A new change comes with a word nobody has spoken, and one thread to speak it.
LEMMA CommitTellsTruth ==
  ASSUME CallShape, TruthInv, NEW t \in Threads, NEW r, Commits(t, r)
  PROVE  TruthInv'
<1>1. /\ ledger' = ledger /\ erased' = erased /\ ~HoldsRecord(t)
      /\ r \notin Committed /\ Committed' = Committed \cup {r}
      /\ OthersStay(t) /\ call'[t].record = r
  BY HandTakesRecord DEF Commits, Adds, HoldsRecord
<1>2. \A x : (OfErased(x) => OfErased(x)') /\ (Settled(x) => Settled(x)')
  BY <1>1 DEF OfErased, Settled
<1>3. \A u \in Threads \ {t} : call'[u] = call[u] /\ (HoldsRecord(u)' => HoldsRecord(u))
  BY <1>1 DEF OthersStay, HoldsRecord, Stage
<1>4. /\ Settled(r)' /\ (InLedger(r) => OfErased(r)')
      /\ \A u \in Threads : HoldsRecord(u) /\ call[u].record = r => OfErased(r)'
  <2>1. Settled(r) => OfErased(r)'
    BY <1>1, <1>2 DEF Settled
  <2>2. InLedger(r) => Settled(r)
    BY DEF TruthInv, InLedger
  <2>3. \A u \in Threads : HoldsRecord(u) /\ call[u].record = r => Settled(r)
    BY DEF TruthInv
  <2>4. Settled(r)'
    BY <1>1 DEF Settled
  <2>5. QED
    BY <2>1, <2>2, <2>3, <2>4
<1>5. ASSUME NEW u \in Threads, HoldsRecord(u)'
      PROVE  /\ Settled(call[u].record)'
             /\ InLedger(call[u].record)' => OfErased(call[u].record)'
             /\ \A v \in Threads : HoldsRecord(v)' /\ call'[v].record = call'[u].record
                                  => v = u \/ OfErased(call[u].record)'
  <2>1. InLedger(call[u].record)' <=> InLedger(call'[u].record)
    BY <1>1 DEF InLedger
  <2>2. CASE u = t
    BY <1>1, <1>3, <1>4, <2>1, <2>2 DEF Settled, OfErased
  <2>3. CASE u # t
    <3>1. HoldsRecord(u) /\ call'[u] = call[u]
      BY <1>3, <1>5, <2>3
    <3>2. /\ Settled(call[u].record) /\ (InLedger(call[u].record) => OfErased(call[u].record))
          /\ \A v \in Threads : HoldsRecord(v) /\ call[v].record = call[u].record
                               => v = u \/ OfErased(call[u].record)
      BY <3>1 DEF TruthInv
    <3>3. \A v \in Threads : HoldsRecord(v)' /\ call'[v].record = call'[u].record
                             => v = u \/ OfErased(call[u].record)'
      BY <1>1, <1>2, <1>3, <1>4, <3>1, <3>2 DEF OfErased
    <3>4. QED
      BY <1>2, <2>1, <3>1, <3>2, <3>3 DEF OfErased, Settled
  <2>4. QED
    BY <2>2, <2>3
<1>6. \A i \in DOMAIN ledger' : Settled(ledger[i].record)'
  BY <1>1, <1>2 DEF TruthInv, Settled, OfErased
<1>7. \A i, j \in DOMAIN ledger' :
        ledger'[i].record = ledger'[j].record => i = j \/ OfErased(ledger[i].record)'
  BY <1>1 DEF TruthInv, OfErased
<1>8. QED
  BY <1>5, <1>6, <1>7 DEF TruthInv

\* The append moves that word from the hand to the ledger.
LEMMA InsertTellsTruth ==
  ASSUME LedgerInv, TruthInv, NEW t \in Threads, Insert(t),
         Committed' = Committed, erased' = erased
  PROVE  TruthInv'
<1> DEFINE r == call[t].record
<1>1. /\ Len(ledger) \in Nat
      /\ DOMAIN ledger' = 1 .. Len(ledger) + 1 /\ DOMAIN ledger = 1 .. Len(ledger)
      /\ \A i \in 1 .. Len(ledger) : ledger'[i] = ledger[i]
      /\ ledger'[Len(ledger) + 1] = [record |-> r, previous |-> call[t].head]
  BY LongerChain DEF Insert, LedgerInv
<1>2. /\ HoldsRecord(t) /\ ~HoldsRecord(t)'
      /\ \A u \in Threads \ {t} : call'[u] = call[u] /\ (HoldsRecord(u)' => HoldsRecord(u))
  BY DEF Insert, LedgerInv, CallShape, HoldsRecord, Recording, Idle, Stage
<1>3. /\ Settled(r) /\ (InLedger(r) => OfErased(r))
      /\ \A u \in Threads : HoldsRecord(u) /\ call[u].record = r => u = t \/ OfErased(r)
  BY <1>2 DEF TruthInv
<1>4. \A x : OfErased(x)' = OfErased(x)
  BY DEF OfErased
<1>5. \A i \in DOMAIN ledger' :
        \/ i \in DOMAIN ledger /\ ledger'[i] = ledger[i]
        \/ i = Len(ledger) + 1 /\ ledger'[i].record = r
  BY <1>1
<1>6. \A i \in DOMAIN ledger' : Settled(ledger'[i].record)
  BY <1>3, <1>5 DEF TruthInv
<1>7. \A i, j \in DOMAIN ledger' :
        ledger'[i].record = ledger'[j].record => i = j \/ OfErased(ledger'[i].record)
  BY <1>3, <1>5 DEF TruthInv, InLedger
<1>8. ASSUME NEW u \in Threads, HoldsRecord(u)'
      PROVE  /\ Settled(call'[u].record)
             /\ \A i \in DOMAIN ledger' : ledger'[i].record = call'[u].record
                                         => OfErased(call'[u].record)
             /\ \A v \in Threads : HoldsRecord(v)' /\ call'[v].record = call'[u].record
                                  => v = u \/ OfErased(call'[u].record)
  <2>1. u # t /\ HoldsRecord(u) /\ call'[u] = call[u]
    BY <1>2, <1>8
  <2>2. /\ Settled(call[u].record) /\ (InLedger(call[u].record) => OfErased(call[u].record))
        /\ \A v \in Threads : HoldsRecord(v) /\ call[v].record = call[u].record
                             => v = u \/ OfErased(call[u].record)
    BY <2>1 DEF TruthInv
  <2>3. \A v \in Threads : HoldsRecord(v)' => HoldsRecord(v) /\ call'[v] = call[v]
    BY <1>2
  <2>4. \A i \in DOMAIN ledger' : ledger'[i].record = call'[u].record
                                  => OfErased(call'[u].record)
    BY <1>3, <1>5, <2>1, <2>2 DEF InLedger
  <2>5. QED
    BY <2>1, <2>2, <2>3, <2>4
<1>9. QED
  BY <1>6, <1>7, <1>8 DEF TruthInv, InLedger, Settled, OfErased

LEMMA TruthInductive ==
  ASSUME LedgerInv, TruthInv, RecordStep
  PROVE  TruthInv'
<1> USE DEF LedgerInv
<1>1. ASSUME NEW t \in Threads, Quiet(t)
      PROVE  \A u \in Threads : HoldsRecord(u)' => HoldsRecord(u) /\ call'[u].record = call[u].record
  BY <1>1 DEF Quiet, OthersStay, HoldsRecord, Stage
<1>2. CASE \E t \in Threads : \E r : Commits(t, r)
  BY <1>2, CommitTellsTruth
<1>3. CASE \E t \in Threads : \E r : CommitsUnheard(t, r)
  <2>1. PICK t, r : t \in Threads /\ CommitsUnheard(t, r)
    BY <1>3
  <2>2. /\ ledger' = ledger
        /\ \A x : (Settled(x) => Settled(x)') /\ (OfErased(x) => OfErased(x)')
    BY <2>1 DEF CommitsUnheard, Adds, Settled, OfErased
  <2>3. QED
    BY <1>1, <2>1, <2>2, TruthStands DEF CommitsUnheard
<1>4. CASE Silent
  <2>1. /\ ledger' = ledger
        /\ \A x : (Settled(x) => Settled(x)') /\ (OfErased(x) => OfErased(x)')
    BY <1>4 DEF Silent, Settled, OfErased
  <2>2. \A u \in Threads : HoldsRecord(u)' => HoldsRecord(u) /\ call'[u].record = call[u].record
    <3>1. CASE call' = call
      BY <3>1 DEF HoldsRecord, Stage
    <3>2. QED
      BY <1>1, <1>4, <3>1 DEF Silent
  <2>3. QED
    BY <2>1, <2>2, TruthStands
<1>5. CASE Records
  <2>1. Committed' = Committed /\ erased' = erased
    BY <1>5 DEF Records
  <2>2. \A x : (Settled(x) => Settled(x)') /\ (OfErased(x) => OfErased(x)')
    BY <2>1 DEF Settled, OfErased
  <2>3. CASE \E t \in Threads : ReadHead(t)
    <3>1. /\ ledger' = ledger
          /\ \A u \in Threads : HoldsRecord(u)' => HoldsRecord(u) /\ call'[u].record = call[u].record
      BY <2>3 DEF ReadHead, CallShape, HoldsRecord, Recording, Stage
    <3>2. QED
      BY <2>2, <3>1, TruthStands
  <2>4. CASE \E t \in Threads : Insert(t)
    BY <2>1, <2>4, InsertTellsTruth
  <2>5. CASE \E threads \in SUBSET Threads : Drop(threads) /\ UNCHANGED ledger
    <3>1. /\ ledger' = ledger
          /\ \A u \in Threads : HoldsRecord(u)' => HoldsRecord(u) /\ call'[u].record = call[u].record
      BY <2>5 DEF Drop, Idle, HoldsRecord, Recording, Stage
    <3>2. QED
      BY <2>2, <3>1, TruthStands
  <2>6. QED
    BY <1>5, <2>3, <2>4, <2>5 DEF Records
<1>6. CASE Erases
  <2>1. ledger' = ledger /\ call' = call
    BY <1>6 DEF Erases, ledgerVars
  <2>2. \A x : (Settled(x) => Settled(x)') /\ (OfErased(x) => OfErased(x)')
    BY <1>6 DEF Erases, Settled, OfErased
  <2>3. \A u \in Threads : HoldsRecord(u)' => HoldsRecord(u) /\ call'[u].record = call[u].record
    BY <2>1 DEF HoldsRecord, Stage
  <2>4. QED
    BY <2>1, <2>2, <2>3, TruthStands
<1>7. QED
  BY <1>2, <1>3, <1>4, <1>5, <1>6 DEF RecordStep

\* Whatever threads and processes do, and however their appends interleave: the ledger
\* credits nobody with a decision another took or that was not taken, and has no change
\* twice; an outcome it names has been reported, and is gone only with its customer
\* (append_integrity_record, process_erasure_request).
THEOREM LedgerIsTrue == Spec => []LedgerTellsTruth
<1> DEFINE Inv == LedgerInv /\ ControlInv /\ RowsInv /\ TruthInv
<1>1. Init => TruthInv
  BY DEF Init, LedgerInit, TruthInv, HoldsRecord, Recording, Stage, Idle
<1>2. Init => Inv
  BY <1>1, LedgerStarts, ControlStarts, RowsStart
<1>3. Inv /\ [Next]_vars => Inv'
  BY LedgerInductive, ControlInductive, RowsInductive, EveryStepRecords, TruthInductive
<1>4. Inv => LedgerTellsTruth
  BY TruthIsTold
<1>5. QED
  BY <1>2, <1>3, <1>4, PTL DEF Spec
=============================================================================

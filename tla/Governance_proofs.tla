-------------------------- MODULE Governance_proofs --------------------------
(***************************************************************************)
(* Proofs about Governance, for every set of threads, processes and        *)
(* people, any quotas and any bounds.                                      *)
(***************************************************************************)
EXTENDS Governance, SequenceTheorems, TLAPS

-----------------------------------------------------------------------------
(* The ledger.                                                             *)

Links(chain) == {chain[i] : i \in DOMAIN chain}
\* A call has its three fields, whatever they hold.
CallShape ==
  call = [t \in Threads |-> [stage |-> call[t].stage, record |-> call[t].record,
                             head |-> call[t].head]]
Locked == \A t, u \in Threads : Stage(t) = "insert" /\ Stage(u) = "insert" => t = u
HeadIsLast == \A t \in Threads : Stage(t) = "insert" => call[t].head = LastHash

\* Verifies is not inductive: the head an inserting thread holds must still be the last.
LedgerInv ==
  /\ ledger \in Seq(Links(ledger))
  /\ CallShape
  /\ Locked
  /\ HeadIsLast
  /\ Verifies

\* What every step outside the ledger leaves of it: nobody comes to insert.
Outside ==
  /\ CallShape'
  /\ \A t \in Threads : call'[t].stage = "insert" => call'[t] = call[t]

\* A longer chain is a sequence of its own links.
LEMMA LongerChain ==
  ASSUME NEW chain, chain \in Seq(Links(chain)), NEW link
  PROVE  LET longer == Append(chain, link) IN
         /\ longer \in Seq(Links(longer))
         /\ Len(longer) = Len(chain) + 1 /\ Len(chain) \in Nat
         /\ DOMAIN longer = 1 .. Len(chain) + 1 /\ DOMAIN chain = 1 .. Len(chain)
         /\ \A i \in 1 .. Len(chain) : longer[i] = chain[i]
         /\ longer[Len(chain) + 1] = link
<1> DEFINE longer == Append(chain, link)
           All == Links(chain) \cup {link}
<1>1. chain \in Seq(All)
  <2>1. Len(chain) \in Nat /\ DOMAIN chain = 1 .. Len(chain)
    BY LenProperties
  <2>2. \A i \in 1 .. Len(chain) : chain[i] \in All
    BY <2>1 DEF Links
  <2> QED
    BY <2>1, <2>2
<1>2. /\ longer \in Seq(All)
      /\ Len(longer) = Len(chain) + 1
      /\ \A i \in 1 .. Len(chain) : longer[i] = chain[i]
      /\ longer[Len(chain) + 1] = link
  <2>1. link \in All
    OBVIOUS
  <2> HIDE DEF All
  <2> QED
    BY <1>1, <2>1, AppendProperties
<1>3. /\ Len(chain) \in Nat
      /\ DOMAIN longer = 1 .. Len(chain) + 1 /\ DOMAIN chain = 1 .. Len(chain)
  BY <1>1, <1>2, LenProperties
<1>4. \A i \in DOMAIN longer : longer[i] \in Links(longer)
  BY DEF Links
<1>5. longer \in Seq(Links(longer))
  <2>1. longer = [i \in 1 .. Len(longer) |-> longer[i]]
    BY <1>2, <1>3, LenProperties
  <2> HIDE DEF longer
  <2> QED
    BY <1>2, <1>3, <1>4, <2>1
<1> QED
  BY <1>2, <1>3, <1>5

-----------------------------------------------------------------------------
(* What a step outside the ledger does to the calls.                       *)

\* A call that is replaced, and not by an insert.
LEMMA CallReplaced ==
  ASSUME CallShape, NEW t \in Threads, NEW stage, stage # "insert", NEW record, NEW head,
         call' = [call EXCEPT ![t] = [stage |-> stage, record |-> record, head |-> head]]
  PROVE  Outside
BY DEF CallShape, Outside

\* A call that goes to another stage than the insert.
LEMMA CallMoves ==
  ASSUME CallShape, NEW t \in Threads, NEW stage, stage # "insert", GotoStage(t, stage)
  PROVE  Outside
BY DEF CallShape, Outside, GotoStage

\* Calls that are left alone.
LEMMA CallsStay ==
  ASSUME CallShape, call' = call
  PROVE  Outside
BY DEF CallShape, Outside

\* Calls that end without an answer.
LEMMA CallsDropped ==
  ASSUME CallShape, NEW threads, Drop(threads)
  PROVE  Outside
BY DEF CallShape, Outside, Drop, Idle, Stage

\* A call whose transaction has committed: its record comes next.
LEMMA CallToRecord ==
  ASSUME CallShape, NEW t \in Threads, NEW record, ToRecord(t, record)
  PROVE  Outside
BY CallReplaced DEF ToRecord

\* A call that is answered.
LEMMA CallFinished ==
  ASSUME CallShape, NEW t \in Threads, call' = [call EXCEPT ![t] = Idle]
  PROVE  Outside
BY CallReplaced DEF Idle

\* Rollout requests and decisions touch the ledger by their record alone.
LEMMA ControlOutside ==
  ASSUME CallShape, NEW t \in Threads, ControlStep(t)
  PROVE  Outside /\ ledger' = ledger
<1>1. PICK p \in People :
        \/ Request(t, p)
        \/ \E c \in Controls : Decide(t, c, p)
        \/ EmergencyDisable(t, p)
  BY DEF ControlStep
<1>2. CASE Request(t, p)
  BY <1>2, CallToRecord DEF Request
<1>3. CASE \E c \in Controls : Decide(t, c, p)
  BY <1>3, CallToRecord DEF Decide
<1>4. CASE EmergencyDisable(t, p)
  BY <1>4, CallToRecord DEF EmergencyDisable
<1> QED
  BY <1>1, <1>2, <1>3, <1>4

\* So do the steps of a request, a rejection and an activation of an artifact.
LEMMA ArtifactOutside ==
  ASSUME CallShape, NEW t \in Threads, ArtifactStep(t)
  PROVE  Outside /\ ledger' = ledger
<1>1. CASE \E p \in People : RequestArtifact(t, p)
  BY <1>1, CallToRecord DEF RequestArtifact
<1>2. CASE \E p \in People, a \in Artifacts : RejectArtifact(t, a, p)
  BY <1>2, CallToRecord DEF RejectArtifact
<1>3. CASE \E p \in People, a \in Artifacts : ClaimActivation(t, a, p)
  BY <1>3, CallMoves DEF ClaimActivation
<1>4. CASE Snapshot(t) \/ Materialize(t) \/ MaterializeFails(t)
  BY <1>4, CallMoves DEF Snapshot, Materialize, MaterializeFails
<1>5. CASE Complete(t)
  BY <1>5, CallToRecord DEF Complete
<1>6. CASE LoseClaim(t) \/ CompleteFails(t) \/ Undo(t)
  BY <1>6, CallMoves DEF LoseClaim, CompleteFails, Undo
<1>7. CASE UndoFails(t) \/ Abandon(t) \/ ActivationRaises(t)
  BY <1>7, CallFinished DEF UndoFails, Abandon, ActivationRaises, Finished
<1> QED
  BY <1>1, <1>2, <1>3, <1>4, <1>5, <1>6, <1>7 DEF ArtifactStep

\* And the steps of a reported outcome.
LEMMA OutcomeOutside ==
  ASSUME CallShape, NEW t \in Threads, OutcomeStep(t)
  PROVE  Outside /\ ledger' = ledger
<1>1. CASE \E e \in Events, content \in Contents : LookUp(t, e, content)
  <2>1. PICK e \in Events, content \in Contents : LookUp(t, e, content)
    BY <1>1
  <2> QED
    BY <2>1, CallReplaced DEF LookUp
<1>2. CASE RecordOutcome(t)
  BY <1>2, CallToRecord DEF RecordOutcome
<1>3. CASE RefuseOutcome(t)
  BY <1>3, CallFinished DEF RefuseOutcome
<1> QED
  BY <1>1, <1>2, <1>3 DEF OutcomeStep

\* And the deletion of the customer, the minute that passes, and a process that dies.
LEMMA EventOutside ==
  ASSUME CallShape, \/ EraseCustomer
                    \/ \E a \in Artifacts : Elapse(a)
                    \/ \E p \in Processes : Restart(p)
  PROVE  Outside /\ ledger' = ledger
<1>1. CASE EraseCustomer
  BY <1>1, CallsStay DEF EraseCustomer, ledgerVars
<1>2. CASE \E a \in Artifacts : Elapse(a)
  BY <1>2, CallsStay DEF Elapse, ledgerVars
<1>3. CASE \E p \in Processes : Restart(p)
  BY <1>3, CallsDropped DEF Restart
<1> QED
  BY <1>1, <1>2, <1>3

-----------------------------------------------------------------------------
(* The chain.                                                              *)

\* A step outside the ledger keeps its invariant.
LEMMA OutsideKeepsLedger ==
  ASSUME LedgerInv, Outside, ledger' = ledger
  PROVE  LedgerInv'
BY DEF LedgerInv, Outside, Locked, HeadIsLast, Verifies, Links, LastHash, Stage

\* So does a step of the ledger: only the holder of the lock lengthens the chain.
LEMMA LedgerKeepsLedger ==
  ASSUME LedgerInv, NEW t \in Threads, LedgerStep(t)
  PROVE  LedgerInv'
<1>1. CASE ReadHead(t)
  <2>1. /\ CallShape'
        /\ \A u \in Threads : u # t => call'[u] = call[u]
        /\ call'[t].head = LastHash
        /\ ledger' = ledger
    BY <1>1 DEF ReadHead, LedgerInv, CallShape
  <2>2. \A u \in Threads : Stage(u)' = "insert" => u = t
    BY <1>1, <2>1 DEF ReadHead, Unlocked, Stage
  <2> QED
    BY <2>1, <2>2 DEF LedgerInv, Locked, HeadIsLast, Verifies, Links, LastHash, Stage
<1>2. CASE Insert(t)
  <2> DEFINE link == [record |-> call[t].record, previous |-> call[t].head]
  <2>1. /\ CallShape'
        /\ call'[t].stage = "idle"
        /\ \A u \in Threads : u # t => call'[u] = call[u]
    BY <1>2 DEF Insert, LedgerInv, CallShape, Idle
  <2>2. \A u \in Threads : Stage(u)' # "insert"
    BY <1>2, <2>1 DEF Insert, LedgerInv, Locked, Stage
  <2>3. ledger' = Append(ledger, link) /\ link.previous = Len(ledger)
    BY <1>2 DEF Insert, LedgerInv, HeadIsLast, LastHash
  <2>4. /\ ledger' \in Seq(Links(ledger'))
        /\ Len(ledger) \in Nat
        /\ DOMAIN ledger' = 1 .. Len(ledger) + 1 /\ DOMAIN ledger = 1 .. Len(ledger)
        /\ \A i \in 1 .. Len(ledger) : ledger'[i] = ledger[i]
        /\ ledger'[Len(ledger) + 1] = link
    BY <2>3, LongerChain DEF LedgerInv
  <2>5. Verifies'
    <3> SUFFICES ASSUME NEW i \in 1 .. Len(ledger) + 1
                 PROVE  ledger'[i].previous = i - 1
      BY <2>4 DEF Verifies
    <3>1. CASE i \in 1 .. Len(ledger)
      BY <2>4, <3>1 DEF LedgerInv, Verifies
    <3>2. CASE i = Len(ledger) + 1
      BY <2>3, <2>4, <3>2
    <3> QED
      BY <2>4, <3>1, <3>2
  <2> QED
    BY <2>1, <2>2, <2>4, <2>5 DEF LedgerInv, Locked, HeadIsLast, Links
<1>3. CASE AppendFails(t)
  BY <1>3, CallsDropped, OutsideKeepsLedger DEF AppendFails, LedgerInv
<1> QED
  BY <1>1, <1>2, <1>3 DEF LedgerStep

\* The chain begins empty and nobody at work on it,
LEMMA LedgerStarts == Init => LedgerInv
<1> SUFFICES ASSUME Init
             PROVE  LedgerInv
  OBVIOUS
<1>1. ledger = <<>> /\ \A t \in Threads : call[t] = Idle
  BY DEF Init, LedgerInit
<1>2. CallShape
  BY DEF Init, LedgerInit, CallShape, Idle
<1> QED
  BY <1>1, <1>2 DEF LedgerInv, Locked, HeadIsLast, Verifies, Links, Idle, Stage

\* and every step keeps it whole.
LEMMA LedgerInductive == LedgerInv /\ [Next]_vars => LedgerInv'
<1> SUFFICES ASSUME LedgerInv, [Next]_vars
             PROVE  LedgerInv'
  OBVIOUS
<1>1. CallShape
  BY DEF LedgerInv
<1>2. CASE Ledger
  BY <1>2, LedgerKeepsLedger DEF Ledger
<1>3. CASE Control
  BY <1>1, <1>3, ControlOutside, OutsideKeepsLedger DEF Control
<1>4. CASE Artifact
  BY <1>1, <1>4, ArtifactOutside, EventOutside, OutsideKeepsLedger DEF Artifact
<1>5. CASE Outcome
  BY <1>1, <1>5, OutcomeOutside, EventOutside, OutsideKeepsLedger DEF Outcome
<1>6. CASE UNCHANGED vars
  BY <1>1, <1>6, CallsStay, OutsideKeepsLedger DEF vars, ledgerVars
<1> QED
  BY <1>2, <1>3, <1>4, <1>5, <1>6 DEF Next

\* However threads of however many processes interleave their appends, and wherever an
\* append or a process fails, the ledger is one chain without a gap or a fork
\* (append_integrity_record, verify_integrity_ledger).
THEOREM LedgerIsWhole == Spec => []LedgerVerifies
<1>1. LedgerInv => LedgerVerifies
  BY DEF LedgerInv, LedgerVerifies
<1> QED
  BY <1>1, LedgerStarts, LedgerInductive, PTL DEF Spec

-----------------------------------------------------------------------------
(* Rollout controls.                                                       *)

ControlRow == [status : ControlStatuses, by : People \cup {Nobody},
               decider : People \cup {Nobody}, effective : BOOLEAN]
ControlShape ==
  /\ control \in [Controls -> ControlRow]
  /\ \A c \in Controls :
       /\ control[c].status = "absent" => control[c] = NoControl
       /\ control[c].status = "pending" => control[c].decider = Nobody
       /\ control[c].status = "active" => control[c].decider \in People

\* Rows are stored in their order, and a proposal that waits in an emergency came after it.
ControlOrder ==
  \A c, d \in Controls :
    /\ d < c /\ control[c].status # "absent" => control[d].status # "absent"
    /\ InEmergency(c) /\ control[d].status = "pending" => d > c

\* The next row comes after every row that is stored.
LEMMA NextComesAfter ==
  ASSUME ControlOrder, NEW c \in Controls, NextControl(c)
  PROVE  \A d \in Controls : control[d].status # "absent" => d < c
<1>1. \A d \in Controls : control[d].status # "absent" => d # c /\ ~(c < d)
  BY DEF ControlOrder, NextControl
<1> QED
  BY <1>1, RolloutControlAssumption DEF Controls

\* Each of the three services' operations is one that GovernedChange allows,
LEMMA ControlImplements ==
  ASSUME ControlShape, NEW t \in Threads, ControlStep(t)
  PROVE  ControlPromise!ChangeNext
<1> USE AuditLedgerAssumption
<1>1. CASE \E p \in People : Request(t, p)
  <2>1. PICK p \in People, c \in Controls :
          /\ InStatus({"pending"}) = {}
          /\ NextControl(c)
          /\ control' = [control EXCEPT ![c].status = "pending", ![c].by = p]
    BY <1>1 DEF Request
  <2>2. ControlPromise!Propose(c, p)
    BY <2>1 DEF ControlPromise!Propose, ControlPromise!Stand,
                ControlPromise!Turned, ControlPromise!GivesWay, ControlPromise!Change, ControlShape, ControlRow,
                NextControl, NoControl, InStatus
  <2> QED
    BY <2>2 DEF ControlPromise!ChangeNext
<1>2. CASE \E p \in People, c \in Controls : Decide(t, c, p)
  <2>1. PICK p \in People, c \in Controls : Decide(t, c, p)
    BY <1>2
  <2>2. control[c].status = "pending" /\ control[c].by # p
    BY <2>1 DEF Decide, MayDecide
  <2>3. CASE Activate(c, p)
    <3>1. \A d \in Controls :
            /\ control'[d].by = control[d].by
            /\ control'[d].status = IF d = c THEN "active"
                                    ELSE IF control[d].status = "active" THEN "superseded"
                                    ELSE control[d].status
            /\ control'[d].decider = IF d = c THEN p ELSE control[d].decider
      BY <2>3 DEF Activate, ControlShape, ControlRow
    <3>2. ControlPromise!Approve(c, p)
      BY <2>2, <3>1 DEF ControlPromise!Approve, ControlPromise!Stand,
                ControlPromise!Turned, ControlPromise!GivesWay, ControlPromise!Change
    <3> QED
      BY <3>2 DEF ControlPromise!ChangeNext
  <2>4. CASE control' = [control EXCEPT ![c].status = "rejected", ![c].decider = p]
    <3>1. \A d \in Controls :
            /\ control'[d].by = control[d].by
            /\ control'[d].status = IF d = c THEN "rejected" ELSE control[d].status
            /\ control'[d].decider = IF d = c THEN p ELSE control[d].decider
      BY <2>4 DEF ControlShape, ControlRow
    <3>2. ControlPromise!TurnDown(c, p)
      BY <2>2, <3>1 DEF ControlPromise!TurnDown, ControlPromise!Stand,
                ControlPromise!Turned, ControlPromise!GivesWay, ControlPromise!Change
    <3> QED
      BY <3>2 DEF ControlPromise!ChangeNext
  <2> QED
    BY <2>1, <2>3, <2>4 DEF Decide
<1>3. CASE \E p \in People : EmergencyDisable(t, p)
  <2>1. PICK p \in People, c \in Controls :
          /\ NextControl(c)
          /\ control' = [d \in Controls |->
               IF d = c THEN [status |-> "active", by |-> p, decider |-> p, effective |-> TRUE]
               ELSE IF control[d].status \in Overtaken THEN Superseded(control[d], p)
               ELSE control[d]]
    BY <1>3 DEF EmergencyDisable
  <2>2. control[c].status = "absent"
    BY <2>1 DEF NextControl
  <2>3. \A d \in Controls : d # c =>
          /\ control'[d].by = control[d].by
          /\ control'[d].status = IF control[d].status \in {"active", "pending"}
                                  THEN "superseded" ELSE control[d].status
          /\ control'[d].decider = IF control[d].status = "pending" THEN p
                                   ELSE control[d].decider
    BY <2>1 DEF ControlShape, ControlRow, Superseded, Overtaken
  <2>4. /\ control'[c].by = p /\ control'[c].decider = p
        /\ control'[c].status = "active"
    BY <2>1
  <2>5. ControlPromise!Overrule(c, p)
    BY <2>2, <2>3, <2>4 DEF ControlPromise!Overrule, ControlPromise!Stand,
                ControlPromise!Turned, ControlPromise!GivesWay, ControlPromise!Change
  <2> QED
    BY <2>5 DEF ControlPromise!ChangeNext
<1> QED
  BY <1>1, <1>2, <1>3 DEF ControlStep

\* (a row that is put together field by field)
LEMMA RowIsTyped ==
  ASSUME NEW status \in ControlStatuses, NEW by \in People \cup {Nobody},
         NEW decider \in People \cup {Nobody}, NEW effective \in BOOLEAN
  PROVE  [status |-> status, by |-> by, decider |-> decider, effective |-> effective] \in ControlRow
BY DEF ControlRow

\* keeps the rows well-formed,
LEMMA ControlKeepsShape ==
  ASSUME ControlShape, NEW t \in Threads, ControlStep(t)
  PROVE  ControlShape'
<1> USE AuditLedgerAssumption DEF ControlShape, ControlRow, ControlStatuses, NoControl
<1>1. CASE \E p \in People : Request(t, p)
  BY <1>1 DEF Request, NextControl
<1>2. CASE \E p \in People, c \in Controls : Decide(t, c, p)
  <2>1. PICK p \in People, c \in Controls : Decide(t, c, p)
    BY <1>2
  <2>2. CASE Activate(c, p)
    <3>1. /\ control'[c] = [status |-> "active", by |-> control[c].by, decider |-> p,
                            effective |-> TRUE]
          /\ \A d \in Controls : d # c =>
               \/ control'[d] = control[d]
               \/ control'[d] = [status |-> "superseded", by |-> control[d].by,
                                 decider |-> control[d].decider,
                                 effective |-> control[d].effective]
      BY <2>2 DEF Activate
    <3>2. \A d \in Controls : control'[d] \in ControlRow
      <4> SUFFICES ASSUME NEW d \in Controls
                   PROVE  control'[d] \in ControlRow
        OBVIOUS
      <4>1. /\ control[d].by \in People \cup {Nobody}
            /\ control[d].decider \in People \cup {Nobody}
            /\ control[d].effective \in BOOLEAN
        OBVIOUS
      <4>2. control[d] \in ControlRow
        <5> HIDE DEF ControlRow
        <5> QED
          OBVIOUS
      <4> HIDE DEF ControlShape, ControlRow, NoControl
      <4>3. CASE d = c
        <5>1. [status |-> "active", by |-> control[c].by, decider |-> p, effective |-> TRUE]
                \in ControlRow
          BY <4>1, <4>3 DEF ControlRow
        <5> QED
          BY <3>1, <4>3, <5>1
      <4>4. CASE d # c
        BY <3>1, <4>1, <4>2, <4>4, RowIsTyped
      <4> QED
        BY <4>3, <4>4
    <3>3. control' \in [Controls -> ControlRow]
      <4>1. control' = [d \in Controls |-> control'[d]]
        BY <2>2 DEF Activate
      <4> HIDE DEF ControlRow
      <4> QED
        BY <3>2, <4>1
    <3> QED
      BY <3>1, <3>3
  <2>3. CASE control' = [control EXCEPT ![c].status = "rejected", ![c].decider = p]
    BY <2>1, <2>3 DEF Decide, MayDecide
  <2> QED
    BY <2>1, <2>2, <2>3 DEF Decide
<1>3. CASE \E p \in People : EmergencyDisable(t, p)
  <2>1. PICK p \in People, c \in Controls :
          control' = [d \in Controls |->
               IF d = c THEN [status |-> "active", by |-> p, decider |-> p, effective |-> TRUE]
               ELSE IF control[d].status \in Overtaken THEN Superseded(control[d], p)
               ELSE control[d]]
    BY <1>3 DEF EmergencyDisable
  <2>2. \A d \in Controls : /\ Superseded(control[d], p) \in ControlRow
                            /\ Superseded(control[d], p).status = "superseded"
    BY DEF Superseded
  <2> QED
    BY <2>1, <2>2 DEF Overtaken
<1> QED
  BY <1>1, <1>2, <1>3 DEF ControlStep

\* and keeps their order.
LEMMA ControlKeepsOrder ==
  ASSUME ControlShape, ControlOrder, NEW t \in Threads, ControlStep(t)
  PROVE  ControlOrder'
<1> USE AuditLedgerAssumption, RolloutControlAssumption DEF Controls
<1>1. CASE \E p \in People : Request(t, p)
  <2>1. PICK p \in People, c \in Controls :
          /\ NextControl(c)
          /\ control' = [control EXCEPT ![c].status = "pending", ![c].by = p]
    BY <1>1 DEF Request
  <2>2. /\ control'[c].status = "pending"
        /\ \A d \in Controls : d # c => control'[d] = control[d]
    BY <2>1 DEF ControlShape, ControlRow
  <2>3. \A d \in Controls : (control[d].status # "absent" => d < c)
                             /\ (d < c => control[d].status # "absent")
    BY <2>1, NextComesAfter DEF NextControl
  <2> QED
    BY <2>2, <2>3 DEF ControlOrder, InEmergency, IsEmergency
<1>2. CASE \E p \in People, c \in Controls : Decide(t, c, p)
  <2>1. PICK p \in People, c \in Controls : Decide(t, c, p)
    BY <1>2
  <2>2. control[c].by # p /\ control[c].status = "pending"
    BY <2>1 DEF Decide, MayDecide
  <2>3. /\ control'[c].status \in {"active", "rejected"}
        /\ control'[c].by = control[c].by /\ control'[c].decider = p
        /\ \A d \in Controls : d # c =>
             \/ control'[d] = control[d]
             \/ control[d].status = "active" /\ control'[d].status = "superseded"
    <3>1. CASE Activate(c, p)
      BY <3>1 DEF Activate, ControlShape, ControlRow
    <3>2. CASE control' = [control EXCEPT ![c].status = "rejected", ![c].decider = p]
      BY <3>2 DEF ControlShape, ControlRow
    <3> QED
      BY <2>1, <3>1, <3>2 DEF Decide
  <2> QED
    BY <2>2, <2>3 DEF ControlOrder, InEmergency, IsEmergency
<1>3. CASE \E p \in People : EmergencyDisable(t, p)
  <2>1. PICK p \in People, c \in Controls :
          /\ NextControl(c)
          /\ control' = [d \in Controls |->
               IF d = c THEN [status |-> "active", by |-> p, decider |-> p, effective |-> TRUE]
               ELSE IF control[d].status \in Overtaken THEN Superseded(control[d], p)
               ELSE control[d]]
    BY <1>3 DEF EmergencyDisable
  <2>2. control'[c].status = "active"
    BY <2>1
  <2>3. \A d \in Controls : d # c =>
          control'[d].status = IF control[d].status \in {"active", "pending"}
                               THEN "superseded" ELSE control[d].status
    BY <2>1 DEF ControlShape, ControlRow, Superseded, Overtaken
  <2>4. \A d \in Controls : (control[d].status # "absent" => d < c)
                             /\ (d < c => control[d].status # "absent")
    BY <2>1, NextComesAfter DEF NextControl
  <2> QED
    BY <2>2, <2>3, <2>4 DEF ControlOrder, InEmergency
<1> QED
  BY <1>1, <1>2, <1>3 DEF ControlStep

\* An emergency gives way to a later control alone, by two persons or another emergency.
LEMMA EmergencyStands ==
  ASSUME ControlShape, ControlOrder, NEW t \in Threads, ControlStep(t),
         NEW c \in Controls, InEmergency(c), control'[c].status # "active"
  PROVE  \E d \in Controls :
           /\ d > c
           /\ control'[d].status = "active"
           /\ control[d].status = "pending" => control'[d].by # control'[d].decider
<1> USE RolloutControlAssumption DEF Controls
<1>1. ~\E p \in People : Request(t, p)
  <2> SUFFICES ASSUME NEW p \in People, Request(t, p)
               PROVE  FALSE
    OBVIOUS
  <2>1. PICK d \in Controls :
          /\ NextControl(d)
          /\ control' = [control EXCEPT ![d].status = "pending", ![d].by = p]
    BY DEF Request
  <2>2. d # c
    BY <2>1 DEF NextControl, InEmergency
  <2> QED
    BY <2>1, <2>2 DEF InEmergency, ControlShape
<1>2. CASE \E p \in People, d \in Controls : Decide(t, d, p)
  <2>1. PICK p \in People, d \in Controls : Decide(t, d, p)
    BY <1>2
  <2>2. control[d].by # p /\ control[d].status = "pending" /\ d > c
    BY <2>1 DEF Decide, MayDecide, ControlOrder
  <2>3. Activate(d, p)
    <3> SUFFICES ASSUME control' = [control EXCEPT ![d].status = "rejected", ![d].decider = p]
                 PROVE  FALSE
      BY <2>1 DEF Decide
    <3> QED
      BY <2>2 DEF InEmergency, ControlShape
  <2>4. /\ control'[d].status = "active" /\ control'[d].by = control[d].by
        /\ control'[d].decider = p
    BY <2>3 DEF Activate, ControlShape, ControlRow
  <2> QED
    BY <2>2, <2>4
<1>3. CASE \E p \in People : EmergencyDisable(t, p)
  <2>1. PICK p \in People, d \in Controls :
          /\ NextControl(d)
          /\ control'[d].status = "active"
    BY <1>3 DEF EmergencyDisable
  <2>2. d > c /\ control[d].status # "pending"
    BY <2>1, NextComesAfter DEF NextControl, InEmergency
  <2> QED
    BY <2>1, <2>2
<1> QED
  BY <1>1, <1>2, <1>3 DEF ControlStep

ControlInv == ControlShape /\ ControlOrder

\* No row is stored at first,
LEMMA ControlStarts == Init => ControlInv /\ ControlPromise!ChangeInit
<1> SUFFICES ASSUME Init
             PROVE  ControlInv /\ ControlPromise!ChangeInit
  OBVIOUS
<1>1. control = [c \in Controls |-> NoControl]
  BY DEF Init, ControlInit
<1>2. NoControl \in ControlRow
  BY DEF NoControl, ControlRow, ControlStatuses
<1>3. ControlShape
  BY <1>1, <1>2 DEF ControlShape, NoControl
<1>4. ControlOrder
  BY <1>1 DEF ControlOrder, InEmergency, NoControl
<1>5. ControlPromise!ChangeInit
  BY <1>1 DEF ControlPromise!ChangeInit, ControlPromise!Unasked, ControlPromise!Change, NoControl
<1> QED
  BY <1>3, <1>4, <1>5 DEF ControlInv

\* and no step of the other services changes one.
LEMMA ControlElsewhere ==
  [Next]_vars => (\E t \in Threads : ControlStep(t)) \/ control' = control
BY DEF Next, Ledger, Control, Artifact, Outcome, vars

\* Every step keeps the invariant of the controls.
LEMMA ControlInductive == ControlInv /\ [Next]_vars => ControlInv'
<1> SUFFICES ASSUME ControlInv, [Next]_vars
             PROVE  ControlInv'
  OBVIOUS
<1>1. CASE \E t \in Threads : ControlStep(t)
  BY <1>1, ControlKeepsShape, ControlKeepsOrder DEF ControlInv
<1>2. CASE control' = control
  BY <1>2 DEF ControlInv, ControlShape, ControlOrder, InEmergency, IsEmergency
<1> QED
  BY <1>1, <1>2, ControlElsewhere

\* The controls of a scope are changed as GovernedChange promises, whatever the number of
\* administrators, requests and processes (request_rollout_control, decide_rollout_control,
\* emergency_disable_rollout_scope).
THEOREM ControlsGoverned == Spec => ControlsAreGoverned
<1>1. ControlInv /\ [Next]_vars
        => [ControlPromise!ChangeNext]_([c \in Controls |->
             [standing |-> control[c].status, by |-> control[c].by,
              decider |-> control[c].decider]])
  BY ControlElsewhere, ControlImplements DEF ControlInv
<1> QED
  BY <1>1, ControlStarts, ControlInductive, PTL
  DEF Spec, ControlsAreGoverned, ControlPromise!ChangeSpec

\* An emergency disable is lifted by nothing that was requested before it and by nobody
\* alone, in any number of steps (emergency_disable_rollout_scope).
THEOREM EmergencyKept == Spec => EmergencyHolds
<1> DEFINE Lifted(c) ==
      \E d \in Controls :
        /\ d > c
        /\ control'[d].status = "active"
        /\ control[d].status = "pending" => control'[d].by # control'[d].decider
    Stands == \A c \in Controls : InEmergency(c) /\ control'[c].status # "active" => Lifted(c)
<1>1. ControlInv /\ [Next]_vars => [Stands]_vars
  <2> SUFFICES ASSUME ControlInv, [Next]_vars, NEW c \in Controls,
                      InEmergency(c), control'[c].status # "active"
               PROVE  Lifted(c)
    OBVIOUS
  <2>1. control' # control
    BY DEF InEmergency
  <2> QED
    BY <2>1, ControlElsewhere, EmergencyStands DEF ControlInv
<1> QED
  BY <1>1, ControlStarts, ControlInductive, PTL DEF Spec, EmergencyHolds

-----------------------------------------------------------------------------
(* Governed artifacts.                                                     *)

ArtifactRow == [status : ArtifactStatuses, by : People \cup {Nobody},
                decider : People \cup {Nobody}, effective : BOOLEAN, stale : BOOLEAN]
\* Whoever holds a claim is a second person, and a claim that is given up leaves no trace.
ArtifactShape ==
  /\ artifact \in [Artifacts -> ArtifactRow]
  /\ \A a \in Artifacts :
       /\ artifact[a].status = "absent" => artifact[a] = NoArtifact
       /\ artifact[a].status = "pending" => artifact[a].decider = Nobody
       /\ Proposed(artifact[a]) => /\ artifact[a].decider \in People
                                   /\ artifact[a].decider # artifact[a].by

\* A thread that activates has a version in hand.
ActivationShape ==
  /\ activation = [t \in Threads |-> [artifact |-> activation[t].artifact,
                                      who |-> activation[t].who,
                                      restore |-> activation[t].restore]]
  /\ \A t \in Threads : Stage(t) \in Activating => activation[t].artifact \in Artifacts

ArtifactInv == ArtifactShape /\ ActivationShape

\* A step changes nothing in what a row promises: the row stands, or it is proposed before
\* and after, claimed or not.
Unclaimed(row) == row.status = "pending" /\ row.decider = Nobody
Unmoved(a) ==
  /\ artifact'[a].by = artifact[a].by
  /\ \/ /\ artifact'[a].status = artifact[a].status
        /\ artifact'[a].decider = artifact[a].decider
     \/ /\ Proposed(artifact[a]) \/ Unclaimed(artifact[a])
        /\ Proposed(artifact'[a]) \/ Unclaimed(artifact'[a])

\* Such a step is a stutter for GovernedChange.
LEMMA ArtifactStutters ==
  ASSUME \A a \in Artifacts : Unmoved(a)
  PROVE  UNCHANGED ArtifactView
BY DEF ArtifactView, Proposed, Unclaimed, Unmoved

\* The completion of a claim is the approval of a second person.
LEMMA CompletionApproves ==
  ASSUME ArtifactShape, NEW t \in Threads, activation[t].artifact \in Artifacts, Owns(t),
         artifact' = Activated(activation[t].artifact)
  PROVE  ArtifactPromise!ChangeNext
<1> DEFINE a == activation[t].artifact
           p == artifact[a].decider
<1>1. /\ artifact[a].status = "materializing"
      /\ p \in People /\ p # artifact[a].by
  BY DEF Owns, ArtifactShape, Proposed
<1>2. \A b \in Artifacts :
        /\ artifact'[b].by = artifact[b].by
        /\ artifact'[b].decider = artifact[b].decider
        /\ artifact'[b].status = IF b = a THEN "active"
                                 ELSE IF artifact[b].status = "active" THEN "superseded"
                                 ELSE artifact[b].status
  BY DEF Activated, ArtifactShape, ArtifactRow
<1>3. /\ ArtifactView[a] = [standing |-> "pending", by |-> artifact[a].by, decider |-> Nobody]
      /\ ArtifactView'[a] = [standing |-> "active", by |-> artifact[a].by, decider |-> p]
  BY <1>1, <1>2 DEF ArtifactView, Proposed
<1>4. \A b \in Artifacts : b # a =>
        /\ ArtifactView[b].standing = "active" =>
             /\ ArtifactView[b].by = artifact[b].by
             /\ ArtifactView[b].decider = artifact[b].decider
             /\ ArtifactView'[b] = [standing |-> "superseded", by |-> artifact[b].by,
                                    decider |-> artifact[b].decider]
        /\ ArtifactView[b].standing # "active" => ArtifactView'[b] = ArtifactView[b]
  BY <1>1, <1>2 DEF ArtifactView, Proposed
<1>5. ArtifactView' = [b \in Artifacts |-> ArtifactView'[b]]
  BY DEF ArtifactView
<1> HIDE DEF a, p
<1>6. ArtifactPromise!Approve(a, p)
  <2>1. \A b \in Artifacts :
          ArtifactView'[b] =
            IF b = a THEN ArtifactPromise!Turned(a, "active", p)
            ELSE IF ArtifactPromise!Stand(b) = "active" THEN ArtifactPromise!GivesWay(b)
            ELSE ArtifactView[b]
    <3>1. ArtifactView'[a] = ArtifactPromise!Turned(a, "active", p)
      BY <1>3 DEF ArtifactPromise!Turned, ArtifactPromise!Change
    <3>2. \A b \in Artifacts : b # a /\ ArtifactPromise!Stand(b) = "active" =>
            ArtifactView'[b] = ArtifactPromise!GivesWay(b)
      <4> SUFFICES ASSUME NEW b \in Artifacts, b # a, ArtifactView[b].standing = "active"
                   PROVE  ArtifactView'[b] = ArtifactPromise!GivesWay(b)
        BY DEF ArtifactPromise!Stand
      <4>1. /\ ArtifactView[b].by = artifact[b].by
            /\ ArtifactView[b].decider = artifact[b].decider
            /\ ArtifactView'[b] = [standing |-> "superseded", by |-> artifact[b].by,
                                   decider |-> artifact[b].decider]
        BY <1>4
      <4> QED
        BY <4>1 DEF ArtifactPromise!GivesWay, ArtifactPromise!Turned, ArtifactPromise!Change
    <3>3. \A b \in Artifacts : b # a /\ ArtifactPromise!Stand(b) # "active" =>
            ArtifactView'[b] = ArtifactView[b]
      BY <1>4 DEF ArtifactPromise!Stand
    <3> QED
      BY <3>1, <3>2, <3>3
  <2>2. ArtifactView' =
          [b \in Artifacts |->
            IF b = a THEN ArtifactPromise!Turned(a, "active", p)
            ELSE IF ArtifactPromise!Stand(b) = "active" THEN ArtifactPromise!GivesWay(b)
            ELSE ArtifactView[b]]
    BY <1>5, <2>1
  <2> QED
    BY <1>1, <1>3, <2>2 DEF ArtifactPromise!Approve, ArtifactPromise!Stand
<1>7. a \in Artifacts
  BY DEF a
<1> QED
  BY <1>1, <1>6, <1>7 DEF ArtifactPromise!ChangeNext

\* A step of a thread is a proposal, a rejection, an approval, or nothing at all to
\* whoever reads the rows for their promise.
LEMMA ArtifactImplements ==
  ASSUME ArtifactInv, NEW t \in Threads, ArtifactStep(t)
  PROVE  ArtifactPromise!ChangeNext \/ UNCHANGED ArtifactView
<1> USE AuditLedgerAssumption DEF ArtifactInv
<1>1. CASE \E p \in People : RequestArtifact(t, p)
  <2>1. PICK p \in People, a \in Artifacts :
          /\ Versions({"pending", "materializing"}) = {}
          /\ artifact[a].status = "absent"
          /\ artifact' = [artifact EXCEPT ![a].status = "pending", ![a].by = p]
    BY <1>1 DEF RequestArtifact
  <2>2. /\ artifact[a] = NoArtifact
        /\ \A b \in Artifacts : artifact[b].status \notin {"pending", "materializing"}
    BY <2>1 DEF ArtifactShape, Versions
  <2>3. /\ artifact'[a].status = "pending" /\ artifact'[a].by = p
        /\ artifact'[a].decider = Nobody
        /\ \A b \in Artifacts : b # a => artifact'[b] = artifact[b]
    BY <2>1, <2>2 DEF ArtifactShape, ArtifactRow, NoArtifact
  <2>4. ArtifactView[a].standing = "absent"
    BY <2>1 DEF ArtifactView, Proposed
  <2>5. \A b \in Artifacts : ArtifactView[b].standing # "pending"
    BY <2>2 DEF ArtifactView, Proposed
  <2>6. ArtifactView' =
          [ArtifactView EXCEPT ![a] = [standing |-> "pending", by |-> p, decider |-> Nobody]]
    BY <2>3 DEF ArtifactView, Proposed
  <2>7. ArtifactPromise!Propose(a, p)
    BY <2>4, <2>5, <2>6 DEF ArtifactPromise!Propose, ArtifactPromise!Stand,
       ArtifactPromise!Change
  <2> QED
    BY <2>7 DEF ArtifactPromise!ChangeNext
<1>2. CASE \E p \in People, a \in Artifacts : RejectArtifact(t, a, p)
  <2>1. PICK p \in People, a \in Artifacts :
          /\ artifact[a].status = "pending" /\ artifact[a].by # p
          /\ artifact' = [artifact EXCEPT ![a].status = "rejected", ![a].decider = p]
    BY <1>2 DEF RejectArtifact
  <2>2. /\ artifact'[a].status = "rejected" /\ artifact'[a].by = artifact[a].by
        /\ artifact'[a].decider = p
        /\ \A b \in Artifacts : b # a => artifact'[b] = artifact[b]
    BY <2>1 DEF ArtifactShape, ArtifactRow
  <2>3. ArtifactView[a].standing = "pending" /\ ArtifactView[a].by = artifact[a].by
    BY <2>1 DEF ArtifactView, Proposed
  <2>4. ArtifactView' =
          [ArtifactView EXCEPT ![a] = [standing |-> "rejected", by |-> artifact[a].by,
                                       decider |-> p]]
    BY <2>2 DEF ArtifactView, Proposed
  <2>5. ArtifactPromise!TurnDown(a, p)
    BY <2>1, <2>3, <2>4 DEF ArtifactPromise!TurnDown, ArtifactPromise!Stand,
       ArtifactPromise!Turned, ArtifactPromise!Change
  <2> QED
    BY <2>5 DEF ArtifactPromise!ChangeNext
<1>3. CASE \E p \in People, a \in Artifacts : ClaimActivation(t, a, p)
  <2>1. PICK p \in People, a \in Artifacts : ClaimActivation(t, a, p)
    BY <1>3
  <2>2. /\ artifact[a].status = "pending" \/ Proposed(artifact[a])
        /\ Proposed(artifact'[a]) /\ artifact'[a].by = artifact[a].by
        /\ \A b \in Artifacts : b # a => artifact'[b] = artifact[b]
    BY <2>1 DEF ClaimActivation, MayClaim, ArtifactShape, ArtifactRow, Proposed
  <2>3. \A b \in Artifacts : Unmoved(b)
    BY <2>2 DEF ArtifactShape, Unmoved, Unclaimed
  <2> QED
    BY <2>3, ArtifactStutters
<1>4. CASE Complete(t) \/ CompleteFails(t)
  <2>1. Stage(t) \in Activating
    BY <1>4 DEF Complete, CompleteFails, Activating
  <2>2. activation[t].artifact \in Artifacts
    BY <2>1 DEF ActivationShape
  <2>3. CASE Owns(t) /\ artifact' = Activated(activation[t].artifact)
    BY <2>2, <2>3, CompletionApproves
  <2>4. CASE UNCHANGED artifact
    BY <2>4 DEF ArtifactView
  <2> QED
    BY <1>4, <2>3, <2>4 DEF Complete, CompleteFails
<1>5. CASE Abandon(t)
  <2>1. CASE ~Owns(t)
    BY <1>5, <2>1 DEF Abandon, ArtifactView
  <2>2. CASE Owns(t)
    <3> DEFINE a == activation[t].artifact
    <3>1. a \in Artifacts /\ Proposed(artifact[a])
      BY <1>5, <2>2 DEF Abandon, Activating, ActivationShape, Owns, Proposed
    <3>2. /\ artifact'[a].status = "pending" /\ artifact'[a].decider = Nobody
          /\ artifact'[a].by = artifact[a].by
          /\ \A b \in Artifacts : b # a => artifact'[b] = artifact[b]
      BY <1>5, <2>2, <3>1 DEF Abandon, ArtifactShape, ArtifactRow
    <3> HIDE DEF a
    <3>3. \A b \in Artifacts : Unmoved(b)
      BY <3>1, <3>2 DEF Unmoved, Unclaimed
    <3> QED
      BY <3>3, ArtifactStutters
  <2> QED
    BY <2>1, <2>2
<1>6. CASE \/ Snapshot(t) \/ Materialize(t) \/ MaterializeFails(t) \/ LoseClaim(t)
           \/ Undo(t) \/ UndoFails(t) \/ ActivationRaises(t)
  <2>1. artifact' = artifact
    BY <1>6 DEF Snapshot, Materialize, MaterializeFails, LoseClaim, Undo, UndoFails,
       ActivationRaises, artifactVars
  <2> QED
    BY <2>1 DEF ArtifactView
<1> QED
  BY <1>1, <1>2, <1>3, <1>4, <1>5, <1>6 DEF ArtifactStep

\* The rows stay well-formed through a step of a thread,
LEMMA ArtifactKeepsShape ==
  ASSUME ArtifactInv, NEW t \in Threads, ArtifactStep(t)
  PROVE  ArtifactShape'
<1> USE AuditLedgerAssumption DEF ArtifactInv, ArtifactShape, ArtifactRow, ArtifactStatuses,
    Proposed
<1>1. CASE \E p \in People : RequestArtifact(t, p)
  BY <1>1 DEF RequestArtifact, NoArtifact
<1>2. CASE \E p \in People, a \in Artifacts : RejectArtifact(t, a, p)
  BY <1>2 DEF RejectArtifact
<1>3. CASE \E p \in People, a \in Artifacts : ClaimActivation(t, a, p)
  BY <1>3 DEF ClaimActivation, MayClaim
<1>4. CASE Complete(t) \/ CompleteFails(t)
  <2> DEFINE a == activation[t].artifact
  <2>1. a \in Artifacts
    BY <1>4 DEF Complete, CompleteFails, Activating, ActivationShape
  <2>2. CASE artifact' = Activated(a)
    <3> HIDE DEF a
    <3>1. \A b \in Artifacts :
            /\ [artifact[b] EXCEPT !.status = "active", !.effective = TRUE, !.stale = FALSE]
                 \in ArtifactRow
            /\ [artifact[b] EXCEPT !.status = "superseded"] \in ArtifactRow
      OBVIOUS
    <3>2. artifact' \in [Artifacts -> ArtifactRow]
      BY <2>1, <2>2, <3>1 DEF Activated
    <3>3. \A b \in Artifacts :
            \/ artifact'[b].status \in {"active", "superseded"}
            \/ artifact'[b] = artifact[b]
      BY <2>1, <2>2 DEF Activated
    <3> QED
      BY <3>2, <3>3
  <2>3. CASE UNCHANGED artifact
    BY <2>3
  <2> QED
    BY <1>4, <2>2, <2>3 DEF Complete, CompleteFails
<1>5. CASE Abandon(t)
  <2> DEFINE a == activation[t].artifact
  <2>1. a \in Artifacts
    BY <1>5 DEF Abandon, Activating, ActivationShape
  <2>2. CASE ~Owns(t)
    BY <1>5, <2>2 DEF Abandon
  <2>3. CASE Owns(t)
    <3> HIDE DEF a
    <3>1. artifact' = [artifact EXCEPT ![a].status = "pending", ![a].decider = Nobody,
                                       ![a].stale = FALSE]
      BY <1>5, <2>3 DEF Abandon, a
    <3>2. artifact' \in [Artifacts -> ArtifactRow]
      <4> DEFINE one == [artifact EXCEPT ![a].status = "pending"]
                 two == [one EXCEPT ![a].decider = Nobody]
                 three == [two EXCEPT ![a].stale = FALSE]
      <4>1. one \in [Artifacts -> ArtifactRow]
        BY <2>1
      <4> HIDE DEF one
      <4>2. two \in [Artifacts -> ArtifactRow]
        BY <2>1, <4>1
      <4> HIDE DEF two
      <4>3. three \in [Artifacts -> ArtifactRow]
        BY <2>1, <4>2
      <4> QED
        BY <3>1, <4>3 DEF one, two
    <3>3. /\ artifact'[a].status = "pending" /\ artifact'[a].decider = Nobody
          /\ \A b \in Artifacts : b # a => artifact'[b] = artifact[b]
      BY <2>1, <3>1
    <3> QED
      BY <3>2, <3>3
  <2> QED
    BY <2>2, <2>3
<1>6. CASE \/ Snapshot(t) \/ Materialize(t) \/ MaterializeFails(t) \/ LoseClaim(t)
           \/ Undo(t) \/ UndoFails(t) \/ ActivationRaises(t)
  <2>1. artifact' = artifact
    BY <1>6 DEF Snapshot, Materialize, MaterializeFails, LoseClaim, Undo, UndoFails,
       ActivationRaises, artifactVars
  <2> QED
    BY <2>1
<1> QED
  BY <1>1, <1>2, <1>3, <1>4, <1>5, <1>6 DEF ArtifactStep

\* A thread whose activation is not touched and that is at no stage of one it was not at.
LEMMA ActivationStays ==
  ASSUME ActivationShape, activation' = activation,
         \A u \in Threads : Stage(u)' \in Activating => Stage(u) \in Activating
  PROVE  ActivationShape'
BY DEF ActivationShape

\* A thread that gives its activation up.
LEMMA ActivationEnds ==
  ASSUME CallShape, ActivationShape, NEW t \in Threads,
         activation' = [activation EXCEPT ![t] = NoActivation],
         \A u \in Threads : u # t => call'[u] = call[u],
         call'[t].stage \notin Activating
  PROVE  ActivationShape'
BY DEF ActivationShape, NoActivation, Activation, Stage

\* and so do the activations.
LEMMA ActivationKeepsShape ==
  ASSUME CallShape, ArtifactInv, NEW t \in Threads, ArtifactStep(t)
  PROVE  ActivationShape'
<1> USE DEF ArtifactInv
<1>1. CASE \/ \E p \in People : RequestArtifact(t, p)
           \/ \E p \in People, a \in Artifacts : RejectArtifact(t, a, p)
  <2>1. PICK record : ToRecord(t, record) /\ activation' = activation
    BY <1>1 DEF RequestArtifact, RejectArtifact
  <2>2. /\ \A u \in Threads : u # t => call'[u] = call[u]
        /\ call'[t].stage = "append"
    BY <2>1 DEF ToRecord, CallShape
  <2> QED
    BY <2>1, <2>2, ActivationStays DEF Stage, Activating
<1>2. CASE \E p \in People, a \in Artifacts : ClaimActivation(t, a, p)
  <2>1. PICK p \in People, a \in Artifacts :
          /\ activation' = [activation EXCEPT ![t] = Activation(a, p, BuiltIn)]
          /\ GotoStage(t, "claimed")
    BY <1>2 DEF ClaimActivation
  <2>2. \A u \in Threads : u # t => call'[u] = call[u]
    BY <2>1 DEF GotoStage, CallShape
  <2> QED
    BY <2>1, <2>2 DEF ActivationShape, Activation, Stage
<1>3. CASE Snapshot(t)
  <2>1. PICK restore : activation' =
          [activation EXCEPT ![t] = Activation(activation[t].artifact, activation[t].who, restore)]
    BY <1>3 DEF Snapshot
  <2>2. Stage(t) \in Activating /\ \A u \in Threads : u # t => call'[u] = call[u]
    BY <1>3 DEF Snapshot, GotoStage, CallShape, Activating
  <2> QED
    BY <2>1, <2>2 DEF ActivationShape, Activation, Stage
<1>4. CASE Materialize(t) \/ MaterializeFails(t) \/ LoseClaim(t) \/ CompleteFails(t) \/ Undo(t)
  <2>1. /\ Stage(t) \in Activating
        /\ activation' = activation
        /\ \A u \in Threads : u # t => call'[u] = call[u]
    BY <1>4 DEF Materialize, MaterializeFails, LoseClaim, CompleteFails, Undo, artifactVars,
       GotoStage, CallShape, Activating
  <2> QED
    BY <2>1, ActivationStays DEF Stage
<1>5. CASE Complete(t)
  <2>1. /\ \A u \in Threads : u # t => call'[u] = call[u]
        /\ call'[t].stage = "append"
        /\ activation' = [activation EXCEPT ![t] = NoActivation]
    BY <1>5 DEF Complete, ToRecord, CallShape
  <2> QED
    BY <2>1, ActivationEnds DEF Activating
<1>6. CASE UndoFails(t) \/ Abandon(t) \/ ActivationRaises(t)
  <2>1. /\ \A u \in Threads : u # t => call'[u] = call[u]
        /\ call'[t].stage = "idle"
        /\ activation' = [activation EXCEPT ![t] = NoActivation]
    BY <1>6 DEF UndoFails, Abandon, ActivationRaises, Finished, Idle, CallShape
  <2> QED
    BY <2>1, ActivationEnds DEF Activating
<1> QED
  BY <1>1, <1>2, <1>3, <1>4, <1>5, <1>6 DEF ArtifactStep

\* No other service sends a thread to a stage of an activation.
NobodyActivates == \A u \in Threads : Stage(u)' \in Activating => Stage(u) \in Activating

\* A call that goes to a stage of its own service.
LEMMA ReplacedElsewhere ==
  ASSUME CallShape, NEW t \in Threads, NEW stage, stage \notin Activating, NEW record, NEW head,
         call' = [call EXCEPT ![t] = [stage |-> stage, record |-> record, head |-> head]]
  PROVE  NobodyActivates
BY DEF CallShape, NobodyActivates, Stage

\* Rollout controls answer with a record,
LEMMA ControlElsewhereInCalls ==
  ASSUME CallShape, NEW t \in Threads, ControlStep(t)
  PROVE  NobodyActivates
<1>1. PICK record : ToRecord(t, record)
  BY DEF ControlStep, Request, Decide, EmergencyDisable
<1> QED
  BY <1>1, ReplacedElsewhere DEF ToRecord, Activating

\* the ledger ends a call, or brings it to its insert,
LEMMA LedgerElsewhereInCalls ==
  ASSUME CallShape, NEW t \in Threads, LedgerStep(t)
  PROVE  NobodyActivates
<1>1. CASE ReadHead(t)
  BY <1>1, ReplacedElsewhere DEF ReadHead, Activating
<1>2. CASE Insert(t)
  BY <1>2, ReplacedElsewhere DEF Insert, Idle, Activating
<1>3. CASE AppendFails(t)
  BY <1>3 DEF AppendFails, Drop, Idle, Activating, NobodyActivates, Stage, CallShape
<1> QED
  BY <1>1, <1>2, <1>3 DEF LedgerStep

\* and an outcome is reported, recorded or refused.
LEMMA OutcomeElsewhereInCalls ==
  ASSUME CallShape, NEW t \in Threads, OutcomeStep(t)
  PROVE  NobodyActivates
<1>1. CASE \E e \in Events, content \in Contents : LookUp(t, e, content)
  <2>1. PICK record :
          call' = [call EXCEPT ![t] = [stage |-> "report", record |-> record, head |-> Genesis]]
    BY <1>1 DEF LookUp
  <2> QED
    BY <2>1, ReplacedElsewhere DEF Activating
<1>2. CASE RecordOutcome(t)
  BY <1>2, ReplacedElsewhere DEF RecordOutcome, ToRecord, Activating
<1>3. CASE RefuseOutcome(t)
  BY <1>3, ReplacedElsewhere DEF RefuseOutcome, Idle, Activating
<1> QED
  BY <1>1, <1>2, <1>3 DEF OutcomeStep

\* The rows of a process that dies, or that age, promise what they did.
LEMMA EventsKeepArtifacts ==
  ASSUME CallShape, ArtifactInv, \/ \E a \in Artifacts : Elapse(a)
                                \/ \E p \in Processes : Restart(p)
  PROVE  ArtifactInv' /\ UNCHANGED ArtifactView
<1>1. CASE \E a \in Artifacts : Elapse(a)
  <2>1. PICK a \in Artifacts : Elapse(a)
    BY <1>1
  <2>2. artifact' = [artifact EXCEPT ![a].stale = TRUE] /\ activation' = activation /\ call' = call
    BY <2>1 DEF Elapse, ledgerVars
  <2>3. /\ artifact'[a].status = artifact[a].status /\ artifact'[a].by = artifact[a].by
        /\ artifact'[a].decider = artifact[a].decider /\ artifact[a].status = "materializing"
        /\ \A b \in Artifacts : b # a => artifact'[b] = artifact[b]
    BY <2>1, <2>2 DEF Elapse, ArtifactInv, ArtifactShape, ArtifactRow
  <2>4. artifact' \in [Artifacts -> ArtifactRow]
    BY <2>2 DEF ArtifactInv, ArtifactShape, ArtifactRow
  <2>5. ArtifactShape'
    BY <2>3, <2>4 DEF ArtifactInv, ArtifactShape, Proposed
  <2>6. ActivationShape'
    BY <2>2, ActivationStays DEF ArtifactInv, Stage
  <2>7. \A b \in Artifacts : Unmoved(b)
    BY <2>3 DEF Unmoved
  <2> QED
    BY <2>5, <2>6, <2>7, ArtifactStutters DEF ArtifactInv
<1>2. CASE \E p \in Processes : Restart(p)
  <2>1. PICK dead :
          /\ call' = [t \in Threads |-> IF t \in dead THEN Idle ELSE call[t]]
          /\ activation' = [t \in Threads |-> IF t \in dead THEN NoActivation ELSE activation[t]]
          /\ artifact' = artifact
    BY <1>2 DEF Restart, Drop
  <2>2. ActivationShape'
    BY <2>1 DEF ArtifactInv, ActivationShape, NoActivation, Activation, Idle, Activating, Stage
  <2>3. ArtifactShape'
    BY <2>1 DEF ArtifactInv, ArtifactShape
  <2> QED
    BY <2>1, <2>2, <2>3 DEF ArtifactInv, ArtifactView
<1> QED
  BY <1>1, <1>2

\* No version is requested at first,
LEMMA ArtifactStarts == Init => ArtifactInv /\ ArtifactPromise!ChangeInit
<1> SUFFICES ASSUME Init
             PROVE  ArtifactInv /\ ArtifactPromise!ChangeInit
  OBVIOUS
<1>1. /\ artifact = [a \in Artifacts |-> NoArtifact]
      /\ activation = [t \in Threads |-> NoActivation]
      /\ \A t \in Threads : Stage(t) = "idle"
  BY DEF Init, ArtifactInit, LedgerInit, Stage, Idle
<1>2. NoArtifact \in ArtifactRow
  BY DEF NoArtifact, ArtifactRow, ArtifactStatuses
<1>3. ArtifactShape
  BY <1>1, <1>2 DEF ArtifactShape, NoArtifact, Proposed
<1>4. ActivationShape
  BY <1>1 DEF ActivationShape, NoActivation, Activation, Activating
<1>5. ArtifactPromise!ChangeInit
  BY <1>1 DEF ArtifactPromise!ChangeInit, ArtifactPromise!Unasked, ArtifactPromise!Change,
     ArtifactView, NoArtifact, Proposed
<1> QED
  BY <1>3, <1>4, <1>5 DEF ArtifactInv

\* and every step keeps the invariant and does what GovernedChange allows.
LEMMA ArtifactInductive ==
  LedgerInv /\ ArtifactInv /\ [Next]_vars
    => ArtifactInv' /\ [ArtifactPromise!ChangeNext]_ArtifactView
<1> SUFFICES ASSUME LedgerInv, ArtifactInv, [Next]_vars
             PROVE  ArtifactInv' /\ [ArtifactPromise!ChangeNext]_ArtifactView
  OBVIOUS
<1>1. CallShape
  BY DEF LedgerInv
<1>2. CASE \E t \in Threads : ArtifactStep(t)
  BY <1>1, <1>2, ArtifactKeepsShape, ActivationKeepsShape, ArtifactImplements DEF ArtifactInv
<1>3. CASE (\E a \in Artifacts : Elapse(a)) \/ (\E p \in Processes : Restart(p))
  BY <1>1, <1>3, EventsKeepArtifacts
<1>4. ASSUME NobodyActivates, UNCHANGED artifactVars
      PROVE  ArtifactInv' /\ UNCHANGED ArtifactView
  <2>1. activation' = activation /\ artifact' = artifact
    BY <1>4 DEF artifactVars
  <2>2. ArtifactShape' /\ UNCHANGED ArtifactView
    BY <2>1 DEF ArtifactInv, ArtifactShape, ArtifactView
  <2>3. ActivationShape'
    BY <1>4, <2>1, ActivationStays DEF ArtifactInv, NobodyActivates
  <2> QED
    BY <2>2, <2>3 DEF ArtifactInv
<1>5. CASE Ledger
  BY <1>1, <1>4, <1>5, LedgerElsewhereInCalls DEF Ledger
<1>6. CASE Control
  BY <1>1, <1>4, <1>6, ControlElsewhereInCalls DEF Control
<1>7. CASE Outcome
  <2>1. CASE EraseCustomer
    BY <1>4, <1>7, <2>1 DEF Outcome, EraseCustomer, ledgerVars, NobodyActivates, Stage
  <2>2. CASE \E t \in Threads : OutcomeStep(t)
    BY <1>1, <1>4, <1>7, <2>2, OutcomeElsewhereInCalls DEF Outcome
  <2> QED
    BY <1>7, <2>1, <2>2 DEF Outcome
<1>8. CASE UNCHANGED vars
  BY <1>4, <1>8 DEF vars, ledgerVars, NobodyActivates, Stage
<1> QED
  BY <1>2, <1>3, <1>5, <1>6, <1>7, <1>8 DEF Next, Artifact

\* Versions of an artifact type are changed as GovernedChange promises, although an approval
\* is a claim, a materialization and a completion: whatever fails or dies in between, and
\* whoever takes a claim over, a version is active by the word of a second person alone
\* (claim_governed_artifact_activation, complete_governed_artifact_activation).
THEOREM ArtifactsGoverned == Spec => ArtifactsAreGoverned
BY LedgerStarts, LedgerInductive, ArtifactStarts, ArtifactInductive, PTL
DEF Spec, ArtifactsAreGoverned, ArtifactPromise!ChangeSpec
=============================================================================

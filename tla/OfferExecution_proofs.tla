------------------------ MODULE OfferExecution_proofs ------------------------
(***************************************************************************)
(* Proofs about OfferExecution, for any set of offers and of request       *)
(* threads, and however long a call to the provider takes.                 *)
(***************************************************************************)
EXTENDS OfferExecution, TLAPS

\* A step is one of the environment's or one of a request thread's.
LEMMA TypeStep == TypeOK /\ [Next]_vars => TypeOK'
<1> SUFFICES ASSUME TypeOK, [Next]_vars PROVE TypeOK'
  OBVIOUS
<1> USE DEF TypeOK, Calls, Stages, Operations, Statuses, clock, row
<1>1. CASE Tick
  <2>1. \A s \in Sessions : Holding(s) => call[s].offer \in Offers
    BY DEF Holding, Idle
  <2>2. overstayed' \subseteq Offers /\ now' \in Nat
    BY <1>1, <2>1 DEF Tick
  <2>3. QED
    BY <1>1, <2>2 DEF Tick
<1>2. CASE GrantConsent \/ RevokeConsent
  BY <1>2 DEF GrantConsent, RevokeConsent
<1>3. CASE Erase
  BY <1>3 DEF Erase
<1>4. CASE ChangeRollout
  BY <1>4 DEF ChangeRollout
<1>5. ASSUME NEW o \in Offers, NEW i \in InitialStatuses, CreateRecommendation(o, i) PROVE TypeOK'
  BY <1>5 DEF CreateRecommendation, SetStatus, InitialStatuses
<1>6. ASSUME NEW o \in Offers, CreateHumanReview(o) \/ LoseHumanReview(o) PROVE TypeOK'
  BY <1>6 DEF CreateHumanReview, LoseHumanReview
<1>7. ASSUME NEW o \in Offers, NEW d \in {"approved", "rejected"}, DecideHumanReview(o, d)
      PROVE TypeOK'
  BY <1>7 DEF DecideHumanReview, SetStatus
<1>8. ASSUME NEW o \in Offers, ProviderActs(o) PROVE TypeOK'
  BY <1>8 DEF ProviderActs
<1>9. ASSUME NEW s \in Sessions, NEW op \in Operations, NEW o \in Offers, Begin(s, op, o)
      PROVE TypeOK'
  BY <1>9 DEF Begin
<1>10. ASSUME NEW s \in Sessions, VerifyConsent(s) PROVE TypeOK'
  BY <1>10 DEF VerifyConsent, Goto, Finish, Idle
<1>11. ASSUME NEW s \in Sessions, Crash(s) \/ Refuse(s) PROVE TypeOK'
  BY <1>11 DEF Crash, Refuse, Finish
<1>12. ASSUME NEW s \in Sessions, ExpireOnPresent(s) \/ Present(s) \/ ExpireOnAuthorize(s)
       PROVE TypeOK'
  BY <1>12 DEF ExpireOnPresent, Present, ExpireOnAuthorize, SetStatus, Finish, Stage
<1>13. ASSUME NEW s \in Sessions, Authorize(s) PROVE TypeOK'
  BY <1>13 DEF Authorize, SetStatus, Goto, Stage, Idle
<1>14. ASSUME NEW s \in Sessions, GrantActionConsent(s) PROVE TypeOK'
  BY <1>14 DEF GrantActionConsent, Finish
<1>15. ASSUME NEW s \in Sessions, ClaimExecution(s) PROVE TypeOK'
  <2>1. call[s] \in Calls /\ call[s].offer \in Offers
    BY <1>15 DEF ClaimExecution, Stage, Idle
  <2>2. status' \in [Offers -> Statuses] /\ startedAt' \in [Offers -> Nat]
    BY <1>15, <2>1 DEF ClaimExecution, SetStatus
  <2>3. provider' \in [Offers -> {"idle", "asked", "done"}]
    BY <1>15, <2>1 DEF ClaimExecution
  <2>4. call' \in [Sessions -> Calls \cup {Idle}]
    BY <1>15, <2>1 DEF ClaimExecution
  <2>5. QED
    BY <1>15, <2>2, <2>3, <2>4 DEF ClaimExecution
<1>16. ASSUME NEW s \in Sessions, ProviderAnswers(s) \/ ProviderFails(s) PROVE TypeOK'
  BY <1>16 DEF ProviderAnswers, ProviderFails, Goto, Idle
<1>17. ASSUME NEW s \in Sessions, CompleteExecution(s) PROVE TypeOK'
  <2>1. call[s] \in Calls /\ call[s].offer \in Offers
    BY <1>17 DEF CompleteExecution, Idle
  <2>2. status' \in [Offers -> Statuses] /\ recon' \in [Offers -> BOOLEAN]
    BY <1>17, <2>1 DEF CompleteExecution, SetStatus
  <2>3. call' \in [Sessions -> Calls \cup {Idle}]
    BY <1>17, <2>1 DEF CompleteExecution, Goto, Finish
  <2>4. QED
    BY <1>17, <2>2, <2>3 DEF CompleteExecution
<1>18. ASSUME NEW s \in Sessions, AbandonExecution(s) PROVE TypeOK'
  BY <1>18 DEF AbandonExecution, SetStatus, Finish
<1>19. CASE UNCHANGED vars
  BY <1>19 DEF vars
<1>20. QED
  BY <1>1, <1>2, <1>3, <1>4, <1>5, <1>6, <1>7, <1>8, <1>9, <1>10, <1>11, <1>12, <1>13, <1>14,
     <1>15, <1>16, <1>17, <1>18, <1>19 DEF Next, Environment, Request

LEMMA InitTypeOK == Init => TypeOK
<1> SUFFICES ASSUME Init PROVE TypeOK
  OBVIOUS
<1>1. contained \in BOOLEAN /\ recon \in [Offers -> BOOLEAN]
  BY DEF Init
<1>2. QED
  BY <1>1 DEF Init, TypeOK, Statuses

\* Every table and every thread stays well typed.
THEOREM TypeCorrect == Spec => []TypeOK
BY InitTypeOK, TypeStep, PTL DEF Spec

-----------------------------------------------------------------------------
\* What a thread that is not idle carries.
LEMMA WorkingCall ==
  ASSUME TypeOK, NEW s \in Sessions, call[s].at # "idle"
  PROVE  call[s] \in Calls /\ call[s].offer \in Offers /\ call[s].claimed \in Nat
BY DEF TypeOK, Calls, Idle

\* Moving to another stage keeps the operation, the offer and the claim time.
LEMMA GotoCall ==
  ASSUME TypeOK, NEW s \in Sessions, call[s].at # "idle", NEW at, Goto(s, at)
  PROVE  /\ \A t \in Sessions \ {s} : call'[t] = call[t]
         /\ call'[s].at = at
         /\ call'[s].op = call[s].op
         /\ call'[s].offer = call[s].offer
         /\ call'[s].claimed = call[s].claimed
<1>1. call[s] \in Calls
  BY WorkingCall
<1>2. /\ \A t \in Sessions \ {s} : call'[t] = call[t]
      /\ call'[s] = [call[s] EXCEPT !.at = at]
  BY DEF Goto, TypeOK
<1>3. QED
  BY <1>1, <1>2 DEF Calls

LEMMA FinishCall ==
  ASSUME TypeOK, NEW s \in Sessions, Finish(s)
  PROVE  /\ \A t \in Sessions \ {s} : call'[t] = call[t]
         /\ call'[s] = Idle
         /\ call'[s].at = "idle"
BY DEF Finish, TypeOK, Idle

\* A held claim that was not overstayed is too young to be stale, so nobody else can claim.
LEMMA HeldIsNotClaimable ==
  ASSUME TypeOK, ClaimInv, NEW s \in Sessions, Holding(s), call[s].offer \notin overstayed
  PROVE  ~Claimable(call[s].offer)
<1>1. call[s].claimed \in Nat /\ call[s].offer \in Offers /\ Owns(s)
  BY WorkingCall DEF Holding, ClaimInv
<1>2. startedAt[call[s].offer] \in Nat /\ now \in Nat
  BY <1>1 DEF TypeOK
<1>3. CASE status[call[s].offer] = "executing"
  <2>1. now < startedAt[call[s].offer] + ExecTimeout
    BY <1>1, <1>3 DEF Owns
  <2>2. now - startedAt[call[s].offer] < ExecTimeout
    BY <1>2, <2>1, TimingAssumption
  <2>3. QED
    BY <1>2, <1>3, <2>2, TimingAssumption DEF Claimable, ClaimStale
<1>4. CASE status[call[s].offer] \in {"expired", "erased"}
  BY <1>4 DEF Claimable
<1>5. QED
  BY <1>1, <1>3, <1>4 DEF Owns

\* The claim a thread holds stays its own, and only its own.
LEMMA OwnerStep ==
  TypeOK /\ ClaimInv /\ SingleOwner /\ [Next]_vars => ClaimInv' /\ SingleOwner'
<1> SUFFICES ASSUME TypeOK, ClaimInv, SingleOwner, [Next]_vars PROVE ClaimInv' /\ SingleOwner'
  OBVIOUS
<1> USE DEF Holding, Owns, clock
<1>1. CASE Tick
  <2>1. \A s \in Sessions : Holding(s) => call[s].claimed \in Nat
    BY WorkingCall
  <2>2. /\ UNCHANGED <<status, startedAt, provider, call>> /\ now' = now + 1
        /\ overstayed \subseteq overstayed'
        /\ \A s \in Sessions : Holding(s) /\ call[s].offer \notin overstayed' =>
             ~(call[s].claimed + ExecTimeout <= now + 1)
    BY <1>1 DEF Tick, row
  <2>3. \A s \in Sessions : Holding(s) /\ call[s].offer \notin overstayed' =>
          now' < call[s].claimed + ExecTimeout
    BY <2>1, <2>2, TimingAssumption DEF TypeOK
  <2>4. SingleOwner'
    BY <2>2 DEF SingleOwner
  <2>5. ClaimInv'
    BY <2>2, <2>3 DEF ClaimInv
  <2>6. QED
    BY <2>4, <2>5
<1>2. CASE \/ GrantConsent \/ RevokeConsent \/ ChangeRollout
           \/ \E o \in Offers : CreateHumanReview(o) \/ LoseHumanReview(o)
  BY <1>2 DEF GrantConsent, RevokeConsent, ChangeRollout, CreateHumanReview, LoseHumanReview,
              row, ClaimInv, SingleOwner
<1>3. CASE Erase
  <2>1. \A s \in Sessions : Holding(s) => call[s].offer \in Offers
    BY WorkingCall
  <2>2. QED
    BY <1>3, <2>1 DEF Erase, ClaimInv, SingleOwner, Live, Statuses
<1>4. ASSUME NEW o \in Offers, NEW i \in InitialStatuses, CreateRecommendation(o, i)
      PROVE ClaimInv' /\ SingleOwner'
  BY <1>4, WorkingCall DEF CreateRecommendation, SetStatus, TypeOK, ClaimInv, SingleOwner
<1>5. ASSUME NEW o \in Offers, NEW d \in {"approved", "rejected"}, DecideHumanReview(o, d)
      PROVE ClaimInv' /\ SingleOwner'
  BY <1>5, WorkingCall DEF DecideHumanReview, SetStatus, TypeOK, ClaimInv, SingleOwner
<1>6. ASSUME NEW o \in Offers, ProviderActs(o) PROVE ClaimInv' /\ SingleOwner'
  BY <1>6, WorkingCall DEF ProviderActs, row, TypeOK, ClaimInv, SingleOwner
<1>7. ASSUME NEW s \in Sessions,
             \/ \E op \in Operations, o \in Offers : Begin(s, op, o)
             \/ VerifyConsent(s) \/ Crash(s) \/ Refuse(s) \/ GrantActionConsent(s)
      PROVE ClaimInv' /\ SingleOwner'
  <2>1. /\ \A t \in Sessions \ {s} : call'[t] = call[t]
        /\ call'[s].at \notin {"calling", "returned", "failed"}
    <3>1. ASSUME NEW op \in Operations, NEW o \in Offers, Begin(s, op, o)
          PROVE  (\A t \in Sessions \ {s} : call'[t] = call[t]) /\ call'[s].at = "consent"
      BY <3>1 DEF Begin, TypeOK
    <3>2. CASE VerifyConsent(s)
      BY <3>2, GotoCall, FinishCall DEF VerifyConsent
    <3>3. CASE Crash(s) \/ Refuse(s) \/ GrantActionConsent(s)
      BY <3>3, FinishCall DEF Crash, Refuse, GrantActionConsent
    <3>4. QED
      BY <1>7, <3>1, <3>2, <3>3
  <2>2. UNCHANGED <<now, overstayed, status, startedAt, provider>>
    BY <1>7 DEF Begin, VerifyConsent, Crash, Refuse, GrantActionConsent, row
  <2>3. QED
    BY <2>1, <2>2 DEF ClaimInv, SingleOwner
<1>8. ASSUME NEW s \in Sessions,
             ExpireOnPresent(s) \/ Present(s) \/ ExpireOnAuthorize(s) \/ Authorize(s)
      PROVE ClaimInv' /\ SingleOwner'
  <2>1. call[s].at = "transact" /\ call[s].offer \in Offers
    BY <1>8, WorkingCall DEF ExpireOnPresent, Present, ExpireOnAuthorize, Authorize, Stage
  <2>2. /\ \A t \in Sessions \ {s} : call'[t] = call[t]
        /\ call'[s].at \in {"idle", "grant"}
        /\ UNCHANGED <<now, overstayed, startedAt, provider>>
    BY <1>8, <2>1, GotoCall, FinishCall DEF ExpireOnPresent, Present, ExpireOnAuthorize, Authorize
  <2>3. \A o \in Offers : status[o] \in {"executing", "expired", "erased"} =>
          status'[o] = status[o] \/ status'[o] = "expired"
    BY <1>8, <2>1 DEF ExpireOnPresent, Present, ExpireOnAuthorize, Authorize, SetStatus, TypeOK
  <2>4. \A o \in Offers : status'[o] = "executing" => status[o] = "executing"
    BY <1>8, <2>1 DEF ExpireOnPresent, Present, ExpireOnAuthorize, Authorize, SetStatus, TypeOK
  <2>5. QED
    BY <2>1, <2>2, <2>3, <2>4, WorkingCall DEF ClaimInv, SingleOwner
<1>9. ASSUME NEW s \in Sessions, ClaimExecution(s) PROVE ClaimInv' /\ SingleOwner'
  <2>1. call[s] \in Calls /\ call[s].offer \in Offers
    BY <1>9, WorkingCall DEF ClaimExecution, Stage
  <2>2. \A t \in Sessions \ {s} : Holding(t) /\ call[t].offer \notin overstayed =>
          call[t].offer # call[s].offer
    BY <1>9, HeldIsNotClaimable DEF ClaimExecution
  <2>3. /\ \A t \in Sessions \ {s} : call'[t] = call[t]
        /\ call'[s] = [call[s] EXCEPT !.at = "calling", !.claimed = now]
        /\ call[s].op = "execute"
        /\ status' = [status EXCEPT ![call[s].offer] = "executing"]
        /\ startedAt' = [startedAt EXCEPT ![call[s].offer] = now]
        /\ now' = now /\ overstayed' = overstayed
    BY <1>9 DEF ClaimExecution, SetStatus, TypeOK, Stage
  <2>4. /\ call'[s].at = "calling" /\ call'[s].claimed = now
        /\ call'[s].offer = call[s].offer /\ call'[s].op = "execute"
    BY <2>1, <2>3 DEF Calls
  <2>6. SingleOwner'
    <3> SUFFICES ASSUME NEW t \in Sessions, NEW u \in Sessions, t # u, Holding(t)', Holding(u)',
                        call'[t].offer = call'[u].offer
                 PROVE  call'[t].offer \in overstayed
      BY <2>3 DEF SingleOwner
    <3>1. CASE t = s
      BY <2>2, <2>3, <2>4, <3>1
    <3>2. CASE u = s
      BY <2>2, <2>3, <2>4, <3>2
    <3>3. CASE t # s /\ u # s
      BY <2>3, <3>3 DEF SingleOwner
    <3>4. QED
      BY <3>1, <3>2, <3>3
  <2>7. ClaimInv'
    <3> SUFFICES ASSUME NEW t \in Sessions, Holding(t)'
                 PROVE  /\ call'[t].op = "execute"
                        /\ call'[t].at = "returned" => provider'[call'[t].offer] = "done"
                        /\ call'[t].offer \notin overstayed => Owns(t)'
      BY <2>3 DEF ClaimInv
    <3>1. CASE t = s
      <4>1. now < now + ExecTimeout
        BY TimingAssumption DEF TypeOK
      <4>2. status'[call[s].offer] = "executing" /\ startedAt'[call[s].offer] = now
        BY <2>1, <2>3 DEF TypeOK
      <4>3. QED
        BY <2>3, <2>4, <3>1, <4>1, <4>2
    <3>2. CASE t # s
      <4>1. Holding(t) /\ call[t].offer \in Offers /\ call'[t] = call[t]
        BY <2>3, <3>2, WorkingCall
      <4>2. provider[call[t].offer] = "done" => provider'[call[t].offer] = "done"
        BY <1>9, <4>1 DEF ClaimExecution, TypeOK
      <4>3. CASE call[t].offer \in overstayed
        BY <4>1, <4>2, <4>3 DEF ClaimInv
      <4>4. CASE call[t].offer \notin overstayed
        <5>1. call[t].offer # call[s].offer
          BY <2>2, <3>2, <4>1, <4>4
        <5>2. QED
          BY <2>1, <2>3, <4>1, <4>2, <4>4, <5>1 DEF ClaimInv, TypeOK
      <4>5. QED
        BY <4>3, <4>4
    <3>3. QED
      BY <3>1, <3>2
  <2>8. QED
    BY <2>6, <2>7
<1>10. ASSUME NEW s \in Sessions, ProviderAnswers(s) \/ ProviderFails(s)
       PROVE ClaimInv' /\ SingleOwner'
  <2>1. call[s] \in Calls /\ call[s].at = "calling"
    BY <1>10, WorkingCall DEF ProviderAnswers, ProviderFails
  <2>2. /\ \A t \in Sessions \ {s} : call'[t] = call[t]
        /\ call'[s].at \in {"returned", "failed"}
        /\ call'[s].offer = call[s].offer /\ call'[s].op = call[s].op
        /\ call'[s].claimed = call[s].claimed
        /\ call'[s].at = "returned" => provider[call[s].offer] = "done"
        /\ UNCHANGED <<now, overstayed, status, startedAt, provider>>
    BY <1>10, <2>1 DEF ProviderAnswers, ProviderFails, Goto, TypeOK, Calls, row
  <2>3. QED
    BY <2>1, <2>2 DEF ClaimInv, SingleOwner
<1>11. ASSUME NEW s \in Sessions, CompleteExecution(s) \/ AbandonExecution(s)
       PROVE ClaimInv' /\ SingleOwner'
  <2>1. call[s] \in Calls /\ call[s].offer \in Offers /\ Holding(s)
    BY <1>11, WorkingCall DEF CompleteExecution, AbandonExecution
  <2>2. /\ \A t \in Sessions \ {s} : call'[t] = call[t]
        /\ UNCHANGED <<now, overstayed, provider>>
    BY <1>11 DEF CompleteExecution, AbandonExecution, Goto, Finish, TypeOK
  <2>3. \A o \in Offers : o # call[s].offer =>
          status'[o] = status[o] /\ startedAt'[o] = startedAt[o]
    BY <1>11, <2>1 DEF CompleteExecution, AbandonExecution, SetStatus, TypeOK
  <2>4. CASE call'[s] = Idle
    BY <2>1, <2>2, <2>3, <2>4, WorkingCall DEF ClaimInv, SingleOwner, Idle
  <2>5. CASE call'[s] # Idle
    <3>1. /\ status[call[s].offer] # "executing"
          /\ call' = [call EXCEPT ![s] = [@ EXCEPT !.at = "failed"]]
          /\ UNCHANGED <<status, startedAt>>
      BY <1>11, <2>1, <2>5 DEF CompleteExecution, AbandonExecution, Goto, Finish, TypeOK
    <3>2. /\ call'[s].at = "failed" /\ call'[s].offer = call[s].offer
          /\ call'[s].op = call[s].op /\ call'[s].claimed = call[s].claimed
      BY <2>1, <3>1 DEF TypeOK, Calls
    <3>3. QED
      BY <2>1, <2>2, <3>1, <3>2 DEF ClaimInv, SingleOwner
  <2>6. QED
    BY <2>4, <2>5
<1>12. CASE UNCHANGED vars
  BY <1>12 DEF vars, ClaimInv, SingleOwner
<1>13. QED
  BY <1>1, <1>2, <1>3, <1>4, <1>5, <1>6, <1>7, <1>8, <1>9, <1>10, <1>11, <1>12
  DEF Next, Environment, Request

-----------------------------------------------------------------------------
\* A consent record, once made, is never removed: erasure withdraws it.
LEMMA ConsentRecordStays ==
  ASSUME TypeOK, [Next]_vars, NEW o \in Offers, consent[o] # "none"
  PROVE  consent'[o] # "none"
<1>1. o \in Purposes
  BY DEF Purposes
<1>2. CASE \/ GrantConsent \/ RevokeConsent \/ Erase
           \/ \E s \in Sessions : GrantActionConsent(s)
  BY <1>1, <1>2 DEF GrantConsent, RevokeConsent, Erase, GrantActionConsent, TypeOK
<1>3. CASE consent' = consent
  BY <1>3
<1>4. QED
  BY <1>2, <1>3 DEF Next, Environment, Request, Tick, ChangeRollout, CreateRecommendation,
     CreateHumanReview, LoseHumanReview, DecideHumanReview, ProviderActs, Begin, VerifyConsent,
     Crash, Refuse, ExpireOnPresent, Present, ExpireOnAuthorize, Authorize, ClaimExecution,
     ProviderAnswers, ProviderFails, CompleteExecution, AbandonExecution, vars

\* An execution past its check is of an offer with an action consent.
LEMMA ConsentStep ==
  TypeOK /\ TypeOK' /\ ConsentInv /\ [Next]_vars => ConsentInv'
<1> SUFFICES ASSUME TypeOK, TypeOK', ConsentInv, [Next]_vars, NEW s \in Sessions,
                    call'[s].at # "idle", call'[s].op = "execute", call'[s].at # "consent"
             PROVE  consent'[call'[s].offer] # "none"
  BY DEF ConsentInv, Working, TypeOK, Calls, Stages
<1>1. CASE call'[s] = call[s]
  <2>1. call[s].offer \in Offers /\ consent[call[s].offer] # "none"
    BY <1>1, WorkingCall DEF ConsentInv, Working, Idle
  <2>2. QED
    BY <1>1, <2>1, ConsentRecordStays
<1>2. CASE VerifyConsent(s)
  <2>1. Goto(s, "transact") /\ call[s].at = "consent" /\ consent[PurposeOf(s)] = "granted"
    BY <1>2, FinishCall DEF VerifyConsent
  <2>2. call[s].op = "execute" /\ call'[s].offer = call[s].offer
    BY <2>1, GotoCall
  <2>3. QED
    BY <1>2, <2>1, <2>2 DEF VerifyConsent, PurposeOf
<1>3. CASE Authorize(s)
  BY <1>3, GotoCall DEF Authorize, Stage
<1>4. CASE ClaimExecution(s)
  <2>1. call[s] \in Calls /\ call[s].at = "transact" /\ call[s].op = "execute"
    BY <1>4, WorkingCall DEF ClaimExecution, Stage
  <2>2. call'[s] = [call[s] EXCEPT !.at = "calling", !.claimed = now] /\ consent' = consent
    BY <1>4 DEF ClaimExecution, TypeOK
  <2>3. call'[s].offer = call[s].offer
    BY <2>1, <2>2 DEF Calls
  <2>4. QED
    BY <2>1, <2>2, <2>3 DEF ConsentInv, Working, Idle
<1>5. CASE ProviderAnswers(s) \/ ProviderFails(s) \/ CompleteExecution(s)
  <2>1. call[s].at \in {"calling", "returned"} /\ consent' = consent
    BY <1>5 DEF ProviderAnswers, ProviderFails, CompleteExecution
  <2>2. \E at \in Stages : Goto(s, at)
    BY <1>5, FinishCall DEF ProviderAnswers, ProviderFails, CompleteExecution, Stages
  <2>3. call'[s].offer = call[s].offer /\ call'[s].op = call[s].op
    BY <2>1, <2>2, GotoCall
  <2>4. QED
    BY <2>1, <2>3 DEF ConsentInv, Working, Idle
<1>6. CASE \/ \E op \in Operations, o \in Offers : Begin(s, op, o)
           \/ Crash(s) \/ Refuse(s) \/ ExpireOnPresent(s) \/ Present(s) \/ ExpireOnAuthorize(s)
           \/ GrantActionConsent(s) \/ AbandonExecution(s)
  <2>1. call'[s].at \in {"consent", "idle"}
    BY <1>6, FinishCall DEF Begin, Crash, Refuse, ExpireOnPresent, Present, ExpireOnAuthorize,
       GrantActionConsent, AbandonExecution, TypeOK
  <2>2. QED
    BY <2>1
<1>7. ASSUME NEW t \in Sessions, t # s, Request(t) PROVE call'[s] = call[s]
  <2>1. \E v : call' = [call EXCEPT ![t] = v]
    BY <1>7 DEF Request, Begin, VerifyConsent, Crash, Refuse, ExpireOnPresent, Present,
       ExpireOnAuthorize, Authorize, GrantActionConsent, ClaimExecution, ProviderAnswers,
       ProviderFails, CompleteExecution, AbandonExecution, Goto, Finish
  <2>2. QED
    BY <1>7, <2>1 DEF TypeOK
<1>8. CASE Environment \/ UNCHANGED vars
  BY <1>1, <1>8 DEF Environment, Tick, GrantConsent, RevokeConsent, Erase, ChangeRollout,
     CreateRecommendation, CreateHumanReview, LoseHumanReview, DecideHumanReview, ProviderActs, vars
<1>9. QED
  BY <1>1, <1>2, <1>3, <1>4, <1>5, <1>6, <1>7, <1>8 DEF Next, Request

-----------------------------------------------------------------------------
\* The rows of an offer, its provider and its record move together.
RowInv == StageInv /\ CompletionRecorded /\ AskedOnlyWithConsent

LEMMA RowStep ==
  TypeOK /\ ClaimInv /\ ConsentInv /\ RowInv /\ [Next]_vars => RowInv'
<1> SUFFICES ASSUME TypeOK, ClaimInv, ConsentInv, RowInv, [Next]_vars PROVE RowInv'
  OBVIOUS
<1> DEFINE Rows == <<status, review, recon, provider>>
<1>a. \A o \in Offers : consent[o] # "none" => consent'[o] # "none"
  BY ConsentRecordStays
<1>1. CASE UNCHANGED Rows
  BY <1>1, <1>a DEF RowInv, StageInv, CompletionRecorded, AskedOnlyWithConsent
<1>2. CASE Erase
  BY <1>2, <1>a DEF Erase, RowInv, StageInv, CompletionRecorded, AskedOnlyWithConsent, TypeOK, Live,
     Statuses
<1>3. ASSUME NEW o \in Offers, NEW i \in InitialStatuses, CreateRecommendation(o, i) PROVE RowInv'
  BY <1>3 DEF CreateRecommendation, SetStatus, InitialStatuses,
     RowInv, StageInv, CompletionRecorded, AskedOnlyWithConsent, TypeOK
<1>4. ASSUME NEW o \in Offers, CreateHumanReview(o) \/ LoseHumanReview(o) PROVE RowInv'
  BY <1>4 DEF CreateHumanReview, LoseHumanReview, row,
     RowInv, StageInv, CompletionRecorded, AskedOnlyWithConsent, TypeOK
<1>5. ASSUME NEW o \in Offers, NEW d \in {"approved", "rejected"}, DecideHumanReview(o, d)
      PROVE RowInv'
  BY <1>5 DEF DecideHumanReview, SetStatus,
     RowInv, StageInv, CompletionRecorded, AskedOnlyWithConsent, TypeOK
<1>6. ASSUME NEW o \in Offers, ProviderActs(o) PROVE RowInv'
  BY <1>6 DEF ProviderActs, row, RowInv, StageInv, CompletionRecorded, AskedOnlyWithConsent, TypeOK
<1>7. ASSUME NEW s \in Sessions,
             ExpireOnPresent(s) \/ Present(s) \/ ExpireOnAuthorize(s) \/ Authorize(s)
      PROVE RowInv'
  <2>1. call[s].offer \in Offers
    BY <1>7, WorkingCall DEF ExpireOnPresent, Present, ExpireOnAuthorize, Authorize, Stage
  <2>2. QED
    BY <1>7, <2>1 DEF ExpireOnPresent, Present, ExpireOnAuthorize, Authorize, SetStatus, Live,
       Statuses, RowInv, StageInv, CompletionRecorded, AskedOnlyWithConsent, TypeOK
<1>8. ASSUME NEW s \in Sessions, ClaimExecution(s) PROVE RowInv'
  <2>1. call[s].offer \in Offers /\ consent[call[s].offer] # "none"
    BY <1>8, WorkingCall DEF ClaimExecution, Stage, ConsentInv, Working, Idle
  <2>2. status[call[s].offer] \in {"authorized", "executing"}
    BY <1>8 DEF ClaimExecution, Claimable
  <2>3. QED
    BY <1>8, <2>1, <2>2 DEF ClaimExecution, SetStatus, RowInv, StageInv, CompletionRecorded,
       AskedOnlyWithConsent, TypeOK
<1>9. ASSUME NEW s \in Sessions, CompleteExecution(s) \/ AbandonExecution(s) PROVE RowInv'
  <2>1. call[s].offer \in Offers
    BY <1>9, WorkingCall DEF CompleteExecution, AbandonExecution
  <2>2. CompleteExecution(s) => provider[call[s].offer] = "done"
    BY DEF CompleteExecution, ClaimInv, Holding
  <2>3. QED
    BY <1>9, <2>1, <2>2 DEF CompleteExecution, AbandonExecution, Releasable, SetStatus, RowInv,
       StageInv, CompletionRecorded, AskedOnlyWithConsent, TypeOK
<1>10. QED
  <2>1. CASE \/ Tick \/ GrantConsent \/ RevokeConsent \/ ChangeRollout \/ UNCHANGED vars
    BY <1>1, <2>1 DEF Tick, GrantConsent, RevokeConsent, ChangeRollout, row, vars
  <2>2. ASSUME NEW s \in Sessions,
               \/ \E op \in Operations, o \in Offers : Begin(s, op, o)
               \/ VerifyConsent(s) \/ Crash(s) \/ Refuse(s) \/ GrantActionConsent(s)
               \/ ProviderAnswers(s) \/ ProviderFails(s)
        PROVE RowInv'
    BY <1>1, <2>2 DEF Begin, VerifyConsent, Crash, Refuse, GrantActionConsent, ProviderAnswers,
       ProviderFails, row
  <2>3. QED
    BY <1>2, <1>3, <1>4, <1>5, <1>6, <1>7, <1>8, <1>9, <2>1, <2>2 DEF Next, Environment, Request

-----------------------------------------------------------------------------
LEMMA InitIInv == Init => IInv
<1> SUFFICES ASSUME Init PROVE IInv
  OBVIOUS
<1>1. TypeOK
  BY InitTypeOK
<1>2. \A s \in Sessions : call[s] = Idle /\ call[s].at = "idle"
  BY DEF Init, Idle
<1>3. ClaimInv /\ SingleOwner /\ ConsentInv
  BY <1>2 DEF ClaimInv, SingleOwner, ConsentInv, Holding, Working
<1>4. StageInv /\ CompletionRecorded /\ AskedOnlyWithConsent
  BY DEF Init, StageInv, CompletionRecorded, AskedOnlyWithConsent
<1>5. QED
  BY <1>1, <1>3, <1>4 DEF IInv

\* The inductive invariant: claims, consents, rows and records of all offers together.
THEOREM Invariance == Spec => []IInv
<1>1. IInv /\ [Next]_vars => IInv'
  <2> SUFFICES ASSUME IInv, [Next]_vars PROVE IInv'
    OBVIOUS
  <2>1. TypeOK'
    BY TypeStep DEF IInv
  <2>2. ClaimInv' /\ SingleOwner'
    BY OwnerStep DEF IInv
  <2>3. ConsentInv'
    BY <2>1, ConsentStep DEF IInv
  <2>4. RowInv'
    BY RowStep DEF IInv, RowInv
  <2>5. QED
    BY <2>1, <2>2, <2>3, <2>4 DEF IInv, RowInv
<1>2. QED
  BY InitIInv, <1>1, PTL DEF Spec

\* However the transactions of any number of threads and processes interleave, an offer's
\* execution is owned by at most one of them between its claim and its completion, as long as
\* no live thread has held a claim of the offer until it was stale.
THEOREM OneOwner == Spec => []SingleOwner
<1>1. IInv => SingleOwner
  BY DEF IInv
<1>2. QED
  BY Invariance, <1>1, PTL

\* A fulfilled offer has its verification record, and a record is only ever of an offer
\* on which the provider has acted.
THEOREM CompletionIsRecorded == Spec => []CompletionRecorded
<1>1. IInv => CompletionRecorded
  BY DEF IInv
<1>2. QED
  BY Invariance, <1>1, PTL

\* The provider is asked to act only under an action consent, and never for an offer
\* that a reviewer refused or has yet to decide.
THEOREM Consented == Spec => []AskedOnlyWithConsent
<1>1. IInv => AskedOnlyWithConsent
  BY DEF IInv
<1>2. QED
  BY Invariance, <1>1, PTL

-----------------------------------------------------------------------------
(* The refinement of OfferLifecycle.                                       *)

phaseBar == [o \in Offers |-> Phase(o)]
effectBar == [o \in Offers |-> Effect(o)]
promiseBar == <<phaseBar, effectBar, recon>>

\* Writing one offer's status moves the phase of that offer alone.
LEMMA StatusMovesPhase ==
  ASSUME TypeOK, NEW o \in Offers, NEW to \in Statuses, SetStatus(o, to)
  PROVE  /\ status' = [status EXCEPT ![o] = to] /\ status'[o] = to
         /\ phaseBar' = [phaseBar EXCEPT ![o] = Phase(o)']
         /\ phaseBar[o] = Phase(o)
<1>1. status' = [status EXCEPT ![o] = to] /\ status'[o] = to
  BY DEF SetStatus, TypeOK
<1>2. \A x \in Offers : x # o => Phase(x)' = Phase(x)
  BY <1>1 DEF Phase, TypeOK
<1>3. QED
  BY <1>1, <1>2 DEF phaseBar

\* A status written over a live one is a move of the promise when its phase may follow.
LEMMA StatusMove ==
  ASSUME TypeOK, NEW o \in Offers, NEW to \in Statuses, SetStatus(o, to),
         UNCHANGED <<provider, recon>>,
         \/ status[o] = "absent" /\ to \in InitialStatuses
         \/ status[o] = "approved" /\ to = "presented"
         \/ status[o] = "presented" /\ to = "authorized"
         \/ status[o] \in Live /\ to \in {"rejected", "expired"}
  PROVE  Lifecycle!PromiseNext
<1>1. UNCHANGED <<effectBar, recon>>
  BY DEF effectBar, Effect
<1>2. /\ phaseBar' = [phaseBar EXCEPT ![o] = Phase(o)']
      /\ phaseBar[o] = Phase(o)
      /\ status'[o] = to
  BY StatusMovesPhase
<1>3. \/ Phase(o) = "none" /\ Phase(o)' \in {"withheld", "open"}
      \/ Phase(o) = "withheld" /\ Phase(o)' = "open"
      \/ Phase(o) = "open" /\ Phase(o)' = "accepted"
      \/ Phase(o) \in Lifecycle!Alive /\ Phase(o)' = "closed"
  BY <1>2 DEF Phase, InitialStatuses, Live, Statuses, Lifecycle!Alive, Lifecycle!Phases
<1>4. \/ Lifecycle!Propose(o) \/ Lifecycle!Display(o)
      \/ Lifecycle!Accept(o) \/ Lifecycle!Close(o)
  BY <1>1, <1>2, <1>3 DEF Lifecycle!Propose, Lifecycle!Display, Lifecycle!Accept, Lifecycle!Close,
     Lifecycle!Move, phaseBar, effectBar
<1>5. QED
  BY <1>4 DEF Lifecycle!PromiseNext

\* Every step of the detailed specification is a step of the promise, or a stutter.
LEMMA PromiseStep ==
  IInv /\ [Next]_vars => [Lifecycle!PromiseNext]_promiseBar
<1> DEFINE P == [Lifecycle!PromiseNext]_promiseBar
<1> SUFFICES ASSUME IInv, [Next]_vars PROVE P
  OBVIOUS
<1> USE DEF IInv
<1>0. ASSUME UNCHANGED <<status, provider, recon>> PROVE P
  BY <1>0 DEF promiseBar, phaseBar, effectBar, Phase, Effect
<1>1. CASE Erase
  <2>1. phaseBar' = [o \in Offers |-> IF phaseBar[o] \in Lifecycle!Alive THEN "erased"
                                       ELSE phaseBar[o]]
    BY <1>1 DEF Erase, phaseBar, Phase, Lifecycle!Alive, Lifecycle!Phases, TypeOK, Live, Statuses
  <2>2. recon' = [o \in Offers |-> FALSE] /\ effectBar' = effectBar
    BY <1>1 DEF Erase, effectBar, Effect
  <2>3. QED
    BY <2>1, <2>2 DEF Lifecycle!PromiseNext, Lifecycle!EraseAll, phaseBar, effectBar
<1>2. ASSUME NEW o \in Offers, NEW i \in InitialStatuses, CreateRecommendation(o, i) PROVE P
  BY <1>2, StatusMove DEF CreateRecommendation, InitialStatuses, Statuses
<1>3. ASSUME NEW o \in Offers, NEW d \in {"approved", "rejected"}, DecideHumanReview(o, d) PROVE P
  <2>1. CASE status[o] = "pending_review" /\ d = "rejected"
    BY <1>3, <2>1, StatusMove DEF DecideHumanReview, Live, Statuses
  <2>2. CASE status[o] = "pending_review" /\ d = "approved"
    <3>1. SetStatus(o, "approved") /\ UNCHANGED <<provider, recon>>
      BY <1>3, <2>2 DEF DecideHumanReview
    <3>2. status'[o] = "approved" /\ phaseBar' = [phaseBar EXCEPT ![o] = Phase(o)']
          /\ phaseBar[o] = Phase(o)
      BY <3>1, StatusMovesPhase DEF Statuses
    <3>3. Phase(o)' = Phase(o)
      BY <2>2, <3>2 DEF Phase
    <3>4. QED
      BY <3>1, <3>2, <3>3 DEF promiseBar, phaseBar, effectBar, Effect
  <2>3. CASE status[o] # "pending_review"
    BY <1>0, <1>3, <2>3 DEF DecideHumanReview
  <2>4. QED
    BY <1>3, <2>1, <2>2, <2>3
<1>4. ASSUME NEW o \in Offers, ProviderActs(o) PROVE P
  <2>1. effectBar[o] = "asked" /\ effectBar' = [effectBar EXCEPT ![o] = "done"]
    BY <1>4 DEF ProviderActs, effectBar, Effect, TypeOK
  <2>2. UNCHANGED <<phaseBar, recon>>
    BY <1>4 DEF ProviderActs, phaseBar, Phase, row
  <2>3. Lifecycle!Act(o)
    BY <2>1, <2>2 DEF Lifecycle!Act, phaseBar, effectBar
  <2>4. QED
    BY <2>3 DEF Lifecycle!PromiseNext
<1>5. ASSUME NEW s \in Sessions,
             ExpireOnPresent(s) \/ Present(s) \/ ExpireOnAuthorize(s) \/ Authorize(s)
      PROVE P
  <2>1. call[s].offer \in Offers
    BY <1>5, WorkingCall DEF ExpireOnPresent, Present, ExpireOnAuthorize, Authorize, Stage
  <2>2. QED
    BY <1>5, <2>1, StatusMove DEF ExpireOnPresent, Present, ExpireOnAuthorize, Authorize, Live,
       Statuses
<1>6. ASSUME NEW s \in Sessions, ClaimExecution(s) PROVE P
  <2>0. PICK o \in Offers : o = call[s].offer
    BY <1>6, WorkingCall DEF ClaimExecution, Stage
  <2>1. status[o] \in {"authorized", "executing"}
    BY <1>6, <2>0 DEF ClaimExecution, Claimable
  <2>2. /\ SetStatus(o, "executing") /\ recon' = recon
        /\ provider' = [provider EXCEPT ![o] = IF @ = "idle" THEN "asked" ELSE @]
    BY <1>6, <2>0 DEF ClaimExecution
  <2>3. phaseBar' = phaseBar /\ phaseBar[o] = "accepted"
    <3>1. /\ status'[o] = "executing" /\ phaseBar' = [phaseBar EXCEPT ![o] = Phase(o)']
          /\ phaseBar[o] = Phase(o)
      BY <2>1, <2>2, StatusMovesPhase DEF Statuses
    <3>2. Phase(o)' = "accepted" /\ Phase(o) = "accepted"
      BY <2>1, <3>1 DEF Phase
    <3>3. QED
      BY <3>1, <3>2 DEF phaseBar
  <2>4. CASE provider[o] = "idle"
    <3>1. effectBar[o] = "none" /\ effectBar' = [effectBar EXCEPT ![o] = "asked"]
      BY <2>1, <2>2, <2>4 DEF effectBar, Effect, TypeOK
    <3>2. Lifecycle!Ask(o)
      BY <2>1, <2>2, <2>3, <3>1 DEF Lifecycle!Ask, phaseBar, effectBar
    <3>3. QED
      BY <2>1, <3>2 DEF Lifecycle!PromiseNext
  <2>5. CASE provider[o] # "idle"
    BY <2>1, <2>2, <2>3, <2>5 DEF promiseBar, effectBar, Effect, TypeOK
  <2>6. QED
    BY <2>4, <2>5
<1>7. ASSUME NEW s \in Sessions, CompleteExecution(s) PROVE P
  <2> DEFINE o == call[s].offer
  <2>1. o \in Offers /\ provider[o] = "done"
    BY <1>7, WorkingCall DEF CompleteExecution, ClaimInv, Holding
  <2>2. CASE status[o] = "executing"
    <3>1. SetStatus(o, "fulfilled") /\ recon' = [recon EXCEPT ![o] = TRUE] /\ provider' = provider
      BY <1>7, <2>2 DEF CompleteExecution
    <3>2. phaseBar[o] = "accepted" /\ phaseBar' = [phaseBar EXCEPT ![o] = "settled"]
      BY <2>1, <2>2, <3>1, StatusMovesPhase DEF Phase, Statuses
    <3>3. effectBar[o] = "done" /\ effectBar' = effectBar
      BY <2>1, <3>1 DEF effectBar, Effect
    <3>4. Lifecycle!Settle(o)
      BY <3>1, <3>2, <3>3 DEF Lifecycle!Settle, phaseBar, effectBar
    <3>5. QED
      BY <2>1, <3>4 DEF Lifecycle!PromiseNext
  <2>3. CASE status[o] # "executing"
    BY <1>0, <1>7, <2>3 DEF CompleteExecution
  <2>4. QED
    BY <2>2, <2>3
<1>8. ASSUME NEW s \in Sessions, AbandonExecution(s) PROVE P
  <2>0. PICK o \in Offers : o = call[s].offer
    BY <1>8, WorkingCall DEF AbandonExecution
  <2>1. UNCHANGED <<provider, recon>>
    BY <1>8 DEF AbandonExecution
  <2>2. CASE status[o] = "executing"
    <3>1. SetStatus(o, "authorized")
      BY <1>8, <2>0, <2>2 DEF AbandonExecution, Releasable
    <3>2. /\ status'[o] = "authorized" /\ phaseBar' = [phaseBar EXCEPT ![o] = Phase(o)']
          /\ phaseBar[o] = Phase(o)
      BY <2>1, <3>1, StatusMovesPhase DEF Statuses
    <3>3. Phase(o)' = Phase(o)
      BY <2>2, <3>2 DEF Phase
    <3>4. QED
      BY <2>1, <3>2, <3>3 DEF promiseBar, phaseBar, effectBar, Effect
  <2>3. CASE status[o] # "executing"
    BY <1>0, <1>8, <2>0, <2>1, <2>3 DEF AbandonExecution, Releasable
  <2>4. QED
    BY <2>2, <2>3
<1>9. CASE \/ Tick \/ GrantConsent \/ RevokeConsent \/ ChangeRollout \/ UNCHANGED vars
           \/ \E o \in Offers : CreateHumanReview(o) \/ LoseHumanReview(o)
  BY <1>0, <1>9 DEF Tick, GrantConsent, RevokeConsent, ChangeRollout, CreateHumanReview,
     LoseHumanReview, row, vars
<1>10. ASSUME NEW s \in Sessions,
              \/ \E op \in Operations, o \in Offers : Begin(s, op, o)
              \/ VerifyConsent(s) \/ Crash(s) \/ Refuse(s) \/ GrantActionConsent(s)
              \/ ProviderAnswers(s) \/ ProviderFails(s)
       PROVE P
  BY <1>0, <1>10 DEF Begin, VerifyConsent, Crash, Refuse, GrantActionConsent, ProviderAnswers,
     ProviderFails, row
<1>11. QED
  BY <1>1, <1>2, <1>3, <1>4, <1>5, <1>6, <1>7, <1>8, <1>9, <1>10 DEF Next, Environment, Request

LEMMA PromiseInitially == Init => Lifecycle!PromiseInit
BY DEF Init, Phase, Effect, Lifecycle!PromiseInit

\* The threads together keep the promise of OfferLifecycle: an offer's phases run one way,
\* the provider is asked only while the offer is accepted, and an offer is settled, with its
\* record, only once the provider has acted.
THEOREM Implements == Spec => KeepsThePromise
<1>1. KeepsThePromise <=> Lifecycle!PromiseInit /\ [][Lifecycle!PromiseNext]_promiseBar
  BY DEF KeepsThePromise, Lifecycle!PromiseSpec, Lifecycle!promise, promiseBar, phaseBar, effectBar
<1>2. QED
  BY <1>1, PromiseInitially, PromiseStep, Invariance, PTL DEF Spec
=============================================================================

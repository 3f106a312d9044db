--------------------------- MODULE OfferExecution ---------------------------
(***************************************************************************)
(* The life of one customer's offers: the recommendations, human_reviews,  *)
(* dpdp_consent and fulfillment_reconciliations rows, and the request      *)
(* threads that present, authorize and execute an offer.  Every database   *)
(* method is one transaction, hence one action; what a thread does between *)
(* two transactions (gates read, provider called) is the thread's stage.   *)
(* Rows of different customers never meet: each statement is keyed by      *)
(* customer_id, and a foreign recommendation is answered not_found.        *)
(***************************************************************************)
EXTENDS Naturals, FiniteSets

CONSTANTS Offers,        \* recommendation identifiers
          Sessions,      \* request threads, of one process or of several
          ExecTimeout,   \* processing_timeout_seconds of an execution claim (60 s)
          TokenTTL,      \* token_ttl_seconds of a decision token (300 s)
          OfferTTL,      \* ttl_seconds of a recommendation (600 s)
          MaxTime        \* the clock stops here; bounds the model

ASSUME TimingAssumption ==
  /\ {ExecTimeout, TokenTTL, OfferTTL, MaxTime} \subseteq Nat
  /\ ExecTimeout > 0

VARIABLES now,           \* the clock every transaction reads
          overstayed,    \* history: offers a live thread has held until its claim was stale
          status,        \* recommendations.status, or absent / erased
          createdAt,     \* recommendations.created_at; expires_at is OfferTTL later
          authorizedAt,  \* recommendations.authorized_at
          startedAt,     \* recommendations.execution_started_at
          review,        \* human_reviews.status of the offer, or none
          consent,       \* dpdp_consent per purpose
          recon,         \* the offer has a fulfillment_reconciliations row
          contained,     \* an active control disables or shadows the customer's offers
          provider,      \* the provider's side of the offer's idempotency key
          call           \* what each session is doing

vars == <<now, overstayed, status, createdAt, authorizedAt, startedAt, review, consent,
          recon, contained, provider, call>>
clock == <<now, overstayed>>
row == <<status, createdAt, authorizedAt, startedAt>>

Personalization == "personalization"
Purposes == {Personalization} \cup Offers   \* an offer stands for execute_recommendation:<id>
Statuses == {"absent", "pending_review", "approved", "rejected", "presented", "authorized",
             "executing", "fulfilled", "expired", "erased"}
Live == Statuses \ {"absent", "erased"}     \* the row exists
Operations == {"present", "authorize", "execute"}
Stages == {"consent", "transact", "grant", "calling", "returned", "failed"}
Idle == [at |-> "idle"]
Calls == [at : Stages, op : Operations, offer : Offers, claimed : Nat]

Working(s) == call[s] # Idle
Holding(s) == call[s].at \in {"calling", "returned", "failed"}
Stage(s, op, at) == call[s].at = at /\ call[s].op = op
Goto(s, at) == call' = [call EXCEPT ![s] = [@ EXCEPT !.at = at]]
Finish(s) == call' = [call EXCEPT ![s] = Idle]
SetStatus(o, to) == status' = [status EXCEPT ![o] = to]

OfferExpired(o) == createdAt[o] + OfferTTL <= now
ClaimStale(o) == now - startedAt[o] >= ExecTimeout
TokenExpired(o) == now - authorizedAt[o] > TokenTTL

Init ==
  /\ now = 0 /\ overstayed = {}
  /\ status = [o \in Offers |-> "absent"]
  /\ createdAt = [o \in Offers |-> 0]
  /\ authorizedAt = [o \in Offers |-> 0]
  /\ startedAt = [o \in Offers |-> 0]
  /\ review = [o \in Offers |-> "none"]
  /\ consent = [p \in Purposes |-> "none"]
  /\ recon = [o \in Offers |-> FALSE]
  /\ contained = FALSE
  /\ provider = [o \in Offers |-> "idle"]
  /\ call = [s \in Sessions |-> Idle]

-----------------------------------------------------------------------------
(* The environment of the request threads: time, decisions, the reviewer.  *)

\* Nothing bounds the time of a call to the provider: the client's 5 seconds are those of each
\* operation on the socket, so a thread may hold its claim until another one can take it over.
Tick ==
  /\ now < MaxTime
  /\ now' = now + 1
  /\ overstayed' = overstayed \cup
       {call[s].offer : s \in {t \in Sessions : Holding(t) /\ call[t].claimed + ExecTimeout <= now'}}
  /\ UNCHANGED <<row, review, consent, recon, contained, provider, call>>

\* Slip: the delivery mode is stored where the status belongs.
InitialStatuses_DeliveryMode == {"presented", "human_review_required"}

InitialStatuses == {"presented", "pending_review"}

\* The orchestrator stores a decision: on display at once, or withheld for a review
\* whose row it inserts next, in a transaction of its own.
CreateRecommendation(o, initial) ==
  /\ status[o] = "absent"
  /\ SetStatus(o, initial)
  /\ createdAt' = [createdAt EXCEPT ![o] = now]
  /\ review' = [review EXCEPT ![o] = IF initial = "pending_review" THEN "due" ELSE @]
  /\ UNCHANGED <<clock, authorizedAt, startedAt, consent, recon, contained, provider, call>>

\* The insert looks at no other row: the offer may have been erased meanwhile.
CreateHumanReview(o) ==
  /\ review[o] = "due"
  /\ review' = [review EXCEPT ![o] = "pending"]
  /\ UNCHANGED <<clock, row, consent, recon, contained, provider, call>>

\* The orchestrating process dies between the two.
LoseHumanReview(o) ==
  /\ review[o] = "due"
  /\ review' = [review EXCEPT ![o] = "none"]
  /\ UNCHANGED <<clock, row, consent, recon, contained, provider, call>>

DecideHumanReview(o, decision) ==
  /\ review[o] = "pending"
  /\ review' = [review EXCEPT ![o] = decision]
  /\ IF status[o] = "pending_review" THEN SetStatus(o, decision) ELSE UNCHANGED status
  /\ UNCHANGED <<clock, createdAt, authorizedAt, startedAt, consent, recon, contained, provider, call>>

\* A control is activated, superseded or disabled, so evaluate answers otherwise.
ChangeRollout ==
  /\ contained' = ~contained
  /\ UNCHANGED <<clock, row, review, consent, recon, provider, call>>

GrantConsent ==
  /\ consent' = [consent EXCEPT ![Personalization] = "granted"]
  /\ UNCHANGED <<clock, row, review, recon, contained, provider, call>>

\* Only an existing record is updated, and its erasure mark stays.
RevokeConsent ==
  /\ consent[Personalization] = "granted"
  /\ consent' = [consent EXCEPT ![Personalization] = "revoked"]
  /\ UNCHANGED <<clock, row, review, recon, contained, provider, call>>

\* Every consent record is withdrawn (one is made if there is none), the rest deleted.
Erase ==
  /\ consent' = [p \in Purposes |->
       IF consent[p] # "none" \/ (p = Personalization /\ \A q \in Purposes : consent[q] = "none")
       THEN "erased" ELSE "none"]
  /\ status' = [o \in Offers |-> IF status[o] \in Live THEN "erased" ELSE status[o]]
  /\ review' = [o \in Offers |-> IF review[o] = "due" THEN "due" ELSE "none"]
  /\ recon' = [o \in Offers |-> FALSE]
  /\ UNCHANGED <<clock, createdAt, authorizedAt, startedAt, contained, provider, call>>

-----------------------------------------------------------------------------
(* Steps common to the request threads.                                    *)

\* _rollout_gate answers None: no control disables or shadows the offer.
PassesRolloutGate == ~contained

\* The row is the customer's and no control contains it; a completed execution is
\* let through to be replayed.
Begin(s, op, o) ==
  /\ ~Working(s)
  /\ status[o] \in Live
  /\ PassesRolloutGate \/ (op = "execute" /\ status[o] = "fulfilled")
  /\ call' = [call EXCEPT ![s] = [at |-> "consent", op |-> op, offer |-> o, claimed |-> 0]]
  /\ UNCHANGED <<clock, row, review, consent, recon, contained, provider>>

\* Slip: an execution asks for the general consent only.
PurposeOf_General(s) == Personalization

PurposeOf(s) == IF call[s].op = "execute" THEN call[s].offer ELSE Personalization

VerifyConsent(s) ==
  /\ call[s].at = "consent"
  /\ IF consent[PurposeOf(s)] = "granted" THEN Goto(s, "transact") ELSE Finish(s)
  /\ UNCHANGED <<clock, row, review, consent, recon, contained, provider>>

\* The thread's process dies between two transactions.
Crash(s) ==
  /\ Working(s)
  /\ Finish(s)
  /\ UNCHANGED <<clock, row, review, consent, recon, contained, provider>>

\* A transaction that answers without writing. An execute may bring a wrong token and
\* a present may find the nudge budget spent, whatever the row says.
Refuse(s) ==
  LET o == call[s].offer IN
  /\ call[s].at = "transact"
  /\ \/ call[s].op = "execute"
     \/ call[s].op = "present" /\ ~(status[o] \in Live \ {"authorized"} /\ OfferExpired(o))
     \/ call[s].op = "authorize" /\ status[o] # "presented"
  /\ Finish(s)
  /\ UNCHANGED <<clock, row, review, consent, recon, contained, provider>>

-----------------------------------------------------------------------------
(* present_recommendation and authorize_recommendation                     *)

\* Any row past its expiry becomes expired when it is retrieved, unless it is authorized.
ExpireOnPresent(s) ==
  LET o == call[s].offer IN
  /\ Stage(s, "present", "transact")
  /\ status[o] \in Live \ {"authorized"}
  /\ OfferExpired(o)
  /\ SetStatus(o, "expired")
  /\ Finish(s)
  /\ UNCHANGED <<clock, createdAt, authorizedAt, startedAt, review, consent, recon, contained, provider>>

Present(s) ==
  LET o == call[s].offer IN
  /\ Stage(s, "present", "transact")
  /\ status[o] = "approved"
  /\ ~OfferExpired(o)
  /\ SetStatus(o, "presented")
  /\ Finish(s)
  /\ UNCHANGED <<clock, createdAt, authorizedAt, startedAt, review, consent, recon, contained, provider>>

ExpireOnAuthorize(s) ==
  LET o == call[s].offer IN
  /\ Stage(s, "authorize", "transact")
  /\ status[o] = "presented"
  /\ OfferExpired(o)
  /\ SetStatus(o, "expired")
  /\ Finish(s)
  /\ UNCHANGED <<clock, createdAt, authorizedAt, startedAt, review, consent, recon, contained, provider>>

Authorize(s) ==
  LET o == call[s].offer IN
  /\ Stage(s, "authorize", "transact")
  /\ status[o] = "presented"
  /\ ~OfferExpired(o)
  /\ SetStatus(o, "authorized")
  /\ authorizedAt' = [authorizedAt EXCEPT ![o] = now]
  /\ Goto(s, "grant")
  /\ UNCHANGED <<clock, createdAt, startedAt, review, consent, recon, contained, provider>>

\* The action consent is a transaction of its own; nothing is read again before it.
GrantActionConsent(s) ==
  /\ call[s].at = "grant"
  /\ consent' = [consent EXCEPT ![call[s].offer] = "granted"]
  /\ Finish(s)
  /\ UNCHANGED <<clock, row, review, recon, contained, provider>>

-----------------------------------------------------------------------------
(* FulfillmentService.execute                                              *)

\* Slip: an executing offer can be claimed again at once.
Claimable_Fresh(o) == status[o] \in {"authorized", "executing"} /\ ~TokenExpired(o)

Claimable(o) ==
  /\ status[o] = "authorized" \/ (status[o] = "executing" /\ ClaimStale(o))
  /\ ~TokenExpired(o)

ClaimExecution(s) ==
  LET o == call[s].offer IN
  /\ Stage(s, "execute", "transact")
  /\ Claimable(o)
  /\ SetStatus(o, "executing")
  /\ startedAt' = [startedAt EXCEPT ![o] = now]
  /\ provider' = [provider EXCEPT ![o] = IF @ = "idle" THEN "asked" ELSE @]
  /\ call' = [call EXCEPT ![s] = [@ EXCEPT !.at = "calling", !.claimed = now]]
  /\ UNCHANGED <<clock, createdAt, authorizedAt, review, consent, recon, contained>>

\* The provider acts once per idempotency key, perhaps after the caller gave up.
ProviderActs(o) ==
  /\ provider[o] = "asked"
  /\ provider' = [provider EXCEPT ![o] = "done"]
  /\ UNCHANGED <<clock, row, review, consent, recon, contained, call>>

ProviderAnswers(s) ==
  /\ call[s].at = "calling"
  /\ provider[call[s].offer] = "done"
  /\ Goto(s, "returned")
  /\ UNCHANGED <<clock, row, review, consent, recon, contained, provider>>

\* Timeout, refused connection, or an answer that does not confirm completion.
ProviderFails(s) ==
  /\ call[s].at = "calling"
  /\ Goto(s, "failed")
  /\ UNCHANGED <<clock, row, review, consent, recon, contained, provider>>

\* Slip: the verification row is inserted before the claim is known to be lost.
CompleteExecution_InsertFirst(s) ==
  LET o == call[s].offer IN
  /\ call[s].at = "returned"
  /\ recon' = [recon EXCEPT ![o] = TRUE]
  /\ IF status[o] = "executing"
     THEN SetStatus(o, "fulfilled") /\ Finish(s)
     ELSE Goto(s, "failed") /\ UNCHANGED status
  /\ UNCHANGED <<clock, createdAt, authorizedAt, startedAt, review, consent, contained, provider>>

CompleteExecution(s) ==
  LET o == call[s].offer IN
  /\ call[s].at = "returned"
  /\ IF status[o] = "executing"
     THEN /\ SetStatus(o, "fulfilled")
          /\ recon' = [recon EXCEPT ![o] = TRUE]
          /\ Finish(s)
     ELSE Goto(s, "failed") /\ UNCHANGED <<status, recon>>
  /\ UNCHANGED <<clock, createdAt, authorizedAt, startedAt, review, consent, contained, provider>>

\* Slip: the release does not look at the status.
Releasable_Any(o) == status[o] \in Live

Releasable(o) == status[o] = "executing"

AbandonExecution(s) ==
  LET o == call[s].offer IN
  /\ call[s].at = "failed"
  /\ IF Releasable(o)
     THEN SetStatus(o, "authorized") /\ startedAt' = [startedAt EXCEPT ![o] = 0]
     ELSE UNCHANGED <<status, startedAt>>
  /\ Finish(s)
  /\ UNCHANGED <<clock, createdAt, authorizedAt, review, consent, recon, contained, provider>>

-----------------------------------------------------------------------------
Environment ==
  \/ Tick
  \/ GrantConsent
  \/ RevokeConsent
  \/ Erase
  \/ ChangeRollout
  \/ \E o \in Offers :
       \/ \E initial \in InitialStatuses : CreateRecommendation(o, initial)
       \/ CreateHumanReview(o)
       \/ LoseHumanReview(o)
       \/ \E decision \in {"approved", "rejected"} : DecideHumanReview(o, decision)
       \/ ProviderActs(o)

Request(s) ==
  \/ \E op \in Operations, o \in Offers : Begin(s, op, o)
  \/ VerifyConsent(s)
  \/ Crash(s)
  \/ Refuse(s)
  \/ ExpireOnPresent(s)
  \/ Present(s)
  \/ ExpireOnAuthorize(s)
  \/ Authorize(s)
  \/ GrantActionConsent(s)
  \/ ClaimExecution(s)
  \/ ProviderAnswers(s)
  \/ ProviderFails(s)
  \/ CompleteExecution(s)
  \/ AbandonExecution(s)

Next == Environment \/ \E s \in Sessions : Request(s)

Spec == Init /\ [][Next]_vars
-----------------------------------------------------------------------------
(* What must hold.                                                         *)

\* Type invariant of every table and of the threads.
TypeOK ==
  /\ now \in Nat /\ overstayed \subseteq Offers
  /\ status \in [Offers -> Statuses]
  /\ createdAt \in [Offers -> Nat]
  /\ authorizedAt \in [Offers -> Nat]
  /\ startedAt \in [Offers -> Nat]
  /\ review \in [Offers -> {"none", "due", "pending", "approved", "rejected"}]
  /\ consent \in [Purposes -> {"none", "granted", "revoked", "erased"}]
  /\ recon \in [Offers -> BOOLEAN]
  /\ contained \in BOOLEAN
  /\ provider \in [Offers -> {"idle", "asked", "done"}]
  /\ call \in [Sessions -> Calls \cup {Idle}]

\* An execution claim has one owner: while a thread is between its claim and its completion (or
\* abandonment), no other thread is executing the same offer, although neither complete_execution
\* nor abandon_execution names the claim it ends.  It takes a live thread that overstays 60 seconds
\* to bring a second owner in; what the two may then do to each other is left to the properties
\* below, which promise what they promise of slow owners too.
SingleOwner ==
  \A s, t \in Sessions :
    s # t /\ Holding(s) /\ Holding(t) /\ call[s].offer = call[t].offer
      => call[s].offer \in overstayed

\* An offer recorded as fulfilled, or one with a verification record, is one the provider
\* has acted on; a fulfilled offer has its record, and the record outlives nothing but
\* the later expiry of the offer: completion, provider and record cannot disagree.
CompletionRecorded ==
  \A o \in Offers :
    /\ status[o] = "fulfilled" => recon[o]
    /\ recon[o] => provider[o] = "done" /\ status[o] \in {"fulfilled", "expired"}

\* The provider is asked only for an offer whose customer gave the action consent after
\* authorizing it, and never for one a reviewer refused or has not decided: the gates
\* hold although each is read in another transaction than the claim.
AskedOnlyWithConsent ==
  \A o \in Offers : provider[o] # "idle" =>
    /\ consent[o] # "none"
    /\ review[o] \notin {"due", "pending", "rejected"}

\* The threads together keep the promise of OfferLifecycle: one-way phases, provider
\* asked only while the offer is accepted, settled only when it has acted.
Phase(o) ==
  CASE status[o] = "absent" -> "none"
    [] status[o] \in {"pending_review", "approved"} -> "withheld"
    [] status[o] = "presented" -> "open"
    [] status[o] \in {"authorized", "executing"} -> "accepted"
    [] status[o] = "fulfilled" -> "settled"
    [] status[o] \in {"rejected", "expired"} -> "closed"
    [] OTHER -> "erased"

Effect(o) == CASE provider[o] = "idle" -> "none" [] OTHER -> provider[o]

Lifecycle == INSTANCE OfferLifecycle WITH
  phase <- [o \in Offers |-> Phase(o)],
  effect <- [o \in Offers |-> Effect(o)],
  verifiable <- recon

KeepsThePromise == Lifecycle!PromiseSpec

-----------------------------------------------------------------------------
(* The inductive invariant behind the theorems of OfferExecution_proofs.   *)

\* What a thread carries that holds a claim; and, unless a thread overstayed, the claim is not
\* stale and the row still carries that very claim, if the offer did not expire under it.
Owns(s) ==
  /\ now < call[s].claimed + ExecTimeout
  /\ status[call[s].offer] \in {"executing", "expired", "erased"}
  /\ status[call[s].offer] = "executing" => startedAt[call[s].offer] = call[s].claimed

ClaimInv ==
  \A s \in Sessions : Holding(s) =>
    /\ call[s].op = "execute"
    /\ call[s].at = "returned" => provider[call[s].offer] = "done"
    /\ call[s].offer \notin overstayed => Owns(s)

\* An execution past its consent check belongs to an offer with an action-consent record.
ConsentInv ==
  \A s \in Sessions :
    Working(s) /\ call[s].op = "execute" /\ call[s].at # "consent" => consent[call[s].offer] # "none"

\* How far the review and the provider can be, given the row.
StageInv ==
  \A o \in Offers :
    /\ status[o] \in {"absent", "pending_review", "approved", "rejected", "presented"}
         => provider[o] = "idle"
    /\ status[o] = "absent" => review[o] = "none"
    /\ status[o] \in {"approved", "presented", "authorized", "executing", "fulfilled"}
         => review[o] \in {"none", "approved"}

IInv ==
  /\ TypeOK
  /\ ClaimInv
  /\ SingleOwner
  /\ StageInv
  /\ ConsentInv
  /\ CompletionRecorded
  /\ AskedOnlyWithConsent

-----------------------------------------------------------------------------
(* What the documents say and the code does not keep; see README, Findings. *)

\* docs/API.md: completed replays return the original provider result. claim_execution
\* can replay only an offer still recorded as fulfilled.
ReplayStaysPossible ==
  [][\A o \in Offers : status[o] = "fulfilled" => status'[o] \in {"fulfilled", "erased"}]_vars

\* README: every completed action creates a durable verification record. Once the
\* provider has acted, the record exists or an execution can still write it.
Recordable(o) ==
  \/ status[o] \in {"authorized", "executing"} /\ ~TokenExpired(o)
  \/ \E s \in Sessions : Holding(s) /\ call[s].offer = o /\ status[o] = "executing"

CompletedActionIsRecorded ==
  \A o \in Offers :
    provider[o] = "done" /\ status[o] # "erased" => recon[o] \/ Recordable(o)

\* README: controls are rechecked before fulfilment so that in-flight offers cannot
\* bypass containment. No execution is claimed while a control contains the offer.
NoClaimUnderContainment ==
  [][contained => \A o \in Offers : provider[o] = "idle" => provider'[o] # "asked"]_vars
=============================================================================

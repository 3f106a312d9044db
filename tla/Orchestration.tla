---------------------------- MODULE Orchestration ----------------------------
(***************************************************************************)
(* One customer's orchestration requests: the idempotency row that a       *)
(* request claims, the stages of run_trace between two transactions, the   *)
(* nudge budget they share with the retrieval of reviewed offers, and what *)
(* may happen meanwhile: consent is withdrawn, the customer's data erased, *)
(* controls change, a thread raises or dies, a claim grows old.            *)
(***************************************************************************)
EXTENDS DecisionPolicy

CONSTANTS Keys,           \* Idempotency-Key values
          NoKey,          \* the key of a thread without a request
          Sessions,       \* request threads
          Cap,            \* max_allowed nudges of an engagement cycle
          MaxOffers,      \* bound on the recommendations stored
          MaxIncidents    \* bound on everything that disturbs a request, together

ASSUME OrchestrationAssumption ==
  /\ NoKey \notin Keys
  /\ {Cap, MaxOffers, MaxIncidents} \subseteq Nat
  /\ IsFiniteSet(Sessions)

VARIABLES request,        \* request_idempotency, by key
          used,           \* nudge_count of the current cycle
          offer,          \* recommendations, in the order they are stored
          reviews,        \* pending human_reviews, by recommendation
          consent,        \* active personalization consent
          controls,       \* strictest active control of each scope
          call,           \* what each thread is doing
          interrupted,    \* history: how often each key's work was cut short
          incidents

vars == <<request, used, offer, reviews, consent, controls, call, interrupted, incidents>>

Offers == 1 .. MaxOffers
Modes == {"live", "shadow", "disabled"}
Scopes == {"channel", "segment", "product"}
Refusals == {"rollout_blocked", "consent_required", "budget_exceeded"}
Deliveries == Refusals \union {"none", "shadow_mode", "support_mode", "offer"}
Answers == [mode : Deliveries, offer : 0 .. MaxOffers]
Stages == {"idle", "controls", "consent", "profile", "decide", "budget", "screen", "store",
           "review", "settle", "abandon"}
Statuses == {"absent", "pending_review", "approved", "rejected", "presented", "erased"}
Payments == {"no", "current", "earlier"}   \* whether a nudge was counted, and in which cycle

NoAnswer == [mode |-> "none", offer |-> 0]
Free == [state |-> "free", age |-> "fresh", answer |-> NoAnswer]
Claimed == [Free EXCEPT !.state = "processing"]
Resting == [stage |-> "idle", key |-> NoKey, rollout |-> "live", contained |-> FALSE,
            route |-> "none", fit |-> FALSE, merit |-> "none", paid |-> "no", answer |-> NoAnswer]

Incident == incidents < MaxIncidents /\ incidents' = incidents + 1
Quiet == UNCHANGED <<interrupted, incidents>>
Goto(t, stage) == call' = [call EXCEPT ![t].stage = stage]
\* run_trace is through: what is left of the call is its answer.
Settle(t, mode) ==
  call' = [call EXCEPT ![t] = [Resting EXCEPT !.stage = "settle", !.key = call[t].key,
                               !.paid = call[t].paid, !.answer.mode = mode]]
Working(t) == call[t].stage \notin {"idle", "abandon"}
\* Payments of a cycle that is over.
Past(paid) == IF paid = "current" THEN "earlier" ELSE paid

Init ==
  /\ request = [k \in Keys |-> Free]
  /\ used = 0
  /\ offer = [o \in Offers |-> [status |-> "absent", key |-> NoKey, paid |-> "no", merit |-> "none"]]
  /\ reviews = {}
  /\ consent = TRUE
  /\ controls = [s \in Scopes |-> "live"]
  /\ call = [t \in Sessions |-> Resting]
  /\ interrupted = [k \in Keys |-> 0]
  /\ incidents = 0

-----------------------------------------------------------------------------
\* The request's idempotency row.

Absent == {o \in Offers : offer[o].status = "absent"}
\* Bound: a request is claimed only while there is room for its offer.
Room == Cardinality({t \in Sessions : Working(t)}) < Cardinality(Absent)

Kept(k) == IF request[k].age = "expired" THEN Free ELSE request[k]
\* Slip: in_progress is not looked at.
Claimable_Processing(row) == row.state # "completed"
\* A key nobody has claimed, or one whose claim is 60 seconds old.
Claimable(row) ==
  \/ row.state = "free"
  \/ row.state = "processing" /\ row.age = "overdue"

\* A replay and a 409 change nothing but the expired rows.
ClaimIdempotency(t, k) ==
  /\ call[t].stage = "idle"
  /\ IF Claimable(Kept(k))
     THEN /\ Room
          /\ request' = [x \in Keys |-> IF x = k THEN Claimed ELSE Kept(x)]
          /\ call' = [call EXCEPT ![t] = [Resting EXCEPT !.stage = "controls", !.key = k]]
          /\ interrupted' = IF Kept(k).age = "overdue" THEN [interrupted EXCEPT ![k] = @ + 1]
                            ELSE interrupted
     ELSE /\ request' = [x \in Keys |-> Kept(x)]
          /\ UNCHANGED <<call, interrupted>>
  /\ UNCHANGED <<used, offer, reviews, consent, controls, incidents>>

\* The row both of the following statements look for: whoever claimed it, nobody completed it.
Processing(k) == request[k].state = "processing"

CompleteIdempotency(t) ==
  LET k == call[t].key IN
  /\ call[t].stage = "settle"
  /\ IF Processing(k)
     THEN /\ request' = [request EXCEPT ![k].state = "completed", ![k].answer = call[t].answer]
          /\ call' = [call EXCEPT ![t] = Resting]
          /\ UNCHANGED interrupted
     ELSE /\ Goto(t, "abandon")      \* the claim was lost before completion
          /\ interrupted' = IF call[t].answer.offer = 0 THEN interrupted
                            ELSE [interrupted EXCEPT ![k] = @ + 1]
          /\ UNCHANGED request
  /\ UNCHANGED <<used, offer, reviews, consent, controls, incidents>>
\* Slip: the row is deleted in any state.
AbandonIdempotency_Any(t) ==
  /\ call[t].stage = "abandon"
  /\ request' = [request EXCEPT ![call[t].key] = Free]
  /\ call' = [call EXCEPT ![t] = Resting]
  /\ UNCHANGED <<used, offer, reviews, consent, controls>> /\ Quiet
AbandonIdempotency(t) ==
  LET k == call[t].key IN
  /\ call[t].stage = "abandon"
  /\ request' = IF Processing(k) THEN [request EXCEPT ![k] = Free] ELSE request
  /\ call' = [call EXCEPT ![t] = Resting]
  /\ UNCHANGED <<used, offer, reviews, consent, controls>> /\ Quiet

-----------------------------------------------------------------------------
\* run_trace.

Strictest(modes) ==
  IF "disabled" \in modes THEN "disabled" ELSE IF "shadow" \in modes THEN "shadow" ELSE "live"
\* Slip: the last evaluation counts.
Combine_Last(current, evaluation) == evaluation
Combine(current, evaluation) == Strictest({current, evaluation})
ModeOf(scopes) == Strictest({controls[s] : s \in scopes})

\* The controls of these scopes are evaluated; the call goes on unless they disable it.
Pass(t, scopes, stage) ==
  LET evaluation == ModeOf(scopes)
      combined == Combine(call[t].rollout, evaluation) IN
  IF combined = "disabled"
  THEN Settle(t, "rollout_blocked")
  ELSE call' = [call EXCEPT ![t].stage = stage, ![t].rollout = combined,
                            ![t].contained = @ \/ evaluation # "live"]

CheckControls(t) ==
  /\ call[t].stage = "controls" /\ Pass(t, {"channel"}, "consent")
  /\ UNCHANGED <<request, used, offer, reviews, consent, controls>> /\ Quiet

VerifyConsent(t) ==
  /\ call[t].stage = "consent"
  /\ IF consent THEN Goto(t, "profile") ELSE Settle(t, "consent_required")
  /\ UNCHANGED <<request, used, offer, reviews, consent, controls>> /\ Quiet

\* The customer's context is fetched, and with it the segment.
Profile(t) ==
  /\ call[t].stage = "profile" /\ Pass(t, {"channel", "segment"}, "decide")
  /\ UNCHANGED <<request, used, offer, reviews, consent, controls>> /\ Quiet

\* Promotional capacity is reserved for what may be presented at once.
Spends(rollout, verdict) == rollout # "shadow" /\ verdict = "eligible"

\* The event is published, the graph decides.
Decide(t) ==
  /\ call[t].stage = "decide"
  /\ \E d \in Decisions :
       LET evaluation == ModeOf(Scopes)
           combined == Combine(call[t].rollout, evaluation) IN
       IF combined = "disabled"
       THEN Settle(t, "rollout_blocked")
       ELSE call' = [call EXCEPT ![t].stage = IF Spends(combined, d.verdict) THEN "budget" ELSE "screen",
                                 ![t].rollout = combined,
                                 ![t].contained = @ \/ evaluation # "live",
                                 ![t].fit = d.fit, ![t].route = d.route, ![t].merit = d.merit]
  /\ UNCHANGED <<request, used, offer, reviews, consent, controls>> /\ Quiet

\* Context, stream or graph is unavailable: 503, which releases the key.
DependencyFails(t) ==
  /\ call[t].stage \in {"profile", "decide"} /\ Goto(t, "abandon")
  /\ UNCHANGED <<request, used, offer, reviews, consent, controls>> /\ Quiet

\* The row is locked: the cap is compared and the nudge counted in one transaction.
BudgetLeft == used < Cap

\* Slip: the nudge is counted before the cap is looked at.
ConsumeNudgeBudget_CountsFirst(t) ==
  /\ call[t].stage = "budget"
  /\ used' = used + 1
  /\ IF BudgetLeft
     THEN call' = [call EXCEPT ![t].stage = "screen", ![t].paid = "current"]
     ELSE Settle(t, "budget_exceeded")
  /\ UNCHANGED <<request, offer, reviews, consent, controls>> /\ Quiet
ConsumeNudgeBudget(t) ==
  /\ call[t].stage = "budget"
  /\ IF BudgetLeft
     THEN /\ used' = used + 1
          /\ call' = [call EXCEPT ![t].stage = "screen", ![t].paid = "current"]
     ELSE Settle(t, "budget_exceeded") /\ UNCHANGED used
  /\ UNCHANGED <<request, offer, reviews, consent, controls>> /\ Quiet

\* Consent is read again, the text screened, the delivery mode chosen.
Screen(t) ==
  LET c == call[t]
      ok == c.fit /\ consent IN
  /\ c.stage = "screen"
  /\ \/ ok /\ c.rollout = "shadow" /\ Settle(t, "shadow_mode")
     \/ ok /\ c.rollout # "shadow" /\ c.route # "support" /\ Goto(t, "store")
     \/ (~ok \/ (c.rollout # "shadow" /\ c.route = "support")) /\ Settle(t, "support_mode")
  /\ UNCHANGED <<request, used, offer, reviews, consent, controls>> /\ Quiet

CreateRecommendation(t) ==
  LET c == call[t]
      o == CHOOSE x \in Absent : \A y \in Absent : x <= y
      reviewed == c.route = "review" IN
  /\ c.stage = "store"
  /\ offer' = [offer EXCEPT ![o] = [status |-> IF reviewed THEN "pending_review" ELSE "presented",
                                    key |-> c.key, paid |-> c.paid, merit |-> c.merit]]
  /\ call' = [call EXCEPT ![t].stage = IF reviewed THEN "review" ELSE "settle",
                          ![t].answer = [mode |-> "offer", offer |-> o],
                          ![t].route = "none", ![t].fit = FALSE, ![t].merit = "none"]
  /\ UNCHANGED <<request, used, reviews, consent, controls>> /\ Quiet

\* In a transaction of its own, which nothing ties to the offer's.
CreateHumanReview(t) ==
  /\ call[t].stage = "review" /\ Goto(t, "settle")
  /\ reviews' = reviews \union {call[t].answer.offer}
  /\ UNCHANGED <<request, used, offer, consent, controls>> /\ Quiet

\* Any transaction, or the append to the ledger before the completion, raises.
Raise(t) ==
  /\ Working(t) /\ Incident /\ Goto(t, "abandon")
  /\ interrupted' = [interrupted EXCEPT ![call[t].key] = @ + 1]
  /\ UNCHANGED <<request, used, offer, reviews, consent, controls>>

\* The process dies, and the row stays as it is.
Crash(t) ==
  /\ call[t].stage # "idle" /\ Incident /\ call' = [call EXCEPT ![t] = Resting]
  /\ UNCHANGED <<request, used, offer, reviews, consent, controls, interrupted>>

-----------------------------------------------------------------------------
\* Everybody else.

DecideHumanReview(o, decision) ==
  /\ o \in reviews /\ reviews' = reviews \ {o}
  /\ offer' = IF offer[o].status = "pending_review" THEN [offer EXCEPT ![o].status = decision] ELSE offer
  /\ UNCHANGED <<request, used, consent, controls, call>> /\ Quiet

\* Slip: the cap is looked at, the nudge not counted.
PresentRecommendation_Uncounted(o) ==
  /\ offer[o].status = "approved" /\ BudgetLeft
  /\ offer' = [offer EXCEPT ![o].status = "presented", ![o].paid = "current"]
  /\ UNCHANGED <<request, used, reviews, consent, controls, call>> /\ Quiet
\* The customer retrieves a reviewed offer; OfferExecution has the checks before this transaction.
PresentRecommendation(o) ==
  /\ offer[o].status = "approved" /\ BudgetLeft
  /\ used' = used + 1
  /\ offer' = [offer EXCEPT ![o].status = "presented", ![o].paid = "current"]
  /\ UNCHANGED <<request, reviews, consent, controls, call>> /\ Quiet

UpdateConsent ==
  /\ Incident /\ consent' = ~consent
  /\ UNCHANGED <<request, used, offer, reviews, controls, call, interrupted>>

\* The customer's rows go; the requests under way do not notice.
Erase ==
  /\ Incident
  /\ consent' = FALSE /\ used' = 0 /\ reviews' = {}
  /\ request' = [k \in Keys |-> Free]
  /\ offer' = [o \in Offers |-> IF o \in Absent THEN offer[o]
                                ELSE [offer[o] EXCEPT !.status = "erased", !.paid = Past(@),
                                                   !.merit = "none"]]
  /\ call' = [t \in Sessions |-> [call[t] EXCEPT !.paid = Past(@)]]
  /\ interrupted' = [k \in Keys |-> interrupted[k] + 1]
  /\ UNCHANGED controls

ChangeControls ==
  /\ Incident
  /\ \E s \in Scopes : \E mode \in Modes \ {controls[s]} :
       controls' = [controls EXCEPT ![s] = mode]
  /\ UNCHANGED <<request, used, offer, reviews, consent, call, interrupted>>

\* A row turns 60 seconds old, then a day.
Elapse(k) ==
  /\ Incident /\ request[k].state # "free" /\ request[k].age # "expired"
  /\ request' = [request EXCEPT ![k].age = IF @ = "fresh" THEN "overdue" ELSE "expired"]
  /\ interrupted' = IF request[k].age = "fresh" THEN interrupted
                    ELSE [interrupted EXCEPT ![k] = @ + 1]
  /\ UNCHANGED <<used, offer, reviews, consent, controls, call>>

\* Fourteen days: what was counted so far counts no more.
NewCycle ==
  /\ Incident /\ used > 0 /\ used' = 0
  /\ offer' = [o \in Offers |-> [offer[o] EXCEPT !.paid = Past(@)]]
  /\ call' = [t \in Sessions |-> [call[t] EXCEPT !.paid = Past(@)]]
  /\ UNCHANGED <<request, reviews, consent, controls, interrupted>>

Request(t) ==
  \/ \E k \in Keys : ClaimIdempotency(t, k)
  \/ CheckControls(t)
  \/ VerifyConsent(t)
  \/ Profile(t)
  \/ Decide(t)
  \/ DependencyFails(t)
  \/ ConsumeNudgeBudget(t)
  \/ Screen(t)
  \/ CreateRecommendation(t)
  \/ CreateHumanReview(t)
  \/ CompleteIdempotency(t)
  \/ AbandonIdempotency(t)
  \/ Raise(t)
  \/ Crash(t)

Others ==
  \/ \E o \in Offers : PresentRecommendation(o)
  \/ \E o \in Offers, decision \in {"approved", "rejected"} : DecideHumanReview(o, decision)
  \/ \E k \in Keys : Elapse(k)
  \/ UpdateConsent
  \/ Erase
  \/ ChangeControls
  \/ NewCycle

Next == Others \/ \E t \in Sessions : Request(t)
Spec == Init /\ [][Next]_vars

-----------------------------------------------------------------------------
\* Each table and each thread keeps its type; an idle thread carries nothing.
TypeOK ==
  /\ request \in [Keys -> [state : {"free", "processing", "completed"},
                           age : {"fresh", "overdue", "expired"}, answer : Answers]]
  /\ used \in 0 .. Cap
  /\ offer \in [Offers -> [status : Statuses, key : Keys \union {NoKey}, paid : Payments,
                         merit : Merits \union {"none"}]]
  /\ reviews \subseteq Offers
  /\ consent \in BOOLEAN
  /\ controls \in [Scopes -> Modes]
  /\ call \in [Sessions -> [stage : Stages, key : Keys \union {NoKey}, rollout : {"live", "shadow"},
                            contained : BOOLEAN, route : Routes \union {"none"},
                            fit : BOOLEAN, merit : Merits \union {"none"}, paid : Payments, answer : Answers]]
  /\ \A t \in Sessions : call[t].stage = "idle" <=> call[t] = Resting
  /\ interrupted \in [Keys -> Nat]
  /\ incidents \in 0 .. MaxIncidents

\* Every offer the customer has been shown was counted, in the cycle in which it was reserved,
\* and the count of the running cycle covers them together with the reservations of the requests
\* under way: consume_nudge_budget and present_recommendation never show more than the cap.
NudgesAreCounted ==
  /\ \A o \in Offers : offer[o].status = "presented" => offer[o].paid # "no"
  /\ Cardinality({o \in Offers : offer[o].paid = "current"})
       + Cardinality({t \in Sessions : call[t].paid = "current" /\ call[t].answer.offer = 0}) <= used

\* A completed request keeps its answer until it expires or the customer's data is erased,
\* however late a thread that had lost its claim completes or abandons it.
AnswerStands ==
  [][\A k \in Keys :
       request[k].state = "completed" =>
         \/ request'[k].state = "completed" /\ request'[k].answer = request[k].answer
         \/ request[k].age = "expired"
         \/ Erase]_vars

\* Retries of a key store one offer, and one more at most for each time its work was cut short
\* (a takeover, an expiry, an erasure, or an exception, that of a claim found lost after an
\* offer was stored included).  The unfenced deletion after a 503 is no such time.
NoSurplusOffer ==
  \A k \in Keys : Cardinality({o \in Offers : offer[o].key = k}) <= 1 + interrupted[k]

\* A request that met a shadow or disabled control at any of its three evaluations neither
\* spends a nudge nor stores an offer, even if the control is lifted before the next one.
ContainmentSticks ==
  \A t \in Sessions : call[t].contained => call[t].paid = "no" /\ call[t].answer.offer = 0

\* Whatever the detector, the bank and the catalog supply, no offer is stored for a signal that was
\* classified as stress or a customer the bank flags, on stale facts, beyond the customer's means
\* or at an extreme rate; and where high tiers are reviewed, an offer of one reaches the customer
\* from 'approved' only, with the budget, the second consent check and the storage in between.
\* It speaks of the category that was settled on, not of hardship a text mentions beside an
\* opportunity, and of the product's tier, not of its being credit or an investment.
OffersAreSuitable ==
  [][\A o \in Offers : offer'[o].status # offer[o].status =>
       CASE offer'[o].status = "presented" ->
              \/ offer'[o].merit = "routine"
              \/ offer'[o].merit = "grave" /\ offer[o].status = "approved"
         [] offer'[o].status = "pending_review" -> offer'[o].merit = "grave"
         [] OTHER -> TRUE]_vars

\* A request that is answered with support has not consumed the nudge budget (README.md:175).
SupportConsumesNothing ==
  \A t \in Sessions : call[t].answer.mode = "support_mode" => call[t].paid = "no"
=============================================================================

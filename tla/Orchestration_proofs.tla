------------------------ MODULE Orchestration_proofs ------------------------
(***************************************************************************)
(* Proofs about Orchestration and the policy it decides by, for any number *)
(* of keys, sessions and offers, and whatever the detectors, the bank and  *)
(* the catalog supply.                                                     *)
(***************************************************************************)
EXTENDS Orchestration, FiniteSetTheorems, TLAPS

-----------------------------------------------------------------------------
(* What a decision may be.                                                 *)

LEMMA EvaluationIsVerdict ==
  ASSUME NEW f \in Facts
  PROVE  /\ Evaluate(f) \in Verdicts /\ Route(f) \in Routes /\ Merit(f) \in Merits
         /\ Decision(f).fit \in BOOLEAN
<1>1. Evaluate(f) \in Verdicts
  BY DEF Evaluate, Verdicts
<1>2. Route(f) \in Routes
  BY <1>1 DEF Route, Routes, Verdicts
<1>3. Merit(f) \in Merits
  BY DEF Merit, Merits
<1>4. Decision(f).fit \in BOOLEAN
  BY DEF Decision
<1>5. QED
  BY <1>1, <1>2, <1>3, <1>4

\* What passes the envelope and the guardian is within the customer's means.
LEMMA PassingIsSuitable ==
  ASSUME NEW f \in Facts, Passes(f), ~Stressed(f), Screened(f.product), f.product.tier # "support"
  PROVE  Merit(f) # "unsuitable"
<1> DEFINE p == f.product
           c == f.context
<1>1. /\ c \in Contexts /\ c.income \in Nat /\ c.obligations \in Nat /\ c.age \in Int
  BY PolicyAssumption DEF Facts, TrustedContexts
<1>2. p \in Products /\ p.listed
  BY DEF Facts, Candidates, NoProduct, Passes
<1>3. /\ p.type \in {"credit", "savings", "investment", "service"}
      /\ p.commitment \in Nat /\ p.limit \in Nat /\ p.rate \in Nat
  BY <1>2, PolicyAssumption
<1>4. /\ f.evidence.category # "stress" /\ ~c.stressed /\ c.age \in 0 .. 24 /\ f.policy
      /\ p.rate < RateCap /\ Affordable(c, p)
  BY DEF Passes, Stressed, Current, Screened
<1>5. ~(p.type # "service" /\ (Means(f) <= 0 \/ 4 * Outlay(f) > p.limit * Means(f)))
  <2> HIDE DEF p, c
  <2>1. CASE p.type = "credit"
    <3>1. Means(f) = c.income /\ Outlay(f) = p.commitment + c.obligations
      BY <1>1, <2>1 DEF Means, Outlay, p, c
    <3>2. c.income > 0 /\ 4 * (c.obligations + p.commitment) <= p.limit * c.income
      BY <1>4, <2>1 DEF Affordable
    <3>3. c.obligations + p.commitment = p.commitment + c.obligations
      BY <1>1, <1>3
    <3>4. 4 * Outlay(f) <= p.limit * Means(f)
      BY <3>1, <3>2, <3>3
    <3>5. p.limit * c.income \in Int /\ 4 * (p.commitment + c.obligations) \in Int
      BY <1>1, <1>3
    <3>6. QED
      BY <1>1, <3>1, <3>2, <3>4, <3>5
  <2>2. CASE p.type \in {"savings", "investment"}
    <3>1. Means(f) = c.income - c.obligations /\ Outlay(f) = p.commitment + 0
      BY <2>2 DEF Means, Outlay, p, c
    <3> DEFINE disposable == IF c.income > c.obligations THEN c.income - c.obligations ELSE 0
    <3>2. disposable > 0 /\ 4 * p.commitment <= p.limit * disposable
      BY <1>4, <2>2 DEF Affordable
    <3>3. disposable = c.income - c.obligations /\ p.commitment + 0 = p.commitment
      BY <1>1, <1>3, <3>2
    <3> HIDE DEF disposable
    <3>4. Means(f) = disposable /\ Outlay(f) = p.commitment /\ disposable \in Int
      BY <1>1, <3>1, <3>3
    <3>5. p.limit * disposable \in Int /\ 4 * p.commitment \in Int
      BY <1>3, <3>4
    <3>6. QED
      BY <3>2, <3>4, <3>5
  <2>3. CASE p.type = "service"
    BY <2>3
  <2>4. QED
    BY <1>3, <2>1, <2>2, <2>3
<1>6. QED
  BY <1>3, <1>4, <1>5 DEF Merit, RateCap

\* Whatever is supplied, an offer is routine if it is made at once and grave if it is reviewed.
LEMMA DecisionsAreSuitable ==
  ASSUME NEW d \in Decisions
  PROVE  /\ d.fit \in BOOLEAN /\ d.route \in Routes /\ d.merit \in Merits
         /\ d.route = "offer" => d.verdict = "eligible"
         /\ d.fit /\ d.route = "offer" => d.merit = "routine"
         /\ d.fit /\ d.route = "review" => d.merit = "grave"
<1> PICK f \in Facts : d = Decision(f)
  BY DEF Decisions
<1>1. /\ d.fit \in BOOLEAN /\ d.route = Route(f) /\ d.merit = Merit(f) /\ d.verdict = Evaluate(f)
      /\ d.fit => Screened(f.product)
      /\ Route(f) \in Routes /\ Merit(f) \in Merits
  BY EvaluationIsVerdict DEF Decision
<1>2. Route(f) = "offer" => Evaluate(f) = "eligible" /\ f.product.tier \in {"low", "high"}
  BY EvaluationIsVerdict DEF Route, Verdicts
<1>3. Route(f) = "review" => Evaluate(f) = "review_required"
  BY EvaluationIsVerdict DEF Route, Verdicts
<1>4. Evaluate(f) = "eligible" =>
        Passes(f) /\ ~Stressed(f) /\ ~(f.product.tier = "high" /\ ReviewRequired)
  BY DEF Evaluate
<1>5. Evaluate(f) = "review_required" =>
        Passes(f) /\ ~Stressed(f) /\ f.product.tier = "high" /\ ReviewRequired
  BY DEF Evaluate
<1>6. ASSUME d.fit, d.route = "offer"
      PROVE  d.merit = "routine"
  <2>1. Merit(f) # "unsuitable"
    BY <1>1, <1>2, <1>4, <1>6, PassingIsSuitable
  <2>2. QED
    BY <1>1, <1>2, <1>4, <1>6, <2>1 DEF Merit
<1>7. ASSUME d.fit, d.route = "review"
      PROVE  d.merit = "grave"
  <2>1. Merit(f) # "unsuitable"
    BY <1>1, <1>3, <1>5, <1>7, PassingIsSuitable
  <2>2. QED
    BY <1>1, <1>3, <1>5, <1>7, <2>1 DEF Merit
<1>8. QED
  BY <1>1, <1>2, <1>6, <1>7

\* VersionedRuleSignalDetector: hardship found in a text without a code ends in support, except
\* where another family is found beside it.  Then the first of the list is taken at 65, and that
\* uncertain evidence is all that lets a nudge be made of such a text.
THEOREM HardshipIsSupported ==
  ASSUME NEW text \in Texts, text.code = "none", text.features["stress"] > 0,
         NEW f \in Facts, f.evidence = Classify(text)
  PROVE  \/ Route(f) = "support"
         \/ Cardinality(Found(text)) > 1 /\ f.evidence.confidence = 65
<1>1. "stress" \in Found(text)
  BY DEF Found, Category
<1>2. IsFiniteSet(Found(text)) /\ Cardinality(Found(text)) \in Nat
  <2>1. IsFiniteSet({"friction"} \cup {"opportunity"})
    BY FS_Singleton, FS_AddElement
  <2>2. IsFiniteSet(({"friction"} \cup {"opportunity"}) \cup {"lifeevent"})
    BY <2>1, FS_AddElement
  <2>3. IsFiniteSet((({"friction"} \cup {"opportunity"}) \cup {"lifeevent"}) \cup {"stress"})
    BY <2>2, FS_AddElement
  <2>4. Category = (({"friction"} \cup {"opportunity"}) \cup {"lifeevent"}) \cup {"stress"}
    BY DEF Category
  <2>5. QED
    BY <2>3, <2>4, FS_Subset, FS_CardinalityType DEF Found
<1>3. CASE Cardinality(Found(text)) > 1
  <2>1. Found(text) # {} /\ Cardinality(Found(text)) # 1
    BY <1>1, <1>2, <1>3
  <2>2. Classify(text) = [category |-> First(text), confidence |-> 65, flaws |-> {}]
    BY <1>3, <2>1 DEF Classify
  <2>3. QED
    BY <1>3, <2>2
<1>4. CASE Cardinality(Found(text)) = 1
  <2>1. Found(text) = {"stress"}
    BY <1>1, <1>2, <1>4, FS_Singleton
  <2>2. First(text) = "stress"
    BY <2>1 DEF First
  <2>3. f.evidence.category = "stress"
    BY <1>4, <2>1, <2>2 DEF Classify
  <2>4. Evaluate(f) \in {"rejected", "support_only"}
    BY <2>3 DEF Evaluate, Stressed
  <2>5. QED
    BY <2>4 DEF Route
<1>5. CASE Cardinality(Found(text)) = 0
  BY <1>1, <1>2, <1>5, FS_EmptySet
<1>6. QED
  BY <1>2, <1>3, <1>4, <1>5

-----------------------------------------------------------------------------
(* What a thread may carry at each stage of its request.                   *)

Rows == [state : {"free", "processing", "completed"}, age : {"fresh", "overdue", "expired"},
         answer : Answers]
OfferRows == [status : Statuses, key : Keys \union {NoKey}, paid : Payments,
              merit : Merits \union {"none"}]
Calls ==
  [stage : Stages, key : Keys \union {NoKey}, rollout : {"live", "shadow"}, contained : BOOLEAN,
   route : Routes \union {"none"}, fit : BOOLEAN, merit : Merits \union {"none"},
   paid : Payments, answer : Answers]

\* The stages before an offer is stored, and those before a nudge is counted.
Unstored == {"controls", "consent", "profile", "decide", "budget", "screen", "store"}
Unpaid == {"controls", "consent", "profile", "decide", "budget"}

Suits(c) ==
  /\ c.fit /\ c.route = "offer" => c.merit = "routine"
  /\ c.fit /\ c.route = "review" => c.merit = "grave"
Carries(c) ==
  /\ c.stage # "idle" => c.key \in Keys
  /\ c.stage \in Unstored => c.answer.offer = 0
  /\ c.stage = "review" => c.answer.offer # 0
  /\ c.stage \in Unpaid => c.paid = "no"
Contained(c) ==
  /\ c.contained => c.rollout = "shadow"
  /\ c.rollout = "shadow" => c.paid = "no" /\ c.answer.offer = 0
  /\ c.stage \in {"budget", "store"} => c.rollout = "live"
Follows(c) ==
  /\ c.stage \in {"budget", "screen", "store"} => c.route \in Routes /\ Suits(c)
  /\ c.stage \in {"screen", "store"} /\ c.rollout = "live" /\ c.route = "offer" => c.paid # "no"
  /\ c.stage = "store" => c.fit /\ c.route # "support"
Sound(c) ==
  /\ c \in Calls
  /\ c.stage = "idle" <=> c = Resting
  /\ Carries(c) /\ Contained(c) /\ Follows(c)

OfferSound(x) ==
  /\ x \in OfferRows
  /\ x.status \in {"pending_review", "approved", "rejected"} => x.merit = "grave"
  /\ x.status = "presented" => x.paid # "no"
  /\ x.status = "absent" => x.paid = "no"

Tables ==
  /\ request \in [Keys -> Rows]
  /\ used \in 0 .. Cap
  /\ reviews \subseteq Offers
  /\ consent \in BOOLEAN
  /\ controls \in [Scopes -> Modes]
  /\ interrupted \in [Keys -> Nat]
  /\ incidents \in 0 .. MaxIncidents
OffersSound == offer \in [Offers -> OfferRows] /\ \A o \in Offers : OfferSound(offer[o])
CallsSound == call \in [Sessions -> Calls] /\ \A t \in Sessions : Sound(call[t])

LEMMA Numbers ==
  /\ Cap \in Nat /\ MaxOffers \in Nat /\ MaxIncidents \in Nat
  /\ 0 \in 0 .. MaxOffers /\ 0 \in 0 .. Cap /\ NoKey \notin Keys /\ IsFiniteSet(Sessions)
BY OrchestrationAssumption

LEMMA RestingIsSound ==
  /\ Resting.stage = "idle" /\ Resting.rollout = "live" /\ ~Resting.contained
  /\ Resting.paid = "no" /\ Resting.answer.offer = 0 /\ Resting \in Calls /\ Sound(Resting)
<1>1. NoAnswer \in Answers /\ NoAnswer.offer = 0
  BY Numbers DEF NoAnswer, Answers, Deliveries, Refusals
<1>2. Resting \in Calls
  BY <1>1 DEF Resting, Calls, Stages, Payments
<1>3. /\ Resting.stage = "idle" /\ Resting.rollout = "live" /\ ~Resting.contained
      /\ Resting.paid = "no" /\ Resting.answer = NoAnswer
  BY DEF Resting
<1>4. QED
  BY <1>1, <1>2, <1>3 DEF Sound, Carries, Contained, Follows, Unstored, Unpaid

\* A call that goes on to another stage carries the same.
LEMMA GoesTo ==
  ASSUME NEW c, Sound(c), c.stage # "idle", NEW stage \in Stages \ {"idle"},
         Carries([c EXCEPT !.stage = stage]), Contained([c EXCEPT !.stage = stage]),
         Follows([c EXCEPT !.stage = stage])
  PROVE  Sound([c EXCEPT !.stage = stage])
<1> DEFINE d == [c EXCEPT !.stage = stage]
<1>1. d \in Calls /\ d.stage = stage
  BY DEF Sound, Calls
<1>2. d # Resting
  BY <1>1, RestingIsSound
<1>3. QED
  BY <1>1, <1>2 DEF Sound

\* One that is given up keeps what it carries.
LEMMA GivenUp ==
  ASSUME NEW c, Sound(c), c.stage # "idle"
  PROVE  Sound([c EXCEPT !.stage = "abandon"])
<1> DEFINE d == [c EXCEPT !.stage = "abandon"]
<1>1. /\ d.stage = "abandon" /\ d.key = c.key /\ d.contained = c.contained
      /\ d.rollout = c.rollout /\ d.paid = c.paid /\ d.answer = c.answer
  BY DEF Sound, Calls
<1>2. Carries(d) /\ Contained(d) /\ Follows(d)
  BY <1>1 DEF Sound, Carries, Contained, Follows, Unstored, Unpaid
<1>3. QED
  BY <1>2, GoesTo DEF Stages

SettledCall(c, mode) ==
  [Resting EXCEPT !.stage = "settle", !.key = c.key, !.paid = c.paid, !.answer.mode = mode]
LEMMA SettledIsSound ==
  ASSUME NEW c, Sound(c), c.stage # "idle", NEW mode \in Deliveries
  PROVE  /\ Sound(SettledCall(c, mode))
         /\ SettledCall(c, mode).stage = "settle" /\ SettledCall(c, mode).key = c.key
         /\ SettledCall(c, mode).paid = c.paid /\ SettledCall(c, mode).answer.offer = 0
<1> DEFINE d == SettledCall(c, mode)
           answer == [mode |-> mode, offer |-> 0]
<1>1. answer \in Answers /\ answer.offer = 0
  BY Numbers DEF Answers
<1>2. c.key \in Keys /\ c.paid \in Payments
  BY DEF Sound, Calls, Carries
<1>3. d = [Resting EXCEPT !.stage = "settle", !.key = c.key, !.paid = c.paid, !.answer = answer]
  <2>1. Resting.answer = NoAnswer /\ [NoAnswer EXCEPT !.mode = mode] = answer
    BY DEF Resting, NoAnswer
  <2>2. d = [Resting EXCEPT !.stage = "settle", !.key = c.key, !.paid = c.paid,
                            !.answer = [Resting.answer EXCEPT !.mode = mode]]
    BY Zenon DEF SettledCall
  <2>3. QED
    BY <2>1, <2>2
<1> HIDE DEF answer
<1>4. /\ d.stage = "settle" /\ d.key = c.key /\ d.rollout = "live" /\ ~d.contained
      /\ d.paid = c.paid /\ d.answer = answer
  BY <1>3, RestingIsSound DEF Calls
<1>5. d \in Calls
  BY <1>1, <1>2, <1>3, RestingIsSound DEF Calls, Stages
<1> HIDE DEF d
<1>6. d # Resting
  BY <1>4, RestingIsSound
<1>7. QED
  BY <1>1, <1>2, <1>4, <1>5, <1>6 DEF Sound, Carries, Contained, Follows, Unstored, Unpaid, d

\* The step of a thread changes its own call.
LEMMA OneCall ==
  ASSUME CallsSound, NEW t \in Sessions, NEW c, Sound(c), call' = [call EXCEPT ![t] = c]
  PROVE  CallsSound' /\ call'[t] = c /\ \A x \in Sessions \ {t} : call'[x] = call[x]
BY DEF CallsSound, Sound

LEMMA MovesTo ==
  ASSUME CallsSound, NEW t \in Sessions, NEW stage, Goto(t, stage),
         Sound([call[t] EXCEPT !.stage = stage])
  PROVE  /\ CallsSound' /\ call'[t] = [call[t] EXCEPT !.stage = stage]
         /\ \A x \in Sessions \ {t} : call'[x] = call[x]
         /\ call'[t].stage = stage /\ call'[t].key = call[t].key /\ call'[t].paid = call[t].paid
         /\ call'[t].answer = call[t].answer
<1> DEFINE c == [call[t] EXCEPT !.stage = stage]
<1>1. call' = [call EXCEPT ![t] = c]
  BY DEF Goto
<1>2. /\ c.stage = stage /\ c.key = call[t].key /\ c.paid = call[t].paid
      /\ c.answer = call[t].answer
  BY DEF CallsSound, Sound, Calls
<1> HIDE DEF c
<1>3. Sound(c)
  BY DEF c
<1>4. CallsSound' /\ call'[t] = c /\ \A x \in Sessions \ {t} : call'[x] = call[x]
  BY <1>1, <1>3, OneCall
<1>5. QED
  BY <1>2, <1>4 DEF c

-----------------------------------------------------------------------------
(* What is counted: the room for offers, the nudges, the offers of a key.  *)

\* Threads that may still store an offer, that have a nudge for one, and that may make a key's
\* work go on: by storing its offer, or by deleting its row.
Waits(c) == c.stage \notin {"idle", "abandon"} /\ c.answer.offer = 0
Reserves(c) == c.paid = "current" /\ c.answer.offer = 0
Holds(c) == c.stage # "idle" /\ (c.answer.offer = 0 \/ c.stage = "abandon")

Waiting == {t \in Sessions : Waits(call[t])}
Reserving == {t \in Sessions : Reserves(call[t])}
Holding(k) == {t \in Sessions : Holds(call[t]) /\ call[t].key = k}
Paid == {o \in Offers : offer[o].paid = "current"}
Stored(k) == {o \in Offers : offer[o].key = k}
\* A key that nobody has claimed, or whose claim counts no more, can be claimed for nothing.
Open(k) == IF request[k].state = "free" \/ request[k].age = "expired" THEN 1 ELSE 0

RoomIsKept == Cardinality(Waiting) <= Cardinality(Absent)
Counted == Cardinality(Paid) + Cardinality(Reserving) <= used
SurplusIsEarned ==
  \A k \in Keys : Cardinality(Stored(k)) + Cardinality(Holding(k)) + Open(k) <= 1 + interrupted[k]

OrchInv == Tables /\ OffersSound /\ CallsSound /\ RoomIsKept /\ Counted /\ SurplusIsEarned

LEMMA OffersAreFinite == IsFiniteSet(Offers) /\ \A S \in SUBSET Offers : IsFiniteSet(S)
<1>1. IsFiniteSet(Offers)
  BY Numbers, FS_Interval DEF Offers
<1>2. QED
  BY <1>1, FS_Subset

LEMMA Shrinks ==
  ASSUME NEW S, NEW T, IsFiniteSet(T), S \subseteq T
  PROVE  IsFiniteSet(S) /\ Cardinality(S) \in Nat /\ Cardinality(T) \in Nat
         /\ Cardinality(S) <= Cardinality(T)
BY FS_Subset, FS_CardinalityType

LEMMA GrowsByOne ==
  ASSUME NEW S, NEW T, NEW x, IsFiniteSet(T), S \subseteq T \union {x}
  PROVE  Cardinality(S) \in Nat /\ Cardinality(T) \in Nat /\ Cardinality(S) <= Cardinality(T) + 1
<1>1. /\ IsFiniteSet(T \union {x}) /\ Cardinality(T) \in Nat
      /\ Cardinality(T \union {x}) = IF x \in T THEN Cardinality(T) ELSE Cardinality(T) + 1
  BY FS_AddElement, FS_CardinalityType
<1>2. Cardinality(S) \in Nat /\ Cardinality(S) <= Cardinality(T \union {x})
  BY <1>1, FS_Subset, FS_CardinalityType
<1>3. QED
  BY <1>1, <1>2

LEMMA LosesOne ==
  ASSUME NEW S, NEW T, NEW x \in T, IsFiniteSet(T), S \subseteq T \ {x}
  PROVE  /\ Cardinality(S) \in Nat /\ Cardinality(T) \in Nat
         /\ Cardinality(S) <= Cardinality(T) - 1
<1>1. /\ IsFiniteSet(T \ {x}) /\ Cardinality(T) \in Nat
      /\ Cardinality(T \ {x}) = Cardinality(T) - 1
  BY FS_RemoveElement, FS_CardinalityType
<1>2. Cardinality(S) \in Nat /\ Cardinality(S) <= Cardinality(T \ {x})
  BY <1>1, FS_Subset, FS_CardinalityType
<1>3. QED
  BY <1>1, <1>2

LEMMA SetsAreFinite ==
  /\ IsFiniteSet(Waiting) /\ IsFiniteSet(Reserving) /\ \A k : IsFiniteSet(Holding(k))
  /\ IsFiniteSet(Absent) /\ IsFiniteSet(Paid) /\ \A k : IsFiniteSet(Stored(k))
  /\ Cardinality(Waiting) \in Nat /\ Cardinality(Reserving) \in Nat
  /\ \A k : Cardinality(Holding(k)) \in Nat
  /\ Cardinality(Absent) \in Nat /\ Cardinality(Paid) \in Nat
  /\ \A k : Cardinality(Stored(k)) \in Nat
<1>1. /\ IsFiniteSet(Waiting) /\ IsFiniteSet(Reserving) /\ \A k : IsFiniteSet(Holding(k))
  BY Numbers, FS_Subset DEF Waiting, Reserving, Holding
<1>2. /\ IsFiniteSet(Absent) /\ IsFiniteSet(Paid) /\ \A k : IsFiniteSet(Stored(k))
  BY OffersAreFinite DEF Absent, Paid, Stored
<1>3. QED
  BY <1>1, <1>2, FS_CardinalityType

LEMMA SetsAreFiniteNext ==
  /\ IsFiniteSet(Waiting') /\ IsFiniteSet(Reserving') /\ \A k : IsFiniteSet(Holding(k)')
  /\ IsFiniteSet(Absent') /\ IsFiniteSet(Paid') /\ \A k : IsFiniteSet(Stored(k)')
  /\ Cardinality(Waiting') \in Nat /\ Cardinality(Reserving') \in Nat
  /\ \A k : Cardinality(Holding(k)') \in Nat
  /\ Cardinality(Absent') \in Nat /\ Cardinality(Paid') \in Nat
  /\ \A k : Cardinality(Stored(k)') \in Nat
<1>1. /\ IsFiniteSet(Waiting') /\ IsFiniteSet(Reserving') /\ \A k : IsFiniteSet(Holding(k)')
  BY Numbers, FS_Subset DEF Waiting, Reserving, Holding
<1>2. /\ IsFiniteSet(Absent') /\ IsFiniteSet(Paid') /\ \A k : IsFiniteSet(Stored(k)')
  BY OffersAreFinite DEF Absent, Paid, Stored
<1>3. QED
  BY <1>1, <1>2, FS_CardinalityType

\* A call that goes from c to d needs no more room, nudges or work of its key than it did.
Lightens(c, d) ==
  /\ Waits(d) => Waits(c)
  /\ Reserves(d) => Reserves(c)
  /\ Holds(d) => Holds(c) /\ d.key = c.key
\* One thread goes on like that, or none.
Eases == \A t \in Sessions : Lightens(call[t], call'[t])

LEMMA EasesShrinks ==
  ASSUME Eases
  PROVE  Waiting' \subseteq Waiting /\ Reserving' \subseteq Reserving
         /\ \A k : Holding(k)' \subseteq Holding(k)
BY DEF Eases, Lightens, Waiting, Reserving, Holding

\* The offers keep their keys; none is made room of, and none is paid that was not.
OffersKept ==
  /\ Absent \subseteq Absent' /\ Paid' \subseteq Paid
  /\ \A k \in Keys : Stored(k)' \subseteq Stored(k)
OpenKept == \A k \in Keys : Open(k)' <= Open(k) /\ interrupted'[k] = interrupted[k]

LEMMA RoomStays ==
  ASSUME RoomIsKept, Waiting' \subseteq Waiting, Absent \subseteq Absent'
  PROVE  RoomIsKept'
<1>1. Cardinality(Waiting') <= Cardinality(Waiting) /\ Cardinality(Absent) <= Cardinality(Absent')
  BY SetsAreFinite, SetsAreFiniteNext, Shrinks
<1>2. QED
  BY <1>1, SetsAreFinite, SetsAreFiniteNext DEF RoomIsKept

LEMMA CountStays ==
  ASSUME Tables, Counted, Reserving' \subseteq Reserving, Paid' \subseteq Paid, used' = used
  PROVE  Counted'
<1>1. Cardinality(Reserving') <= Cardinality(Reserving) /\ Cardinality(Paid') <= Cardinality(Paid)
  BY SetsAreFinite, Shrinks
<1>2. QED
  BY <1>1, SetsAreFinite, SetsAreFiniteNext DEF Counted, Tables

\* The balance of a key: what its sets and its row may gain is what is added to interrupted.
LEMMA SurplusStays ==
  ASSUME Tables, SurplusIsEarned, NEW k \in Keys, NEW stored \in {-1, 0, 1}, NEW held \in {-1, 0, 1},
         NEW open \in {-1, 0, 1}, NEW cut \in {0, 1},
         Cardinality(Stored(k)') <= Cardinality(Stored(k)) + stored,
         Cardinality(Holding(k)') <= Cardinality(Holding(k)) + held,
         Open(k)' <= Open(k) + open, interrupted'[k] = interrupted[k] + cut,
         stored + held + open <= cut
  PROVE  Cardinality(Stored(k)') + Cardinality(Holding(k)') + Open(k)' <= 1 + interrupted'[k]
<1>1. /\ Cardinality(Stored(k)) \in Nat /\ Cardinality(Holding(k)) \in Nat
      /\ Cardinality(Stored(k)') \in Nat /\ Cardinality(Holding(k)') \in Nat
      /\ Open(k) \in Nat /\ Open(k)' \in Nat /\ interrupted[k] \in Nat
  BY SetsAreFinite, SetsAreFiniteNext DEF Open, Tables
<1>2. QED
  BY <1>1 DEF SurplusIsEarned

LEMMA CountsStay ==
  ASSUME OrchInv, Eases, OffersKept, OpenKept, used' = used
  PROVE  RoomIsKept' /\ Counted' /\ SurplusIsEarned'
<1> USE DEF OrchInv
<1>1. RoomIsKept' /\ Counted'
  BY EasesShrinks, RoomStays, CountStays DEF OffersKept
<1>2. ASSUME NEW k \in Keys
      PROVE  Cardinality(Stored(k)') + Cardinality(Holding(k)') + Open(k)' <= 1 + interrupted'[k]
  <2>1. /\ Cardinality(Stored(k)') <= Cardinality(Stored(k))
        /\ Cardinality(Holding(k)') <= Cardinality(Holding(k))
    BY SetsAreFinite, EasesShrinks, Shrinks DEF OffersKept
  <2>2. Open(k)' <= Open(k) /\ interrupted'[k] = interrupted[k] /\ interrupted[k] \in Nat
    BY DEF OpenKept, Tables
  <2>3. /\ Cardinality(Stored(k)') <= Cardinality(Stored(k)) + 0
        /\ Cardinality(Holding(k)') <= Cardinality(Holding(k)) + 0
        /\ Open(k)' <= Open(k) + 0 /\ interrupted'[k] = interrupted[k] + 0
    BY <2>1, <2>2, SetsAreFinite, SetsAreFiniteNext DEF Open
  <2>4. QED
    BY <2>3, SurplusStays
<1>3. QED
  BY <1>1, <1>2 DEF SurplusIsEarned

-----------------------------------------------------------------------------
(* The stages of run_trace.                                                *)

\* The thread goes on, soundly, and nothing but its call changes.
Goes == CallsSound' /\ Eases
Same == UNCHANGED <<request, used, offer, reviews, consent, controls>>

LEMMA TablesStay ==
  ASSUME OrchInv, Same, Quiet
  PROVE  Tables' /\ OffersSound' /\ OffersKept /\ OpenKept /\ used' = used
<1>1. /\ request' = request /\ used' = used /\ offer' = offer /\ reviews' = reviews
      /\ consent' = consent /\ controls' = controls /\ interrupted' = interrupted
      /\ incidents' = incidents
  BY DEF Same, Quiet
<1>2. Tables' /\ OffersSound'
  BY <1>1 DEF OrchInv, Tables, OffersSound
<1>3. \A k \in Keys : Open(k)' = Open(k) /\ Open(k) \in Nat
  BY <1>1 DEF Open
<1>4. OffersKept /\ OpenKept
  BY <1>1, <1>3 DEF OffersKept, OpenKept, Absent, Paid, Stored
<1>5. QED
  BY <1>1, <1>2, <1>4

LEMMA CallGoes ==
  ASSUME OrchInv, Same, Quiet, Goes
  PROVE  OrchInv'
BY TablesStay, CountsStay DEF Goes, OrchInv

\* One thread's call changes to d.
LEMMA ThreadGoes ==
  ASSUME CallsSound, NEW t \in Sessions, NEW d, Sound(d), Lightens(call[t], d),
         call' = [call EXCEPT ![t] = d]
  PROVE  Goes
<1>1. CallsSound' /\ call'[t] = d /\ \A x \in Sessions \ {t} : call'[x] = call[x]
  BY OneCall
<1>2. \A x \in Sessions : Lightens(call[x], call'[x])
  BY <1>1 DEF Lightens
<1>3. QED
  BY <1>1, <1>2 DEF Goes, Eases

\* A request that is settled without an offer.
LEMMA SettlesLightly ==
  ASSUME CallsSound, NEW t \in Sessions, call[t].stage \in Unstored, NEW mode \in Deliveries,
         Settle(t, mode)
  PROVE  Goes
<1> DEFINE d == SettledCall(call[t], mode)
<1>1. Sound(call[t]) /\ call[t].stage \notin {"idle", "abandon"} /\ call[t].answer.offer = 0
  BY DEF CallsSound, Sound, Carries, Unstored
<1>2. /\ Sound(d) /\ d.stage = "settle" /\ d.key = call[t].key /\ d.paid = call[t].paid
      /\ d.answer.offer = 0
  BY <1>1, SettledIsSound
<1>3. call' = [call EXCEPT ![t] = d]
  BY DEF Settle, SettledCall
<1> HIDE DEF d
<1>4. Lightens(call[t], d)
  BY <1>1, <1>2 DEF Lightens, Waits, Reserves, Holds
<1>5. QED
  BY <1>2, <1>3, <1>4, ThreadGoes

LEMMA ModesCombine ==
  /\ \A modes : Strictest(modes) \in Modes
  /\ \A a \in {"live", "shadow"}, b \in Modes :
       Combine(a, b) # "disabled" => /\ Combine(a, b) \in {"live", "shadow"}
                                     /\ Combine(a, b) = "live" => a = "live" /\ b = "live"
BY DEF Strictest, Combine, Modes

\* The evaluation of controls only ever makes a call stricter, before it spends or stores.
LEMMA PassGoes ==
  ASSUME CallsSound, NEW t \in Sessions, NEW scopes, NEW stage \in {"consent", "decide"},
         call[t].stage \in {"controls", "profile"}, Pass(t, scopes, stage)
  PROVE  Goes
<1> DEFINE c == call[t]
           evaluation == ModeOf(scopes)
           combined == Combine(c.rollout, evaluation)
           contained == c.contained \/ evaluation # "live"
           d == [c EXCEPT !.stage = stage, !.rollout = combined, !.contained = contained]
<1>1. /\ Sound(c) /\ c \in Calls /\ c.stage \in {"controls", "profile"} /\ c.rollout \in {"live", "shadow"}
      /\ c.key \in Keys /\ c.answer.offer = 0 /\ c.paid = "no"
      /\ c.contained => c.rollout = "shadow"
  BY DEF CallsSound, Sound, Carries, Contained, Calls, Unstored, Unpaid
<1>2. CASE combined = "disabled"
  <2>1. Settle(t, "rollout_blocked")
    BY <1>2 DEF Pass
  <2>2. QED
    BY <2>1, SettlesLightly DEF Unstored, Deliveries, Refusals
<1>3. CASE combined # "disabled"
  <2>1. /\ combined \in {"live", "shadow"}
        /\ combined = "live" => c.rollout = "live" /\ evaluation = "live"
    BY <1>1, <1>3, ModesCombine DEF ModeOf
  <2>2. contained => combined = "shadow"
    BY <1>1, <2>1
  <2>3. call' = [call EXCEPT ![t].stage = stage, ![t].rollout = combined, ![t].contained = contained]
    BY <1>3, Zenon DEF Pass
  <2>4. contained \in BOOLEAN
    BY <1>1 DEF Calls
  <2> HIDE DEF evaluation, combined, contained
  <2>5. call' = [call EXCEPT ![t] = d]
    BY <2>3
  <2>6. d \in Calls
    BY <1>1, <2>1, <2>4 DEF Calls, Stages
  <2>7. /\ d.stage = stage /\ d.rollout = combined /\ d.contained = contained /\ d.key = c.key
        /\ d.answer = c.answer /\ d.paid = c.paid
    BY <1>1 DEF Calls
  <2> HIDE DEF c, d
  <2>8. d # Resting
    BY <2>7, RestingIsSound
  <2>9. Sound(d)
    BY <1>1, <2>1, <2>2, <2>6, <2>7, <2>8 DEF Sound, Carries, Contained, Follows, Unstored, Unpaid
  <2>10. Lightens(c, d)
    BY <1>1, <2>7 DEF Lightens, Waits, Reserves, Holds
  <2>11. QED
    BY <2>5, <2>9, <2>10, ThreadGoes DEF c
<1>4. QED
  BY <1>2, <1>3

\* The call goes on to another stage with what it carries.
LEMMA StageGoes ==
  ASSUME CallsSound, NEW t \in Sessions, NEW stage \in Stages \ {"idle"}, Goto(t, stage),
         Sound([call[t] EXCEPT !.stage = stage]), call[t].stage # "idle",
         stage = "abandon" \/ call[t].stage # "abandon", stage = "abandon" => call[t].answer.offer = 0
  PROVE  Goes
<1> DEFINE d == [call[t] EXCEPT !.stage = stage]
<1>1. /\ d.stage = stage /\ d.key = call[t].key /\ d.answer = call[t].answer /\ d.paid = call[t].paid
  BY DEF CallsSound, Sound, Calls
<1>2. call' = [call EXCEPT ![t] = d]
  BY DEF Goto
<1> HIDE DEF d
<1>3. Lightens(call[t], d)
  BY <1>1 DEF Lightens, Waits, Reserves, Holds
<1>4. Sound(d)
  BY DEF d
<1>5. QED
  BY <1>2, <1>3, <1>4, ThreadGoes

LEMMA ThreadFacts ==
  ASSUME OrchInv, NEW t \in Sessions
  PROVE  /\ Sound(call[t]) /\ call[t] \in Calls
         /\ call[t].stage # "idle" => call[t].key \in Keys
         /\ call[t].stage \in Unstored => call[t].answer.offer = 0
BY DEF OrchInv, CallsSound, Sound, Carries

LEMMA ControlsChecked ==
  ASSUME OrchInv, NEW t \in Sessions, CheckControls(t) \/ Profile(t)
  PROVE  OrchInv'
<1>1. Goes
  BY PassGoes DEF CheckControls, Profile, OrchInv
<1>2. Same /\ Quiet
  BY DEF CheckControls, Profile, Same
<1>3. QED
  BY <1>1, <1>2, CallGoes

LEMMA ConsentVerified ==
  ASSUME OrchInv, NEW t \in Sessions, VerifyConsent(t)
  PROVE  OrchInv'
<1>1. call[t].stage = "consent" /\ call[t].stage \in Unstored /\ Same /\ Quiet
  BY DEF VerifyConsent, Same, Unstored
<1>2. CASE Goto(t, "profile")
  <2> DEFINE d == [call[t] EXCEPT !.stage = "profile"]
  <2>1. /\ d.stage = "profile" /\ d.key = call[t].key /\ d.answer = call[t].answer
        /\ d.paid = call[t].paid /\ d.rollout = call[t].rollout /\ d.contained = call[t].contained
    BY ThreadFacts DEF Calls
  <2>2. Carries(d) /\ Contained(d) /\ Follows(d)
    BY <1>1, <2>1, ThreadFacts DEF Sound, Carries, Contained, Follows, Unstored, Unpaid
  <2>3. Sound(d)
    BY <1>1, <2>2, ThreadFacts, GoesTo DEF Stages
  <2>4. Goes
    BY <1>1, <1>2, <2>3, StageGoes DEF OrchInv, Stages
  <2>5. QED
    BY <1>1, <2>4, CallGoes
<1>3. CASE Settle(t, "consent_required")
  <2>1. Goes
    BY <1>1, <1>3, SettlesLightly DEF OrchInv, Deliveries, Refusals
  <2>2. QED
    BY <1>1, <2>1, CallGoes
<1>4. QED
  BY <1>2, <1>3 DEF VerifyConsent

LEMMA DependencyMissed ==
  ASSUME OrchInv, NEW t \in Sessions, DependencyFails(t)
  PROVE  OrchInv'
<1>1. /\ call[t].stage \in {"profile", "decide"} /\ call[t].stage \in Unstored /\ Same /\ Quiet
      /\ Goto(t, "abandon")
  BY DEF DependencyFails, Same, Unstored
<1>2. Sound([call[t] EXCEPT !.stage = "abandon"])
  BY <1>1, ThreadFacts, GivenUp
<1>3. Goes
  BY <1>1, <1>2, ThreadFacts, StageGoes DEF OrchInv, Stages
<1>4. QED
  BY <1>1, <1>3, CallGoes

\* What the graph decides is suitable, and what it spends is live.
LEMMA DecisionMade ==
  ASSUME OrchInv, NEW t \in Sessions, Decide(t)
  PROVE  OrchInv'
<1>1. call[t].stage = "decide" /\ call[t].stage \in Unstored /\ Same /\ Quiet
  BY DEF Decide, Same, Unstored
<1> DEFINE c == call[t]
           evaluation == ModeOf(Scopes)
           combined == Combine(c.rollout, evaluation)
           contained == c.contained \/ evaluation # "live"
<1>2. PICK choice \in Decisions :
        IF combined = "disabled"
        THEN Settle(t, "rollout_blocked")
        ELSE call' = [call EXCEPT ![t].stage = IF Spends(combined, choice.verdict) THEN "budget"
                                                                                  ELSE "screen",
                                  ![t].rollout = combined, ![t].contained = contained,
                                  ![t].fit = choice.fit, ![t].route = choice.route,
                                  ![t].merit = choice.merit]
  BY DEF Decide
<1>3. CASE combined = "disabled"
  <2>1. Goes
    BY <1>1, <1>2, <1>3, SettlesLightly DEF OrchInv, Deliveries, Refusals
  <2>2. QED
    BY <1>1, <2>1, CallGoes
<1>4. CASE combined # "disabled"
  <2> DEFINE stage == IF Spends(combined, choice.verdict) THEN "budget" ELSE "screen"
             d == [c EXCEPT !.stage = stage, !.rollout = combined, !.contained = contained,
                            !.fit = choice.fit, !.route = choice.route, !.merit = choice.merit]
  <2>1. /\ Sound(c) /\ c \in Calls /\ c.rollout \in {"live", "shadow"}
        /\ c.key \in Keys /\ c.answer.offer = 0 /\ c.paid = "no"
        /\ c.contained => c.rollout = "shadow"
    BY <1>1, ThreadFacts DEF Sound, Carries, Contained, Calls, Unpaid
  <2>2. /\ combined \in {"live", "shadow"}
        /\ combined = "live" => c.rollout = "live" /\ evaluation = "live"
    BY <1>4, <2>1, ModesCombine DEF ModeOf
  <2>3. (contained => combined = "shadow") /\ contained \in BOOLEAN
    BY <2>1, <2>2 DEF Calls
  <2>4. /\ choice.fit \in BOOLEAN /\ choice.route \in Routes /\ choice.merit \in Merits
        /\ choice.route = "offer" => choice.verdict = "eligible"
        /\ choice.fit /\ choice.route = "offer" => choice.merit = "routine"
        /\ choice.fit /\ choice.route = "review" => choice.merit = "grave"
    BY DecisionsAreSuitable
  <2>5. /\ stage \in {"budget", "screen"}
        /\ stage = "budget" => combined = "live"
        /\ stage = "screen" => combined = "shadow" \/ choice.route # "offer"
    BY <2>2, <2>4 DEF Spends
  <2> HIDE DEF evaluation, combined, contained, stage
  <2>6. call' = [call EXCEPT ![t].stage = stage, ![t].rollout = combined, ![t].contained = contained,
                             ![t].fit = choice.fit, ![t].route = choice.route,
                             ![t].merit = choice.merit]
    BY <1>2, <1>4, Zenon DEF stage
  <2>7. call' = [call EXCEPT ![t] = d]
    BY <2>6
  <2>8. d \in Calls
    BY <2>1, <2>2, <2>3, <2>4, <2>5 DEF Calls, Stages
  <2>9. /\ d.stage = stage /\ d.rollout = combined /\ d.contained = contained /\ d.key = c.key
        /\ d.answer = c.answer /\ d.paid = c.paid /\ d.route = choice.route
        /\ d.merit = choice.merit
    BY <2>1 DEF Calls
  <2>10. d.fit = choice.fit
    BY <2>1 DEF Calls
  <2> HIDE DEF c, d
  <2>11. d # Resting
    BY <2>5, <2>9, RestingIsSound
  <2>12. Carries(d) /\ Contained(d)
    BY <2>1, <2>2, <2>3, <2>5, <2>9 DEF Carries, Contained, Unstored, Unpaid
  <2>13. Follows(d)
    BY <2>4, <2>5, <2>9, <2>10 DEF Follows, Suits
  <2>14. Sound(d)
    BY <2>5, <2>8, <2>9, <2>11, <2>12, <2>13 DEF Sound
  <2>15. Lightens(c, d)
    BY <1>1, <2>1, <2>5, <2>9 DEF Lightens, Waits, Reserves, Holds, c
  <2>16. Goes
    BY <2>7, <2>14, <2>15, ThreadGoes DEF c, OrchInv
  <2>17. QED
    BY <1>1, <2>16, CallGoes
<1>5. QED
  BY <1>3, <1>4

LEMMA ScreeningDone ==
  ASSUME OrchInv, NEW t \in Sessions, Screen(t)
  PROVE  OrchInv'
<1>1. call[t].stage = "screen" /\ call[t].stage \in Unstored /\ Same /\ Quiet
  BY DEF Screen, Same, Unstored
<1>2. ASSUME NEW mode \in Deliveries, Settle(t, mode)
      PROVE  OrchInv'
  <2>1. Goes
    BY <1>1, <1>2, SettlesLightly DEF OrchInv
  <2>2. QED
    BY <1>1, <2>1, CallGoes
<1>3. CASE Goto(t, "store") /\ call[t].fit /\ call[t].rollout # "shadow" /\ call[t].route # "support"
  <2> DEFINE c == call[t]
             d == [c EXCEPT !.stage = "store"]
  <2>1. /\ d.stage = "store" /\ d.key = c.key /\ d.answer = c.answer
        /\ d.paid = c.paid /\ d.rollout = c.rollout /\ d.contained = c.contained
        /\ d.route = c.route /\ d.merit = c.merit
    BY ThreadFacts DEF Calls
  <2>2. d.fit = c.fit /\ c.rollout = "live"
    BY <1>3, ThreadFacts DEF Calls
  <2>3. Carries(d) /\ Contained(d) /\ Follows(d)
    BY <1>1, <1>3, <2>1, <2>2, ThreadFacts
       DEF Sound, Carries, Contained, Follows, Suits, Unstored, Unpaid
  <2>4. Sound(d)
    BY <1>1, <2>3, ThreadFacts, GoesTo DEF Stages
  <2>5. Goes
    BY <1>1, <1>3, <2>4, StageGoes DEF OrchInv, Stages
  <2>6. QED
    BY <1>1, <2>5, CallGoes
<1>4. QED
  BY <1>2, <1>3 DEF Screen, Deliveries

-----------------------------------------------------------------------------
(* Nudges, offers and reviews.                                             *)

LEMMA BudgetConsumed ==
  ASSUME OrchInv, NEW t \in Sessions, ConsumeNudgeBudget(t)
  PROVE  OrchInv'
<1> DEFINE c == call[t]
<1>1. /\ c.stage = "budget" /\ c.stage \in Unstored /\ c.answer.offer = 0 /\ c.paid = "no"
      /\ c.rollout = "live" /\ c \in Calls /\ c.key \in Keys /\ Sound(c)
  BY ThreadFacts DEF ConsumeNudgeBudget, BudgetLeft, Unstored, Unpaid, Sound, Carries, Contained
<1>2. CASE ~(used < Cap)
  <2>1. Settle(t, "budget_exceeded") /\ Same /\ Quiet
    BY <1>2 DEF ConsumeNudgeBudget, BudgetLeft, Same
  <2>2. Goes
    BY <1>1, <2>1, SettlesLightly DEF OrchInv, Deliveries, Refusals
  <2>3. QED
    BY <2>1, <2>2, CallGoes
<1>3. CASE used < Cap
  <2> DEFINE d == [c EXCEPT !.stage = "screen", !.paid = "current"]
  <2>1. used' = used + 1 /\ call' = [call EXCEPT ![t] = d]
    BY <1>3 DEF ConsumeNudgeBudget, BudgetLeft
  <2>2. /\ d.stage = "screen" /\ d.paid = "current" /\ d.key = c.key /\ d.answer = c.answer
        /\ d.rollout = c.rollout /\ d.contained = c.contained /\ d.route = c.route
        /\ d.merit = c.merit /\ d \in Calls
    BY <1>1 DEF Calls, Stages, Payments
  <2>3. d.fit = c.fit
    BY <1>1 DEF Calls
  <2> HIDE DEF c, d
  <2>4. d # Resting
    BY <2>2, RestingIsSound
  <2>5. Sound(d)
    BY <1>1, <2>2, <2>3, <2>4 DEF Sound, Carries, Contained, Follows, Suits, Unstored, Unpaid
  <2>6. CallsSound' /\ call'[t] = d /\ \A x \in Sessions \ {t} : call'[x] = call[x]
    BY <2>1, <2>5, OneCall DEF OrchInv
  <2>7. /\ Waiting' \subseteq Waiting /\ \A k \in Keys : Holding(k)' \subseteq Holding(k)
        /\ Reserving' \subseteq Reserving \union {t}
    BY <1>1, <2>2, <2>6 DEF Waiting, Holding, Reserving, Waits, Reserves, Holds, c
  <2>8. /\ request' = request /\ offer' = offer /\ reviews' = reviews /\ consent' = consent
        /\ controls' = controls /\ interrupted' = interrupted /\ incidents' = incidents
    BY DEF ConsumeNudgeBudget, BudgetLeft, Quiet
  <2>9. Tables' /\ OffersSound'
    <3>1. used' \in 0 .. Cap
      BY <1>3, <2>1, Numbers DEF OrchInv, Tables
    <3>2. QED
      BY <2>8, <3>1 DEF OrchInv, Tables, OffersSound
  <2>10. Absent' = Absent /\ Paid' = Paid /\ \A k \in Keys : Stored(k)' = Stored(k) /\ Open(k)' = Open(k)
    BY <2>8 DEF Absent, Paid, Stored, Open
  <2>11. RoomIsKept'
    BY <2>7, <2>10, RoomStays DEF OrchInv
  <2>12. Counted'
    <3>1. Cardinality(Reserving') <= Cardinality(Reserving) + 1
      BY <2>7, SetsAreFinite, GrowsByOne
    <3>2. QED
      BY <2>1, <2>10, <3>1, SetsAreFinite, SetsAreFiniteNext DEF Counted, OrchInv, Tables
  <2>13. SurplusIsEarned'
    <3>1. ASSUME NEW k \in Keys
          PROVE  Cardinality(Stored(k)') + Cardinality(Holding(k)') + Open(k)' <= 1 + interrupted'[k]
      <4>1. /\ Cardinality(Stored(k)') <= Cardinality(Stored(k)) + 0
            /\ Cardinality(Holding(k)') <= Cardinality(Holding(k)) + 0
        BY <2>7, <2>10, SetsAreFinite, SetsAreFiniteNext, Shrinks
      <4>2. Open(k)' <= Open(k) + 0 /\ interrupted'[k] = interrupted[k] + 0
        BY <2>8, <2>10 DEF Open, OrchInv, Tables
      <4>3. QED
        BY <4>1, <4>2, SurplusStays DEF OrchInv
    <3>2. QED
      BY <3>1 DEF SurplusIsEarned
  <2>14. QED
    BY <2>6, <2>9, <2>11, <2>12, <2>13 DEF OrchInv
<1>4. QED
  BY <1>2, <1>3

\* Among offers of which one is absent, one is the first that is.
LEMMA FirstOfSome ==
  ASSUME NEW S \in SUBSET Nat, IsFiniteSet(S), S # {}
  PROVE  \E x \in S : \A y \in S : x <= y
<1> DEFINE below == [x \in S |-> Cardinality({y \in S : y < x})]
           n == Cardinality(S)
<1>1. n \in Nat /\ n > 0
  BY FS_CardinalityType, FS_EmptySet
<1>2. ASSUME NEW x \in S
      PROVE  below[x] \in 0 .. n - 1
  <2>1. {y \in S : y < x} \subseteq S \ {x}
    OBVIOUS
  <2>2. Cardinality({y \in S : y < x}) \in Nat /\ Cardinality({y \in S : y < x}) <= n - 1
    BY <2>1, LosesOne
  <2>3. QED
    BY <1>1, <2>2
<1>3. ASSUME NEW x \in S, NEW y \in S, x < y
      PROVE  below[x] < below[y]
  <2> HIDE DEF below, n
  <2>1. /\ {z \in S : z < x} \subseteq {z \in S : z < y} \ {x}
        /\ x \in {z \in S : z < y}
    <3>1. ASSUME NEW z \in S, z < x
          PROVE  z < y /\ z # x
      <4>1. x \in Nat /\ y \in Nat /\ z \in Nat
        OBVIOUS
      <4>2. QED
        BY <1>3, <3>1, <4>1
    <3>2. QED
      BY <1>3, <3>1
  <2>2. IsFiniteSet({z \in S : z < y})
    BY FS_Subset
  <2>3. Cardinality({z \in S : z < x}) <= Cardinality({z \in S : z < y}) - 1
    BY <2>1, <2>2, LosesOne
  <2>4. QED
    BY <1>2, <2>3 DEF below
<1>4. below \in Injection(S, 0 .. n - 1)
  <2>1. below \in [S -> 0 .. n - 1]
    BY <1>2
  <2>2. ASSUME NEW x \in S, NEW y \in S, x # y
        PROVE  below[x] # below[y]
    BY <1>2, <1>3, <2>2
  <2>3. QED
    BY <2>1, <2>2 DEF Injection, IsInjective
<1>5. IsFiniteSet(0 .. n - 1) /\ Cardinality(0 .. n - 1) = n
  BY <1>1, FS_Interval
<1>6. below \in Surjection(S, 0 .. n - 1)
  BY <1>4, <1>5, FS_Injection
<1>7. PICK x \in S : below[x] = 0
  <2> HIDE DEF below
  <2>1. 0 \in 0 .. n - 1
    BY <1>1
  <2>2. QED
    BY <1>6, <2>1 DEF Surjection
<1>8. {y \in S : y < x} = {}
  <2>1. IsFiniteSet({y \in S : y < x})
    BY FS_Subset
  <2>2. QED
    BY <1>7, <2>1, FS_EmptySet
<1>9. QED
  BY <1>8

\* A thread that is about to store an offer, and the offer it stores.
StoredRow(c) ==
  [status |-> IF c.route = "review" THEN "pending_review" ELSE "presented",
   key |-> c.key, paid |-> c.paid, merit |-> c.merit]
LEMMA StoringIsSound ==
  ASSUME OrchInv, NEW t \in Sessions, CreateRecommendation(t)
  PROVE  \E o \in Absent :
           /\ o \in Offers /\ offer[o].status = "absent"
           /\ offer' = [offer EXCEPT ![o] = StoredRow(call[t])]
           /\ OfferSound(StoredRow(call[t]))
           /\ StoredRow(call[t]).status = "presented" => StoredRow(call[t]).merit = "routine"
           /\ call' = [call EXCEPT ![t].stage = IF call[t].route = "review" THEN "review" ELSE "settle",
                                  ![t].answer = [mode |-> "offer", offer |-> o],
                                  ![t].route = "none", ![t].fit = FALSE, ![t].merit = "none"]
<1> DEFINE c == call[t]
           row == StoredRow(c)
           o == CHOOSE x \in Absent : \A y \in Absent : x <= y
<1>1. /\ c.stage = "store" /\ c.stage \in Unstored /\ c.answer.offer = 0 /\ c \in Calls /\ Sound(c)
      /\ c.key \in Keys /\ c.rollout = "live"
  BY ThreadFacts DEF CreateRecommendation, Unstored, Sound, Contained
<1>2. o \in Absent
  <2>1. t \in Waiting
    BY <1>1 DEF Waiting, Waits
  <2>2. Waiting # {} /\ Cardinality(Waiting) # 0
    BY <2>1, SetsAreFinite, FS_EmptySet
  <2>3. Absent # {}
    BY <2>2, SetsAreFinite, FS_EmptySet DEF OrchInv, RoomIsKept
  <2>4. Absent \in SUBSET Nat
    BY DEF Absent, Offers
  <2>5. \E x \in Absent : \A y \in Absent : x <= y
    BY <2>3, <2>4, SetsAreFinite, FirstOfSome
  <2>6. QED
    BY <2>5
<1>3. /\ c.fit /\ c.route \in {"review", "offer"} /\ Suits(c)
      /\ c.route = "offer" => c.paid # "no"
  BY <1>1 DEF Sound, Follows, Routes
<1>4. /\ offer' = [offer EXCEPT ![o] = row]
      /\ call' = [call EXCEPT ![t].stage = IF c.route = "review" THEN "review" ELSE "settle",
                             ![t].answer = [mode |-> "offer", offer |-> o],
                             ![t].route = "none", ![t].fit = FALSE, ![t].merit = "none"]
  BY Zenon DEF CreateRecommendation, StoredRow
<1> HIDE DEF o
<1>5. /\ row.status = IF c.route = "review" THEN "pending_review" ELSE "presented"
      /\ row.key = c.key /\ row.paid = c.paid /\ row.merit = c.merit
      /\ row \in OfferRows
  BY <1>1 DEF StoredRow, OfferRows, Calls, Statuses
<1> HIDE DEF row
<1>6. OfferSound(row) /\ (row.status = "presented" => row.merit = "routine")
  BY <1>3, <1>5 DEF OfferSound, Suits
<1>7. QED
  BY <1>2, <1>4, <1>6 DEF Absent, row

LEMMA OfferStored ==
  ASSUME OrchInv, NEW t \in Sessions, CreateRecommendation(t)
  PROVE  OrchInv'
<1> DEFINE c == call[t]
           row == StoredRow(c)
<1>1. PICK o \in Absent :
           /\ o \in Offers /\ offer[o].status = "absent"
           /\ offer' = [offer EXCEPT ![o] = row]
           /\ OfferSound(row)
           /\ row.status = "presented" => row.merit = "routine"
           /\ call' = [call EXCEPT ![t].stage = IF call[t].route = "review" THEN "review" ELSE "settle",
                                  ![t].answer = [mode |-> "offer", offer |-> o],
                                  ![t].route = "none", ![t].fit = FALSE, ![t].merit = "none"]
  BY StoringIsSound
<1>2. /\ c.stage = "store" /\ c.stage \in Unstored /\ c.answer.offer = 0 /\ c \in Calls /\ Sound(c)
      /\ c.key \in Keys /\ c.rollout = "live" /\ ~c.contained
  BY ThreadFacts DEF CreateRecommendation, Unstored, Sound, Contained
<1>3. /\ request' = request /\ used' = used /\ reviews' = reviews /\ consent' = consent
      /\ controls' = controls /\ interrupted' = interrupted /\ incidents' = incidents
  BY DEF CreateRecommendation, Quiet
<1> DEFINE stage == IF c.route = "review" THEN "review" ELSE "settle"
           answer == [mode |-> "offer", offer |-> o]
           d == [c EXCEPT !.stage = stage, !.answer = answer, !.route = "none", !.fit = FALSE,
                          !.merit = "none"]
<1>4. answer \in Answers /\ answer.offer = o /\ o # 0
  BY <1>1, Numbers DEF Answers, Deliveries, Offers
<1>5. stage \in {"review", "settle"}
  OBVIOUS
<1>6. call' = [call EXCEPT ![t] = d]
  BY <1>1
<1> HIDE DEF answer, stage
<1>7. /\ d.stage = stage /\ d.answer = answer /\ d.key = c.key /\ d.paid = c.paid
      /\ d.rollout = "live" /\ ~d.contained /\ d \in Calls
  BY <1>2, <1>4, <1>5 DEF Calls, Stages
<1>8. row.key = c.key /\ row.paid = c.paid /\ row.status # "absent"
  BY DEF StoredRow
<1> HIDE DEF d, row, c
<1>9. d # Resting
  BY <1>5, <1>7, RestingIsSound
<1>10. Sound(d)
  BY <1>2, <1>4, <1>5, <1>7, <1>9 DEF Sound, Carries, Contained, Follows, Unstored, Unpaid
<1>11. CallsSound' /\ call'[t] = d /\ \A x \in Sessions \ {t} : call'[x] = call[x]
  BY <1>6, <1>10, OneCall DEF OrchInv
<1>12. offer'[o] = row /\ \A x \in Offers \ {o} : offer'[x] = offer[x]
  BY <1>1 DEF OrchInv, OffersSound
<1>13. Tables' /\ OffersSound'
  <2>1. row \in OfferRows
    BY <1>1 DEF OfferSound
  <2>2. offer' \in [Offers -> OfferRows]
    BY <1>1, <2>1 DEF OrchInv, OffersSound
  <2>3. \A x \in Offers : OfferSound(offer'[x])
    BY <1>1, <1>12 DEF OrchInv, OffersSound
  <2>4. QED
    BY <1>3, <2>2, <2>3 DEF OrchInv, Tables, OffersSound
<1>14. RoomIsKept'
  <2>1. Waiting' \subseteq Waiting \ {t} /\ t \in Waiting
    BY <1>2, <1>4, <1>7, <1>11 DEF Waiting, Waits, c
  <2>2. Absent \subseteq Absent' \union {o}
    BY <1>12 DEF Absent
  <2>3. /\ Cardinality(Waiting') <= Cardinality(Waiting) - 1
        /\ Cardinality(Absent) <= Cardinality(Absent') + 1
    BY <2>1, <2>2, SetsAreFinite, SetsAreFiniteNext, LosesOne, GrowsByOne
  <2>4. QED
    BY <2>3, SetsAreFinite, SetsAreFiniteNext DEF RoomIsKept, OrchInv
<1>15. Counted'
  <2>1. CASE c.paid = "current"
    <3>1. /\ Paid' \subseteq Paid \union {o} /\ Reserving' \subseteq Reserving \ {t}
          /\ t \in Reserving
      BY <1>2, <1>4, <1>7, <1>11, <1>12, <2>1 DEF Paid, Reserving, Reserves, c
    <3>2. /\ Cardinality(Paid') <= Cardinality(Paid) + 1
          /\ Cardinality(Reserving') <= Cardinality(Reserving) - 1
      BY <3>1, SetsAreFinite, LosesOne, GrowsByOne
    <3>3. QED
      BY <1>3, <3>2, SetsAreFinite, SetsAreFiniteNext DEF Counted, OrchInv, Tables
  <2>2. CASE c.paid # "current"
    <3>1. Paid' \subseteq Paid /\ Reserving' \subseteq Reserving
      BY <1>7, <1>8, <1>11, <1>12, <2>2 DEF Paid, Reserving, Reserves, c
    <3>2. QED
      BY <1>3, <3>1, CountStays DEF OrchInv
  <2>3. QED
    BY <2>1, <2>2
<1>16. SurplusIsEarned'
  <2>1. ASSUME NEW k \in Keys
        PROVE  Cardinality(Stored(k)') + Cardinality(Holding(k)') + Open(k)' <= 1 + interrupted'[k]
    <3>1. Open(k)' <= Open(k) + 0 /\ interrupted'[k] = interrupted[k] + 0
      BY <1>3 DEF Open, OrchInv, Tables
    <3>2. CASE k = c.key
      <4>1. /\ Stored(k)' \subseteq Stored(k) \union {o} /\ Holding(k)' \subseteq Holding(k) \ {t}
            /\ t \in Holding(k)
        BY <1>2, <1>4, <1>5, <1>7, <1>11, <1>12, <3>2 DEF Stored, Holding, Holds, c
      <4>2. /\ Cardinality(Stored(k)') <= Cardinality(Stored(k)) + 1
            /\ Cardinality(Holding(k)') <= Cardinality(Holding(k)) - 1
        BY <4>1, SetsAreFinite, LosesOne, GrowsByOne
      <4>3. Cardinality(Holding(k)') <= Cardinality(Holding(k)) + (-1)
        BY <4>2, SetsAreFinite, SetsAreFiniteNext
      <4>4. QED
        BY <3>1, <4>2, <4>3, SurplusStays DEF OrchInv
    <3>3. CASE k # c.key
      <4>1. Stored(k)' \subseteq Stored(k) /\ Holding(k)' \subseteq Holding(k)
        BY <1>7, <1>8, <1>11, <1>12, <3>3 DEF Stored, Holding, Holds, c
      <4>2. /\ Cardinality(Stored(k)') <= Cardinality(Stored(k)) + 0
            /\ Cardinality(Holding(k)') <= Cardinality(Holding(k)) + 0
        BY <4>1, SetsAreFinite, SetsAreFiniteNext, Shrinks
      <4>3. QED
        BY <3>1, <4>2, SurplusStays DEF OrchInv
    <3>4. QED
      BY <3>2, <3>3
  <2>2. QED
    BY <2>1 DEF SurplusIsEarned
<1>17. QED
  BY <1>11, <1>13, <1>14, <1>15, <1>16 DEF OrchInv

LEMMA ReviewCreated ==
  ASSUME OrchInv, NEW t \in Sessions, CreateHumanReview(t)
  PROVE  OrchInv'
<1> DEFINE c == call[t]
           d == [c EXCEPT !.stage = "settle"]
<1>1. c.stage = "review" /\ Goto(t, "settle") /\ Sound(c) /\ c \in Calls
  BY ThreadFacts DEF CreateHumanReview
<1>2. /\ d.stage = "settle" /\ d.key = c.key /\ d.answer = c.answer
      /\ d.paid = c.paid /\ d.rollout = c.rollout /\ d.contained = c.contained
  BY <1>1 DEF Calls
<1>3. Carries(d) /\ Contained(d) /\ Follows(d)
  BY <1>1, <1>2 DEF Sound, Carries, Contained, Follows, Unstored, Unpaid
<1>4. Sound(d)
  BY <1>1, <1>3, GoesTo DEF Stages
<1>5. Goes
  BY <1>1, <1>4, StageGoes DEF OrchInv, Stages
<1>6. /\ request' = request /\ used' = used /\ offer' = offer /\ consent' = consent
      /\ controls' = controls /\ interrupted' = interrupted /\ incidents' = incidents
  BY DEF CreateHumanReview, Quiet
<1>7. c.answer.offer \in Offers
  BY <1>1, Numbers DEF Calls, Answers, Offers, Sound, Carries
<1>8. Tables' /\ OffersSound'
  BY <1>6, <1>7 DEF OrchInv, Tables, OffersSound, CreateHumanReview
<1>9. OffersKept /\ OpenKept
  BY <1>6 DEF OffersKept, OpenKept, Absent, Paid, Stored, Open
<1>10. QED
  BY <1>5, <1>6, <1>8, <1>9, CountsStay DEF Goes, OrchInv

-----------------------------------------------------------------------------
(* The request's idempotency row, and what cuts its work short.            *)

\* A thread that is through needs nothing any more.
LEMMA RestsLightly ==
  ASSUME CallsSound, NEW t \in Sessions, call' = [call EXCEPT ![t] = Resting]
  PROVE  Goes /\ call'[t] = Resting /\ \A x \in Sessions \ {t} : call'[x] = call[x]
<1>1. Lightens(call[t], Resting)
  BY RestingIsSound DEF Lightens, Waits, Reserves, Holds
<1>2. QED
  BY <1>1, RestingIsSound, ThreadGoes, OneCall

LEMMA CallCrashed ==
  ASSUME OrchInv, NEW t \in Sessions, Crash(t)
  PROVE  OrchInv'
<1>1. Goes
  BY RestsLightly DEF Crash, OrchInv
<1>2. /\ request' = request /\ used' = used /\ offer' = offer /\ reviews' = reviews
      /\ consent' = consent /\ controls' = controls /\ interrupted' = interrupted
      /\ incidents' \in 0 .. MaxIncidents
  BY Numbers DEF Crash, Incident, OrchInv, Tables
<1>3. Tables' /\ OffersSound'
  BY <1>2 DEF OrchInv, Tables, OffersSound
<1>4. OffersKept /\ OpenKept
  BY <1>2 DEF OffersKept, OpenKept, Absent, Paid, Stored, Open
<1>5. QED
  BY <1>1, <1>2, <1>3, <1>4, CountsStay DEF Goes, OrchInv

\* The work of a key is cut short: whoever deletes its row afterwards was counted.
LEMMA CutShort ==
  ASSUME OrchInv, NEW t \in Sessions, call[t].stage # "idle", Goto(t, "abandon"),
         interrupted' = [interrupted EXCEPT ![call[t].key] = @ + 1],
         request' = request, used' = used, offer' = offer, reviews' = reviews, consent' = consent,
         controls' = controls, incidents' \in 0 .. MaxIncidents
  PROVE  OrchInv'
<1> DEFINE c == call[t]
<1>1. Sound(c) /\ c.key \in Keys /\ Sound([c EXCEPT !.stage = "abandon"])
  BY ThreadFacts, GivenUp
<1>2. /\ CallsSound' /\ \A x \in Sessions \ {t} : call'[x] = call[x]
      /\ call'[t].stage = "abandon" /\ call'[t].key = c.key /\ call'[t].paid = c.paid
      /\ call'[t].answer = c.answer
  BY <1>1, MovesTo DEF OrchInv
<1>3. /\ interrupted' \in [Keys -> Nat] /\ interrupted'[c.key] = interrupted[c.key] + 1
      /\ \A k \in Keys : k # c.key => interrupted'[k] = interrupted[k]
  BY <1>1 DEF OrchInv, Tables
<1>4. Tables' /\ OffersSound'
  BY <1>3 DEF OrchInv, Tables, OffersSound
<1> HIDE DEF c
<1>5. Waiting' \subseteq Waiting /\ Reserving' \subseteq Reserving
  BY <1>2 DEF Waiting, Reserving, Waits, Reserves, c
<1>6. Absent' = Absent /\ Paid' = Paid /\ \A k \in Keys : Stored(k)' = Stored(k) /\ Open(k)' = Open(k)
  BY DEF Absent, Paid, Stored, Open
<1>7. RoomIsKept' /\ Counted'
  BY <1>5, <1>6, RoomStays, CountStays DEF OrchInv
<1>8. ASSUME NEW k \in Keys
      PROVE  Cardinality(Stored(k)') + Cardinality(Holding(k)') + Open(k)' <= 1 + interrupted'[k]
  <2>1. Cardinality(Stored(k)') <= Cardinality(Stored(k)) + 0 /\ Open(k)' <= Open(k) + 0
    BY <1>6, SetsAreFinite DEF Open
  <2>2. CASE k = c.key
    <3>1. Holding(k)' \subseteq Holding(k) \union {t}
      BY <1>2 DEF Holding
    <3>2. Cardinality(Holding(k)') <= Cardinality(Holding(k)) + 1
      BY <3>1, SetsAreFinite, GrowsByOne
    <3>3. QED
      BY <1>3, <2>1, <2>2, <3>2, SurplusStays DEF OrchInv
  <2>3. CASE k # c.key
    <3>1. Holding(k)' \subseteq Holding(k)
      BY <1>2, <2>3 DEF Holding
    <3>2. /\ Cardinality(Holding(k)') <= Cardinality(Holding(k)) + 0
          /\ interrupted'[k] = interrupted[k] + 0
      BY <1>3, <2>3, <3>1, SetsAreFinite, SetsAreFiniteNext, Shrinks DEF OrchInv, Tables
    <3>3. QED
      BY <2>1, <3>2, SurplusStays DEF OrchInv
  <2>4. QED
    BY <2>2, <2>3
<1>9. QED
  BY <1>2, <1>4, <1>7, <1>8 DEF OrchInv, SurplusIsEarned

LEMMA CallRaised ==
  ASSUME OrchInv, NEW t \in Sessions, Raise(t)
  PROVE  OrchInv'
<1>1. incidents' \in 0 .. MaxIncidents
  BY Numbers DEF Raise, Incident, OrchInv, Tables
<1>2. QED
  BY <1>1, CutShort DEF Raise, Working

LEMMA RequestCompleted ==
  ASSUME OrchInv, NEW t \in Sessions, CompleteIdempotency(t)
  PROVE  OrchInv'
<1> DEFINE c == call[t]
           k == c.key
<1>1. /\ c.stage = "settle" /\ c \in Calls /\ Sound(c) /\ k \in Keys /\ c.answer \in Answers
      /\ used' = used /\ offer' = offer /\ reviews' = reviews /\ consent' = consent
      /\ controls' = controls /\ incidents' = incidents
  BY ThreadFacts DEF CompleteIdempotency, Processing, Calls
<1>2. CASE request[k].state = "processing"
  <2>1. /\ request' = [request EXCEPT ![k].state = "completed", ![k].answer = c.answer]
        /\ call' = [call EXCEPT ![t] = Resting] /\ interrupted' = interrupted
    BY <1>2 DEF CompleteIdempotency, Processing
  <2>2. Goes
    BY <2>1, RestsLightly DEF OrchInv
  <2> DEFINE row == [request[k] EXCEPT !.state = "completed", !.answer = c.answer]
  <2>3. request' = [request EXCEPT ![k] = row]
    BY <2>1
  <2>4. request[k] \in Rows /\ row \in Rows /\ row.age = request[k].age /\ row.state = "completed"
    BY <1>1 DEF OrchInv, Tables, Rows
  <2> HIDE DEF row, k, c
  <2>5. /\ request' \in [Keys -> Rows] /\ request'[k] = row
        /\ \A x \in Keys : x # k => request'[x] = request[x]
    BY <1>1, <2>3, <2>4 DEF OrchInv, Tables
  <2>6. \A x \in Keys : Open(x)' <= Open(x)
    BY <2>4, <2>5 DEF Open
  <2>7. Tables' /\ OffersSound'
    BY <1>1, <2>1, <2>5 DEF OrchInv, Tables, OffersSound
  <2>8. OffersKept /\ OpenKept
    BY <1>1, <2>1, <2>6 DEF OffersKept, OpenKept, Absent, Paid, Stored
  <2>9. QED
    BY <1>1, <2>2, <2>7, <2>8, CountsStay DEF Goes, OrchInv
<1>3. CASE request[k].state # "processing" /\ c.answer.offer = 0
  <2>1. Goto(t, "abandon") /\ Same /\ Quiet
    BY <1>1, <1>3 DEF CompleteIdempotency, Processing, Same, Quiet
  <2>2. Sound([c EXCEPT !.stage = "abandon"])
    BY <1>1, GivenUp
  <2>3. Goes
    BY <1>1, <1>3, <2>1, <2>2, StageGoes DEF OrchInv, Stages
  <2>4. QED
    BY <2>1, <2>3, CallGoes
<1>4. CASE request[k].state # "processing" /\ c.answer.offer # 0
  <2>1. /\ Goto(t, "abandon") /\ interrupted' = [interrupted EXCEPT ![k] = @ + 1]
        /\ request' = request
    BY <1>4 DEF CompleteIdempotency, Processing
  <2>2. incidents' \in 0 .. MaxIncidents
    BY <1>1 DEF OrchInv, Tables
  <2>3. QED
    BY <1>1, <2>1, <2>2, CutShort
<1>5. QED
  BY <1>2, <1>3, <1>4

LEMMA FreeIsFree == Free \in Rows /\ Free.state = "free" /\ Claimed \in Rows
                    /\ Claimed.state = "processing" /\ Claimed.age = "fresh"
<1>1. NoAnswer \in Answers
  BY Numbers DEF NoAnswer, Answers, Deliveries
<1>2. QED
  BY <1>1 DEF Free, Claimed, Rows

LEMMA RequestAbandoned ==
  ASSUME OrchInv, NEW t \in Sessions, AbandonIdempotency(t)
  PROVE  OrchInv'
<1> DEFINE c == call[t]
<1>1. /\ c.stage = "abandon" /\ c.key \in Keys
      /\ request' = IF request[c.key].state = "processing" THEN [request EXCEPT ![c.key] = Free]
                    ELSE request
      /\ call' = [call EXCEPT ![t] = Resting]
      /\ used' = used /\ offer' = offer /\ reviews' = reviews /\ consent' = consent
      /\ controls' = controls /\ interrupted' = interrupted /\ incidents' = incidents
  BY ThreadFacts DEF AbandonIdempotency, Processing, Quiet
<1>2. Goes /\ call'[t] = Resting /\ \A x \in Sessions \ {t} : call'[x] = call[x]
  BY <1>1, RestsLightly DEF OrchInv
<1>3. /\ request' \in [Keys -> Rows]
      /\ \A k \in Keys : k # c.key => request'[k] = request[k]
  BY <1>1, FreeIsFree DEF OrchInv, Tables
<1>4. Tables' /\ OffersSound'
  BY <1>1, <1>3 DEF OrchInv, Tables, OffersSound
<1>5. Absent' = Absent /\ Paid' = Paid /\ \A k \in Keys : Stored(k)' = Stored(k)
  BY <1>1 DEF Absent, Paid, Stored
<1>6. RoomIsKept' /\ Counted'
  BY <1>1, <1>2, <1>5, EasesShrinks, RoomStays, CountStays DEF OrchInv, Goes
<1>7. ASSUME NEW k \in Keys
      PROVE  Cardinality(Stored(k)') + Cardinality(Holding(k)') + Open(k)' <= 1 + interrupted'[k]
  <2>1. /\ Cardinality(Stored(k)') <= Cardinality(Stored(k)) + 0
        /\ interrupted'[k] = interrupted[k] + 0
    BY <1>1, <1>5, SetsAreFinite DEF OrchInv, Tables
  <2>2. CASE k = c.key
    <3>1. Holding(k)' \subseteq Holding(k) \ {t} /\ t \in Holding(k)
      BY <1>1, <1>2, <2>2, RestingIsSound DEF Holding, Holds
    <3>2. Cardinality(Holding(k)') <= Cardinality(Holding(k)) + (-1)
      BY <3>1, SetsAreFinite, SetsAreFiniteNext, LosesOne
    <3>3. Open(k)' <= Open(k) + 1
      BY DEF Open
    <3>4. QED
      BY <2>1, <3>2, <3>3, SurplusStays DEF OrchInv
  <2>3. CASE k # c.key
    <3>1. Holding(k)' \subseteq Holding(k)
      BY <1>2, EasesShrinks DEF Goes
    <3>2. Cardinality(Holding(k)') <= Cardinality(Holding(k)) + 0
      BY <3>1, SetsAreFinite, SetsAreFiniteNext, Shrinks
    <3>3. Open(k)' <= Open(k) + 0
      BY <1>3, <2>3 DEF Open
    <3>4. QED
      BY <2>1, <3>2, <3>3, SurplusStays DEF OrchInv
  <2>4. QED
    BY <2>2, <2>3
<1>8. QED
  BY <1>2, <1>4, <1>6, <1>7 DEF OrchInv, Goes, SurplusIsEarned

\* An expired row is deleted, which opens no key that was not open.
LEMMA KeptRows ==
  ASSUME OrchInv, NEW k \in Keys
  PROVE  /\ Kept(k) \in Rows
         /\ Kept(k).state = "free" \/ Kept(k).age = "expired" => Open(k) = 1
BY FreeIsFree DEF OrchInv, Tables, Kept, Open

LEMMA RequestClaimed ==
  ASSUME OrchInv, NEW t \in Sessions, NEW k \in Keys, ClaimIdempotency(t, k)
  PROVE  OrchInv'
<1>1. /\ used' = used /\ offer' = offer /\ reviews' = reviews /\ consent' = consent
      /\ controls' = controls /\ incidents' = incidents /\ call[t].stage = "idle"
  BY DEF ClaimIdempotency
<1>2. Absent' = Absent /\ Paid' = Paid /\ \A x \in Keys : Stored(x)' = Stored(x)
  BY <1>1 DEF Absent, Paid, Stored
<1>3. CASE ~Claimable(Kept(k))
  <2>1. request' = [x \in Keys |-> Kept(x)] /\ call' = call /\ interrupted' = interrupted
    BY <1>3 DEF ClaimIdempotency
  <2>2. \A x \in Keys : request'[x] = Kept(x) /\ Open(x)' <= Open(x)
    BY <2>1, KeptRows DEF Open
  <2>3. Tables' /\ OffersSound' /\ CallsSound'
    BY <1>1, <2>1, KeptRows DEF OrchInv, Tables, OffersSound, CallsSound
  <2>4. Eases /\ OffersKept /\ OpenKept
    BY <1>2, <2>1, <2>2 DEF Eases, Lightens, OffersKept, OpenKept
  <2>5. QED
    BY <1>1, <2>3, <2>4, CountsStay DEF OrchInv
<1>4. CASE Claimable(Kept(k))
  <2> DEFINE d == [Resting EXCEPT !.stage = "controls", !.key = k]
             busy == {x \in Sessions : Working(x)}
  <2>1. /\ request' = [x \in Keys |-> IF x = k THEN Claimed ELSE Kept(x)]
        /\ call' = [call EXCEPT ![t] = d]
        /\ interrupted' = IF Kept(k).age = "overdue" THEN [interrupted EXCEPT ![k] = @ + 1]
                          ELSE interrupted
        /\ Cardinality(busy) < Cardinality(Absent)
    BY <1>4 DEF ClaimIdempotency, Room
  <2>2. /\ d \in Calls /\ d.stage = "controls" /\ d.key = k /\ d.paid = "no" /\ d.answer.offer = 0
        /\ d.rollout = "live" /\ ~d.contained
    BY RestingIsSound DEF Calls, Stages
  <2> HIDE DEF d
  <2>3. Sound(d)
    BY <2>2, RestingIsSound DEF Sound, Carries, Contained, Follows, Unstored, Unpaid
  <2>4. CallsSound' /\ call'[t] = d /\ \A x \in Sessions \ {t} : call'[x] = call[x]
    BY <2>1, <2>3, OneCall DEF OrchInv
  <2>5. /\ request' \in [Keys -> Rows] /\ request'[k] = Claimed
        /\ \A x \in Keys : x # k => request'[x] = Kept(x)
    BY <2>1, KeptRows, FreeIsFree
  <2>6. interrupted' \in [Keys -> Nat] /\ \A x \in Keys : x # k => interrupted'[x] = interrupted[x]
    BY <2>1 DEF OrchInv, Tables
  <2>7. Tables' /\ OffersSound'
    BY <1>1, <2>5, <2>6 DEF OrchInv, Tables, OffersSound
  <2>8. RoomIsKept'
    <3>1. Waiting' \subseteq busy \union {t}
      BY <2>4 DEF Waiting, Waits, Working
    <3>2. IsFiniteSet(busy)
      BY Numbers, FS_Subset
    <3> HIDE DEF busy
    <3>3. Cardinality(Waiting') <= Cardinality(busy) + 1 /\ Cardinality(busy) \in Nat
      BY <3>1, <3>2, GrowsByOne
    <3>4. QED
      BY <1>2, <2>1, <3>3, SetsAreFinite, SetsAreFiniteNext DEF RoomIsKept
  <2>9. Counted'
    <3>1. Reserving' \subseteq Reserving
      BY <2>2, <2>4 DEF Reserving, Reserves
    <3>2. QED
      BY <1>1, <1>2, <3>1, CountStays DEF OrchInv
  <2>10. ASSUME NEW x \in Keys
         PROVE  Cardinality(Stored(x)') + Cardinality(Holding(x)') + Open(x)' <= 1 + interrupted'[x]
    <3>1. Cardinality(Stored(x)') <= Cardinality(Stored(x)) + 0
      BY <1>2, SetsAreFinite
    <3>2. CASE x = k
      <4>1. Holding(x)' \subseteq Holding(x) \union {t}
        BY <2>4 DEF Holding
      <4>2. Cardinality(Holding(x)') <= Cardinality(Holding(x)) + 1
        BY <4>1, SetsAreFinite, GrowsByOne
      <4>3. Open(x)' = 0
        BY <2>5, <3>2, FreeIsFree DEF Open
      <4>4. CASE Kept(k).age = "overdue"
        <5>1. interrupted'[x] = interrupted[x] + 1 /\ Open(x)' <= Open(x) + 0
          BY <2>1, <3>2, <4>3, <4>4 DEF OrchInv, Tables, Open
        <5>2. QED
          BY <3>1, <4>2, <5>1, SurplusStays DEF OrchInv
      <4>5. CASE Kept(k).age # "overdue"
        <5>1. Kept(k).state = "free"
          BY <1>4, <4>5 DEF Claimable
        <5>2. interrupted'[x] = interrupted[x] + 0 /\ Open(x)' <= Open(x) + (-1)
          BY <2>1, <3>2, <4>3, <4>5, <5>1, KeptRows DEF OrchInv, Tables
        <5>3. QED
          BY <3>1, <4>2, <5>2, SurplusStays DEF OrchInv
      <4>6. QED
        BY <4>4, <4>5
    <3>3. CASE x # k
      <4>1. Holding(x)' \subseteq Holding(x)
        BY <2>2, <2>4, <3>3 DEF Holding
      <4>2. Cardinality(Holding(x)') <= Cardinality(Holding(x)) + 0
        BY <4>1, SetsAreFinite, SetsAreFiniteNext, Shrinks
      <4>3. Open(x)' <= Open(x) + 0 /\ interrupted'[x] = interrupted[x] + 0
        BY <2>5, <2>6, <3>3, KeptRows DEF Open, OrchInv, Tables
      <4>4. QED
        BY <3>1, <4>2, <4>3, SurplusStays DEF OrchInv
    <3>4. QED
      BY <3>2, <3>3
  <2>11. QED
    BY <2>4, <2>7, <2>8, <2>9, <2>10 DEF OrchInv, SurplusIsEarned
<1>5. QED
  BY <1>3, <1>4

-----------------------------------------------------------------------------
(* Everybody else.                                                         *)

LEMMA ReviewDecided ==
  ASSUME OrchInv, NEW o \in Offers, NEW decision \in {"approved", "rejected"},
         DecideHumanReview(o, decision)
  PROVE  OrchInv'
<1>1. /\ request' = request /\ used' = used /\ consent' = consent /\ controls' = controls
      /\ call' = call /\ interrupted' = interrupted /\ incidents' = incidents
      /\ reviews' = reviews \ {o}
  BY DEF DecideHumanReview, Quiet
<1>2. CallsSound' /\ Eases /\ OpenKept
  BY <1>1 DEF OrchInv, CallsSound, Eases, Lightens, OpenKept, Open
<1>3. Tables'
  BY <1>1 DEF OrchInv, Tables
<1>4. CASE offer' = offer
  <2>1. OffersSound' /\ OffersKept
    BY <1>4 DEF OrchInv, OffersSound, OffersKept, Absent, Paid, Stored
  <2>2. QED
    BY <1>1, <1>2, <1>3, <2>1, CountsStay DEF OrchInv
<1>5. CASE /\ offer[o].status = "pending_review"
           /\ offer' = [offer EXCEPT ![o].status = decision]
  <2> DEFINE row == [offer[o] EXCEPT !.status = decision]
  <2>1. offer[o] \in OfferRows /\ OfferSound(offer[o]) /\ offer' = [offer EXCEPT ![o] = row]
    BY <1>5 DEF OrchInv, OffersSound
  <2>2. /\ row \in OfferRows /\ row.status = decision /\ row.key = offer[o].key
        /\ row.paid = offer[o].paid /\ row.merit = offer[o].merit
    BY <2>1 DEF OfferRows, Statuses
  <2> HIDE DEF row
  <2>3. /\ offer' \in [Offers -> OfferRows] /\ offer'[o] = row
        /\ \A x \in Offers : x # o => offer'[x] = offer[x]
    BY <2>1, <2>2 DEF OrchInv, OffersSound
  <2>4. OffersSound'
    BY <1>5, <2>1, <2>2, <2>3 DEF OrchInv, OffersSound, OfferSound
  <2>5. OffersKept
    BY <1>5, <2>2, <2>3 DEF OffersKept, Absent, Paid, Stored
  <2>6. QED
    BY <1>1, <1>2, <1>3, <2>4, <2>5, CountsStay DEF OrchInv
<1>6. QED
  BY <1>4, <1>5 DEF DecideHumanReview

LEMMA OfferPresented ==
  ASSUME OrchInv, NEW o \in Offers, PresentRecommendation(o)
  PROVE  OrchInv'
<1>1. /\ request' = request /\ reviews' = reviews /\ consent' = consent /\ controls' = controls
      /\ call' = call /\ interrupted' = interrupted /\ incidents' = incidents
      /\ offer[o].status = "approved" /\ used < Cap /\ used' = used + 1
  BY DEF PresentRecommendation, BudgetLeft, Quiet
<1>2. CallsSound' /\ Eases /\ OpenKept
  BY <1>1 DEF OrchInv, CallsSound, Eases, Lightens, OpenKept, Open
<1>3. Tables'
  <2>1. used' \in 0 .. Cap
    BY <1>1, Numbers DEF OrchInv, Tables
  <2>2. QED
    BY <1>1, <2>1 DEF OrchInv, Tables
<1> DEFINE row == [offer[o] EXCEPT !.status = "presented", !.paid = "current"]
<1>4. offer[o] \in OfferRows /\ OfferSound(offer[o]) /\ offer' = [offer EXCEPT ![o] = row]
  BY DEF OrchInv, OffersSound, PresentRecommendation, BudgetLeft
<1>5. /\ row \in OfferRows /\ row.status = "presented" /\ row.key = offer[o].key
      /\ row.paid = "current" /\ row.merit = offer[o].merit
  BY <1>4 DEF OfferRows, Statuses, Payments
<1> HIDE DEF row
<1>6. /\ offer' \in [Offers -> OfferRows] /\ offer'[o] = row
      /\ \A x \in Offers : x # o => offer'[x] = offer[x]
  BY <1>4, <1>5 DEF OrchInv, OffersSound
<1>7. OffersSound'
  BY <1>5, <1>6 DEF OrchInv, OffersSound, OfferSound
<1>8. /\ Absent' = Absent /\ \A k \in Keys : Stored(k)' = Stored(k)
      /\ Paid' \subseteq Paid \union {o} /\ Reserving' = Reserving
  BY <1>1, <1>5, <1>6 DEF Absent, Stored, Paid, Reserving
<1>9. RoomIsKept'
  BY <1>2, <1>8, EasesShrinks, RoomStays DEF OrchInv
<1>10. Counted'
  <2>1. Cardinality(Paid') <= Cardinality(Paid) + 1
    BY <1>8, SetsAreFinite, GrowsByOne
  <2>2. QED
    BY <1>1, <1>8, <2>1, SetsAreFinite, SetsAreFiniteNext DEF Counted, OrchInv, Tables
<1>11. ASSUME NEW k \in Keys
       PROVE  Cardinality(Stored(k)') + Cardinality(Holding(k)') + Open(k)' <= 1 + interrupted'[k]
  <2>1. Holding(k)' = Holding(k)
    BY <1>1 DEF Holding
  <2>2. QED
    BY <1>1, <1>8, <2>1 DEF OrchInv, SurplusIsEarned, Open
<1>12. QED
  BY <1>2, <1>3, <1>7, <1>9, <1>10, <1>11 DEF OrchInv, SurplusIsEarned

LEMMA SettingsChanged ==
  ASSUME OrchInv, UpdateConsent \/ ChangeControls
  PROVE  OrchInv'
<1>1. /\ request' = request /\ used' = used /\ offer' = offer /\ reviews' = reviews
      /\ call' = call /\ interrupted' = interrupted
  BY DEF UpdateConsent, ChangeControls
<1>2. /\ incidents' \in 0 .. MaxIncidents /\ controls' \in [Scopes -> Modes]
  BY Numbers DEF UpdateConsent, ChangeControls, Incident, OrchInv, Tables
<1>3. consent' \in BOOLEAN
  BY DEF UpdateConsent, ChangeControls, OrchInv, Tables
<1>4. Tables' /\ OffersSound' /\ CallsSound'
  BY <1>1, <1>2, <1>3 DEF OrchInv, Tables, OffersSound, CallsSound
<1>5. Eases /\ OffersKept /\ OpenKept
  BY <1>1 DEF Eases, Lightens, OffersKept, OpenKept, Absent, Paid, Stored, Open
<1>6. QED
  BY <1>1, <1>4, <1>5, CountsStay DEF OrchInv

LEMMA RowElapses ==
  ASSUME OrchInv, NEW k \in Keys, Elapse(k)
  PROVE  OrchInv'
<1> DEFINE row == [request[k] EXCEPT !.age = IF @ = "fresh" THEN "overdue" ELSE "expired"]
<1>1. /\ used' = used /\ offer' = offer /\ reviews' = reviews /\ consent' = consent
      /\ controls' = controls /\ call' = call /\ incidents' \in 0 .. MaxIncidents
      /\ request[k].state # "free" /\ request[k].age # "expired"
      /\ request' = [request EXCEPT ![k] = row]
      /\ interrupted' = IF request[k].age = "fresh" THEN interrupted
                        ELSE [interrupted EXCEPT ![k] = @ + 1]
  BY Numbers DEF Elapse, Incident, OrchInv, Tables
<1>2. /\ request[k] \in Rows /\ row \in Rows /\ row.state = request[k].state
      /\ row.age = IF request[k].age = "fresh" THEN "overdue" ELSE "expired"
  BY DEF OrchInv, Tables, Rows
<1> HIDE DEF row
<1>3. /\ request' \in [Keys -> Rows] /\ request'[k] = row
      /\ \A x \in Keys : x # k => request'[x] = request[x]
      /\ interrupted' \in [Keys -> Nat] /\ \A x \in Keys : x # k => interrupted'[x] = interrupted[x]
  BY <1>1, <1>2 DEF OrchInv, Tables
<1>4. Tables' /\ OffersSound' /\ CallsSound'
  BY <1>1, <1>3 DEF OrchInv, Tables, OffersSound, CallsSound
<1>5. /\ Waiting' = Waiting /\ Reserving' = Reserving /\ Absent' = Absent /\ Paid' = Paid
      /\ \A x \in Keys : Stored(x)' = Stored(x) /\ Holding(x)' = Holding(x)
  BY <1>1 DEF Waiting, Reserving, Absent, Paid, Stored, Holding
<1>6. RoomIsKept' /\ Counted'
  BY <1>1, <1>5, RoomStays, CountStays DEF OrchInv
<1>7. ASSUME NEW x \in Keys
      PROVE  Cardinality(Stored(x)') + Cardinality(Holding(x)') + Open(x)' <= 1 + interrupted'[x]
  <2>1. /\ Cardinality(Stored(x)') <= Cardinality(Stored(x)) + 0
        /\ Cardinality(Holding(x)') <= Cardinality(Holding(x)) + 0
    BY <1>5, SetsAreFinite
  <2>2. CASE x = k /\ request[k].age # "fresh"
    <3>1. Open(x)' <= Open(x) + 1 /\ interrupted'[x] = interrupted[x] + 1
      BY <1>1, <2>2 DEF Open, OrchInv, Tables
    <3>2. QED
      BY <2>1, <3>1, SurplusStays DEF OrchInv
  <2>3. CASE x # k \/ request[k].age = "fresh"
    <3>1. Open(x)' <= Open(x) + 0 /\ interrupted'[x] = interrupted[x] + 0
      BY <1>1, <1>2, <1>3, <2>3 DEF Open, OrchInv, Tables
    <3>2. QED
      BY <2>1, <3>1, SurplusStays DEF OrchInv
  <2>4. QED
    BY <2>2, <2>3
<1>8. QED
  BY <1>4, <1>6, <1>7 DEF OrchInv, SurplusIsEarned

\* A cycle that is over leaves a call as it was, but for the nudge it had.
LEMMA PastCall ==
  ASSUME NEW c, Sound(c)
  PROVE  /\ Sound([c EXCEPT !.paid = Past(@)])
         /\ Lightens(c, [c EXCEPT !.paid = Past(@)])
         /\ ~Reserves([c EXCEPT !.paid = Past(@)])
<1> DEFINE d == [c EXCEPT !.paid = Past(@)]
<1>1. /\ Past(c.paid) \in Payments \ {"current"}
      /\ Past(c.paid) = "no" <=> c.paid = "no"
  BY DEF Sound, Calls, Past, Payments
<1>2. d \in Calls
  BY <1>1 DEF Sound, Calls
<1>3. /\ d.stage = c.stage /\ d.key = c.key /\ d.rollout = c.rollout /\ d.contained = c.contained
      /\ d.route = c.route /\ d.merit = c.merit /\ d.answer = c.answer /\ d.paid = Past(c.paid)
  BY DEF Sound, Calls
<1>4. d.fit = c.fit
  BY DEF Sound, Calls
<1>5. d.stage = "idle" <=> d = Resting
  <2>1. CASE c.stage = "idle"
    <3>1. c = Resting /\ c.paid = "no" /\ Past(c.paid) = c.paid
      BY <2>1, RestingIsSound DEF Sound, Past
    <3>2. d = [c EXCEPT !.paid = c.paid]
      BY <3>1
    <3>3. d = c
      BY <3>2 DEF Sound, Calls
    <3>4. QED
      BY <2>1, <3>1, <3>3
  <2>2. CASE c.stage # "idle"
    BY <1>3, <2>2, RestingIsSound
  <2>3. QED
    BY <2>1, <2>2
<1> HIDE DEF d
<1>6. Carries(d) /\ Contained(d)
  BY <1>1, <1>3 DEF Sound, Carries, Contained
<1>7. Follows(d)
  BY <1>1, <1>3, <1>4 DEF Sound, Follows, Suits
<1>8. Sound(d)
  BY <1>2, <1>5, <1>6, <1>7 DEF Sound
<1>9. Lightens(c, d) /\ ~Reserves(d)
  BY <1>1, <1>3 DEF Lightens, Waits, Reserves, Holds
<1>10. QED
  BY <1>8, <1>9 DEF d

LEMMA PastCalls ==
  ASSUME OrchInv, call' = [t \in Sessions |-> [call[t] EXCEPT !.paid = Past(@)]]
  PROVE  CallsSound' /\ Eases /\ Reserving' = {}
<1>1. \A t \in Sessions : /\ Sound(call'[t]) /\ Lightens(call[t], call'[t])
                         /\ ~Reserves(call'[t])
  BY PastCall DEF OrchInv, CallsSound
<1>2. QED
  BY <1>1 DEF CallsSound, Eases, Reserving, Sound

\* Nothing of the cycle that is over is left to be counted.
LEMMA NothingIsCounted ==
  ASSUME Tables', Paid' = {}, Reserving' = {}
  PROVE  Counted'
BY FS_EmptySet DEF Counted, Tables

LEMMA PastOffer ==
  ASSUME NEW x \in OfferRows
  PROVE  /\ Past(x.paid) \in Payments \ {"current"}
         /\ Past(x.paid) = "no" <=> x.paid = "no"
BY DEF OfferRows, Past, Payments

LEMMA CycleEnds ==
  ASSUME OrchInv, NewCycle
  PROVE  OrchInv'
<1>1. /\ request' = request /\ reviews' = reviews /\ consent' = consent /\ controls' = controls
      /\ interrupted' = interrupted /\ incidents' \in 0 .. MaxIncidents /\ used' = 0
      /\ offer' = [o \in Offers |-> [offer[o] EXCEPT !.paid = Past(@)]]
  BY Numbers DEF NewCycle, Incident, OrchInv, Tables
<1>2. CallsSound' /\ Eases /\ Reserving' = {}
  BY PastCalls DEF NewCycle
<1>3. Tables'
  BY <1>1, Numbers DEF OrchInv, Tables
<1>4. ASSUME NEW o \in Offers
      PROVE  /\ offer'[o] \in OfferRows /\ OfferSound(offer'[o])
             /\ offer'[o].status = offer[o].status /\ offer'[o].key = offer[o].key
             /\ offer'[o].paid # "current"
  <2>1. offer[o] \in OfferRows /\ OfferSound(offer[o]) /\ offer'[o] = [offer[o] EXCEPT !.paid = Past(@)]
    BY <1>1 DEF OrchInv, OffersSound
  <2>2. /\ offer'[o] \in OfferRows /\ offer'[o].status = offer[o].status
        /\ offer'[o].key = offer[o].key /\ offer'[o].merit = offer[o].merit
        /\ offer'[o].paid = Past(offer[o].paid)
    BY <2>1, PastOffer DEF OfferRows
  <2>3. QED
    BY <2>1, <2>2, PastOffer DEF OfferSound
<1>5. OffersSound'
  BY <1>1, <1>4 DEF OffersSound
<1>6. /\ Absent' = Absent /\ Paid' = {} /\ \A k \in Keys : Stored(k)' = Stored(k)
  BY <1>4 DEF Absent, Paid, Stored
<1>7. RoomIsKept' /\ Counted'
  BY <1>2, <1>3, <1>6, EasesShrinks, RoomStays, NothingIsCounted DEF OrchInv
<1>8. ASSUME NEW k \in Keys
      PROVE  Cardinality(Stored(k)') + Cardinality(Holding(k)') + Open(k)' <= 1 + interrupted'[k]
  <2>1. /\ Cardinality(Stored(k)') <= Cardinality(Stored(k)) + 0
        /\ Cardinality(Holding(k)') <= Cardinality(Holding(k)) + 0
    BY <1>2, <1>6, SetsAreFinite, SetsAreFiniteNext, EasesShrinks, Shrinks
  <2>2. Open(k)' <= Open(k) + 0 /\ interrupted'[k] = interrupted[k] + 0
    BY <1>1 DEF Open, OrchInv, Tables
  <2>3. QED
    BY <2>1, <2>2, SurplusStays DEF OrchInv
<1>9. QED
  BY <1>2, <1>3, <1>5, <1>7, <1>8 DEF OrchInv, SurplusIsEarned

\* What is erased leaves its key, and opens every key once more.
LEMMA CustomerErased ==
  ASSUME OrchInv, Erase
  PROVE  OrchInv'
<1>1. /\ request' = [k \in Keys |-> Free] /\ reviews' = {} /\ consent' = FALSE
      /\ controls' = controls /\ incidents' \in 0 .. MaxIncidents /\ used' = 0
      /\ interrupted' = [k \in Keys |-> interrupted[k] + 1]
      /\ offer' = [o \in Offers |-> IF o \in Absent THEN offer[o]
                                   ELSE [offer[o] EXCEPT !.status = "erased", !.paid = Past(@),
                                                      !.merit = "none"]]
  <2>1. Incident
    BY Zenon DEF Erase
  <2>2. incidents' \in 0 .. MaxIncidents
    BY <2>1, Numbers DEF Incident, OrchInv, Tables
  <2>3. QED
    BY <2>2, Zenon DEF Erase
<1>2. CallsSound' /\ Eases /\ Reserving' = {}
  BY PastCalls DEF Erase
<1>3. Tables'
  <2>1. request' \in [Keys -> Rows]
    BY <1>1, FreeIsFree
  <2>2. consent' \in BOOLEAN /\ interrupted' \in [Keys -> Nat]
    <3>1. \A k \in Keys : interrupted[k] \in Nat
      BY DEF OrchInv, Tables
    <3>2. \A k \in Keys : interrupted[k] + 1 \in Nat
      BY <3>1
    <3>3. interrupted' \in [Keys -> Nat]
      BY <1>1, <3>2
    <3>4. consent' \in BOOLEAN
      BY <1>1
    <3>5. QED
      BY <3>3, <3>4
  <2>3. used' \in 0 .. Cap /\ reviews' \subseteq Offers /\ controls' \in [Scopes -> Modes]
    BY <1>1, Numbers DEF OrchInv, Tables
  <2>4. QED
    BY <1>1, <2>1, <2>2, <2>3 DEF Tables
<1>4. ASSUME NEW o \in Offers
      PROVE  /\ offer'[o] \in OfferRows /\ OfferSound(offer'[o]) /\ offer'[o].key = offer[o].key
             /\ offer'[o].status = "absent" <=> offer[o].status = "absent"
             /\ offer'[o].paid = "current" => offer[o].status = "absent" /\ offer[o].paid = "current"
  <2>1. offer[o] \in OfferRows /\ OfferSound(offer[o])
    BY DEF OrchInv, OffersSound
  <2>2. CASE o \in Absent
    BY <1>1, <2>1, <2>2 DEF Absent
  <2>3. CASE o \notin Absent
    <3>1. /\ offer[o].status # "absent"
          /\ offer'[o] = [offer[o] EXCEPT !.status = "erased", !.paid = Past(@), !.merit = "none"]
      BY <1>1, <2>3 DEF Absent
    <3>2. /\ offer'[o] \in OfferRows /\ offer'[o].status = "erased"
          /\ offer'[o].key = offer[o].key /\ offer'[o].paid = Past(offer[o].paid)
      BY <2>1, <3>1, PastOffer DEF OfferRows, Statuses
    <3>3. QED
      BY <2>1, <3>1, <3>2, PastOffer DEF OfferSound
  <2>4. QED
    BY <2>2, <2>3
<1>5. OffersSound'
  BY <1>1, <1>4 DEF OffersSound
<1>6. /\ Absent' = Absent /\ \A k \in Keys : Stored(k)' = Stored(k)
  BY <1>4 DEF Absent, Stored
<1>7. Paid' = {}
  BY <1>4 DEF Paid, OrchInv, OffersSound, OfferSound
<1>8. RoomIsKept' /\ Counted'
  BY <1>2, <1>3, <1>6, <1>7, EasesShrinks, RoomStays, NothingIsCounted DEF OrchInv
<1>9. ASSUME NEW k \in Keys
      PROVE  Cardinality(Stored(k)') + Cardinality(Holding(k)') + Open(k)' <= 1 + interrupted'[k]
  <2>1. /\ Cardinality(Stored(k)') <= Cardinality(Stored(k)) + 0
        /\ Cardinality(Holding(k)') <= Cardinality(Holding(k)) + 0
    BY <1>2, <1>6, SetsAreFinite, SetsAreFiniteNext, EasesShrinks, Shrinks
  <2>2. Open(k)' <= Open(k) + 1 /\ interrupted'[k] = interrupted[k] + 1
    <3>1. interrupted'[k] = interrupted[k] + 1
      BY <1>1
    <3>2. Open(k)' \in {0, 1} /\ Open(k) \in {0, 1}
      BY DEF Open
    <3>3. QED
      BY <3>1, <3>2
  <2>3. QED
    BY <2>1, <2>2, SurplusStays DEF OrchInv
<1>10. QED
  BY <1>2, <1>3, <1>5, <1>8, <1>9 DEF OrchInv, SurplusIsEarned

-----------------------------------------------------------------------------
(* The invariant holds at first and is kept by every step.                  *)

LEMMA NothingAtFirst ==
  ASSUME Init
  PROVE  /\ Tables /\ OffersSound /\ CallsSound
         /\ Waiting = {} /\ Reserving = {} /\ Paid = {}
         /\ \A k \in Keys : Stored(k) = {} /\ Holding(k) = {} /\ Open(k) = 1 /\ interrupted[k] = 0
<1> DEFINE none == [status |-> "absent", key |-> NoKey, paid |-> "no", merit |-> "none"]
<1>1. /\ none.status = "absent" /\ none.key = NoKey /\ none.paid = "no" /\ none.merit = "none"
      /\ none \in OfferRows
  BY DEF OfferRows, Statuses, Payments
<1>2. offer = [o \in Offers |-> none]
  BY Zenon DEF Init
<1> HIDE DEF none
<1>3. OfferSound(none)
  BY <1>1 DEF OfferSound
<1>4. OffersSound
  BY <1>2, <1>1, <1>3 DEF OffersSound
<1>5. Paid = {} /\ \A k \in Keys : Stored(k) = {}
  BY <1>1, <1>2, Numbers DEF Paid, Stored
<1>6. CallsSound /\ \A t \in Sessions : call[t] = Resting
  BY RestingIsSound DEF Init, CallsSound
<1>7. Waiting = {} /\ Reserving = {} /\ \A k \in Keys : Holding(k) = {}
  BY <1>6, RestingIsSound DEF Waiting, Waits, Reserving, Reserves, Holding, Holds
<1>8. \A k \in Keys : request[k] = Free /\ Open(k) = 1 /\ interrupted[k] = 0
  BY FreeIsFree DEF Init, Open
<1>9. /\ request \in [Keys -> Rows] /\ interrupted \in [Keys -> Nat]
      /\ controls \in [Scopes -> Modes]
  BY FreeIsFree DEF Init, Modes
<1>10. used \in 0 .. Cap /\ reviews \subseteq Offers /\ incidents \in 0 .. MaxIncidents
  BY Numbers DEF Init
<1>11. consent \in BOOLEAN
  BY DEF Init
<1>12. QED
  BY <1>4, <1>5, <1>6, <1>7, <1>8, <1>9, <1>10, <1>11 DEF Tables

LEMMA OrchInit == Init => OrchInv
<1> SUFFICES ASSUME Init PROVE OrchInv
  OBVIOUS
<1>1. /\ Cardinality(Waiting) = 0 /\ Cardinality(Reserving) = 0 /\ Cardinality(Paid) = 0
      /\ \A k \in Keys : Cardinality(Stored(k)) = 0 /\ Cardinality(Holding(k)) = 0
  BY NothingAtFirst, FS_EmptySet
<1>2. RoomIsKept /\ Counted
  BY <1>1, SetsAreFinite, NothingAtFirst DEF RoomIsKept, Counted, Tables
<1>3. SurplusIsEarned
  BY <1>1, NothingAtFirst DEF SurplusIsEarned
<1>4. QED
  BY <1>2, <1>3, NothingAtFirst DEF OrchInv

LEMMA NothingStirs ==
  ASSUME OrchInv, UNCHANGED vars
  PROVE  OrchInv'
<1>1. /\ request' = request /\ used' = used /\ offer' = offer /\ reviews' = reviews
      /\ consent' = consent /\ controls' = controls /\ call' = call
      /\ interrupted' = interrupted /\ incidents' = incidents
  BY DEF vars
<1>2. Tables' /\ OffersSound' /\ CallsSound'
  BY <1>1 DEF OrchInv, Tables, OffersSound, CallsSound
<1>3. Eases /\ OffersKept /\ OpenKept
  BY <1>1 DEF Eases, Lightens, OffersKept, OpenKept, Absent, Paid, Stored, Open
<1>4. QED
  BY <1>1, <1>2, <1>3, CountsStay DEF OrchInv

LEMMA OrchStep == OrchInv /\ [Next]_vars => OrchInv'
<1> SUFFICES ASSUME OrchInv, [Next]_vars PROVE OrchInv'
  OBVIOUS
<1>1. CASE \E t \in Sessions : Request(t)
  <2>1. PICK t \in Sessions : Request(t)
    BY <1>1
  <2>2. CASE \E k \in Keys : ClaimIdempotency(t, k)
    BY <2>2, RequestClaimed
  <2>3. CASE CheckControls(t) \/ Profile(t)
    BY <2>3, ControlsChecked
  <2>4. CASE VerifyConsent(t)
    BY <2>4, ConsentVerified
  <2>5. CASE Decide(t)
    BY <2>5, DecisionMade
  <2>6. CASE DependencyFails(t)
    BY <2>6, DependencyMissed
  <2>7. CASE ConsumeNudgeBudget(t)
    BY <2>7, BudgetConsumed
  <2>8. CASE Screen(t)
    BY <2>8, ScreeningDone
  <2>9. CASE CreateRecommendation(t)
    BY <2>9, OfferStored
  <2>10. CASE CreateHumanReview(t)
    BY <2>10, ReviewCreated
  <2>11. CASE CompleteIdempotency(t)
    BY <2>11, RequestCompleted
  <2>12. CASE AbandonIdempotency(t)
    BY <2>12, RequestAbandoned
  <2>13. CASE Raise(t)
    BY <2>13, CallRaised
  <2>14. CASE Crash(t)
    BY <2>14, CallCrashed
  <2>15. QED
    BY <2>1, <2>2, <2>3, <2>4, <2>5, <2>6, <2>7, <2>8, <2>9, <2>10, <2>11, <2>12, <2>13, <2>14
       DEF Request
<1>2. CASE \E o \in Offers : PresentRecommendation(o)
  BY <1>2, OfferPresented
<1>3. CASE \E o \in Offers, decision \in {"approved", "rejected"} : DecideHumanReview(o, decision)
  BY <1>3, ReviewDecided
<1>4. CASE \E k \in Keys : Elapse(k)
  BY <1>4, RowElapses
<1>5. CASE UpdateConsent \/ ChangeControls
  BY <1>5, SettingsChanged
<1>6. CASE Erase
  BY <1>6, CustomerErased
<1>7. CASE NewCycle
  BY <1>7, CycleEnds
<1>8. CASE UNCHANGED vars
  BY <1>8, NothingStirs
<1>9. QED
  BY <1>1, <1>2, <1>3, <1>4, <1>5, <1>6, <1>7, <1>8 DEF Next, Others

LEMMA OrchHolds == Spec => []OrchInv
BY OrchInit, OrchStep, PTL DEF Spec

-----------------------------------------------------------------------------
(* What the runs check, for any number of keys, threads, offers and nudges. *)

\* Every table and every thread of the orchestration keeps its type.
THEOREM OrchestrationTyped == Spec => []TypeOK
<1>1. OrchInv => TypeOK
  BY DEF OrchInv, Tables, OffersSound, CallsSound, Sound, TypeOK, Rows, OfferRows, Calls
<1>2. QED
  BY <1>1, OrchHolds, PTL

\* An offer shown was counted, and the nudge count of the cycle covers the offers shown in it
\* and the reservations of the requests under way, whatever raises, dies or is retried.
THEOREM NudgesCover == Spec => []NudgesAreCounted
<1>1. OrchInv => NudgesAreCounted
  BY DEF OrchInv, OffersSound, OfferSound, Counted, Paid, Reserving, Reserves, NudgesAreCounted
<1>2. QED
  BY <1>1, OrchHolds, PTL

\* The retries of a key store no more offers than its interruptions account for.
THEOREM RetriesEarnOffers == Spec => []NoSurplusOffer
<1>1. OrchInv => NoSurplusOffer
  <2> SUFFICES ASSUME OrchInv, NEW k \in Keys
               PROVE  Cardinality({o \in Offers : offer[o].key = k}) <= 1 + interrupted[k]
    BY DEF NoSurplusOffer
  <2>1. Cardinality(Stored(k)) + Cardinality(Holding(k)) + Open(k) <= 1 + interrupted[k]
    BY DEF OrchInv, SurplusIsEarned
  <2>2. /\ Cardinality(Stored(k)) \in Nat /\ Cardinality(Holding(k)) \in Nat
        /\ Open(k) \in {0, 1} /\ interrupted[k] \in Nat
    BY SetsAreFinite DEF Open, OrchInv, Tables
  <2>3. Cardinality(Stored(k)) <= 1 + interrupted[k]
    BY <2>1, <2>2
  <2>4. QED
    BY <2>3 DEF Stored
<1>2. QED
  BY <1>1, OrchHolds, PTL

\* What met a shadow or disabled control spends no nudge and stores no offer.
THEOREM ContainmentKept == Spec => []ContainmentSticks
<1>1. OrchInv => ContainmentSticks
  BY DEF OrchInv, CallsSound, Sound, Contained, ContainmentSticks
<1>2. QED
  BY <1>1, OrchHolds, PTL

\* A row that is completed and not expired is no longer claimed, completed or abandoned.
LEMMA CompletedIsLeft ==
  ASSUME OrchInv, [Next]_vars, NEW k \in Keys, request[k].state = "completed",
         request[k].age # "expired", ~Erase
  PROVE  request'[k].state = "completed" /\ request'[k].answer = request[k].answer
<1>1. request \in [Keys -> Rows] /\ request[k] \in Rows /\ Kept(k) = request[k]
  BY DEF OrchInv, Tables, Kept
<1>2. CASE request' = request
  BY <1>2
<1>3. CASE \E t \in Sessions, x \in Keys : ClaimIdempotency(t, x)
  <2>1. PICK t \in Sessions, x \in Keys : ClaimIdempotency(t, x)
    BY <1>3
  <2>2. CASE Claimable(Kept(x))
    <3>1. x # k
      BY <1>1, <2>2 DEF Claimable
    <3>2. request' = [y \in Keys |-> IF y = x THEN Claimed ELSE Kept(y)]
      BY <2>1, <2>2 DEF ClaimIdempotency
    <3>3. QED
      BY <1>1, <3>1, <3>2
  <2>3. CASE ~Claimable(Kept(x))
    <3>1. request' = [y \in Keys |-> Kept(y)]
      BY <2>1, <2>3 DEF ClaimIdempotency
    <3>2. QED
      BY <1>1, <3>1
  <2>4. QED
    BY <2>2, <2>3
<1>4. CASE \E t \in Sessions : CompleteIdempotency(t) \/ AbandonIdempotency(t)
  <2>1. PICK t \in Sessions : CompleteIdempotency(t) \/ AbandonIdempotency(t)
    BY <1>4
  <2>2. CASE request[call[t].key].state = "processing"
    <3>1. call[t].key # k
      BY <2>2
    <3>2. request'[k] = request[k]
      BY <1>1, <2>1, <2>2, <3>1 DEF CompleteIdempotency, Processing, AbandonIdempotency
    <3>3. QED
      BY <3>2
  <2>3. CASE request[call[t].key].state # "processing"
    BY <2>1, <2>3 DEF CompleteIdempotency, Processing, AbandonIdempotency
  <2>4. QED
    BY <2>2, <2>3
<1>5. CASE \E x \in Keys : Elapse(x)
  <2>1. PICK x \in Keys : Elapse(x)
    BY <1>5
  <2>2. request' = [request EXCEPT ![x].age = IF @ = "fresh" THEN "overdue" ELSE "expired"]
    BY <2>1 DEF Elapse
  <2>3. CASE x = k
    <3>1. request'[k] = [request[k] EXCEPT !.age = IF @ = "fresh" THEN "overdue" ELSE "expired"]
      BY <1>1, <2>2, <2>3
    <3>2. QED
      BY <1>1, <3>1 DEF Rows
  <2>4. CASE x # k
    BY <1>1, <2>2, <2>4
  <2>5. QED
    BY <2>3, <2>4
<1>6. CASE \E t \in Sessions : \/ CheckControls(t) \/ VerifyConsent(t) \/ Profile(t) \/ Decide(t)
                             \/ DependencyFails(t) \/ ConsumeNudgeBudget(t) \/ Screen(t)
                             \/ CreateRecommendation(t) \/ CreateHumanReview(t)
                             \/ Raise(t) \/ Crash(t)
  <2>1. request' = request
    <3>1. PICK t \in Sessions :
             \/ CheckControls(t) \/ VerifyConsent(t) \/ Profile(t) \/ Decide(t)
             \/ DependencyFails(t) \/ ConsumeNudgeBudget(t) \/ Screen(t)
             \/ CreateRecommendation(t) \/ CreateHumanReview(t)
             \/ Raise(t) \/ Crash(t)
      BY <1>6
    <3>2. CASE CheckControls(t)
      BY <3>2 DEF CheckControls
    <3>3. CASE VerifyConsent(t)
      BY <3>3 DEF VerifyConsent
    <3>4. CASE Profile(t)
      BY <3>4 DEF Profile
    <3>5. CASE Decide(t)
      BY <3>5, Zenon DEF Decide
    <3>6. CASE DependencyFails(t) \/ ConsumeNudgeBudget(t) \/ Screen(t)
      BY <3>6 DEF DependencyFails, ConsumeNudgeBudget, Screen
    <3>7. CASE CreateRecommendation(t) \/ CreateHumanReview(t)
      BY <3>7 DEF CreateRecommendation, CreateHumanReview
    <3>8. CASE Raise(t) \/ Crash(t)
      BY <3>8 DEF Raise, Crash
    <3>9. QED
      BY <3>1, <3>2, <3>3, <3>4, <3>5, <3>6, <3>7, <3>8
  <2>2. QED
    BY <1>2, <2>1
<1>7. CASE \/ \E o \in Offers : PresentRecommendation(o)
           \/ \E o \in Offers, decision \in {"approved", "rejected"} : DecideHumanReview(o, decision)
           \/ UpdateConsent \/ ChangeControls \/ NewCycle \/ UNCHANGED vars
  <2>1. request' = request
    BY <1>7 DEF PresentRecommendation, DecideHumanReview, UpdateConsent, ChangeControls, NewCycle, vars
  <2>2. QED
    BY <1>2, <2>1
<1>8. QED
  BY <1>3, <1>4, <1>5, <1>6, <1>7 DEF Next, Others, Request

\* A completed answer stands until it expires or is erased, however late a thread that lost its
\* claim comes back.
THEOREM AnswersStand == Spec => AnswerStands
<1>1. OrchInv /\ [Next]_vars =>
        [\A k \in Keys :
           request[k].state = "completed" =>
             \/ request'[k].state = "completed" /\ request'[k].answer = request[k].answer
             \/ request[k].age = "expired"
             \/ Erase]_vars
  BY CompletedIsLeft
<1>2. QED
  BY <1>1, OrchHolds, PTL DEF Spec, AnswerStands

\* What a step may do to the status of an offer.
Suitably(o) ==
  CASE offer'[o].status = "presented" ->
         \/ offer'[o].merit = "routine"
         \/ offer'[o].merit = "grave" /\ offer[o].status = "approved"
    [] offer'[o].status = "pending_review" -> offer'[o].merit = "grave"
    [] OTHER -> TRUE

LEMMA StatusSuits ==
  ASSUME OrchInv, [Next]_vars, NEW o \in Offers, offer'[o].status # offer[o].status
  PROVE  Suitably(o)
<1>1. OrchInv' /\ offer'[o] \in OfferRows /\ OfferSound(offer'[o])
  BY OrchStep DEF OrchInv, OffersSound
<1>2. offer \in [Offers -> OfferRows] /\ OfferSound(offer[o])
  BY DEF OrchInv, OffersSound
<1>3. ASSUME offer'[o].status # "presented" PROVE Suitably(o)
  BY <1>1, <1>3 DEF Suitably, OfferSound
<1>4. CASE \E t \in Sessions : CreateRecommendation(t)
  <2>1. PICK t \in Sessions : CreateRecommendation(t)
    BY <1>4
  <2>2. PICK x \in Absent :
           /\ x \in Offers /\ offer' = [offer EXCEPT ![x] = StoredRow(call[t])]
           /\ StoredRow(call[t]).status = "presented" => StoredRow(call[t]).merit = "routine"
    BY <2>1, StoringIsSound
  <2>3. x = o /\ offer'[o] = StoredRow(call[t])
    BY <1>2, <2>2
  <2>4. QED
    BY <1>3, <2>2, <2>3 DEF Suitably
<1>5. CASE \E x \in Offers : PresentRecommendation(x)
  <2>1. PICK x \in Offers : PresentRecommendation(x)
    BY <1>5
  <2>2. /\ offer[x].status = "approved"
        /\ offer' = [offer EXCEPT ![x].status = "presented", ![x].paid = "current"]
    BY <2>1 DEF PresentRecommendation, BudgetLeft
  <2>3. x = o
    BY <1>2, <2>2
  <2>4. offer'[o].merit = offer[o].merit /\ offer[o].merit = "grave"
    BY <1>2, <2>2, <2>3 DEF OfferSound, OfferRows
  <2>5. QED
    BY <1>3, <2>2, <2>3, <2>4 DEF Suitably
<1>6. CASE \E x \in Offers, decision \in {"approved", "rejected"} : DecideHumanReview(x, decision)
  <2>1. PICK x \in Offers, decision \in {"approved", "rejected"} : DecideHumanReview(x, decision)
    BY <1>6
  <2>2. offer' = [offer EXCEPT ![x].status = decision]
    BY <2>1 DEF DecideHumanReview
  <2>3. offer'[o].status = decision
    BY <1>2, <2>2 DEF OfferRows
  <2>4. QED
    BY <1>3, <2>3
<1>7. CASE Erase
  <2>1. offer' = [x \in Offers |-> IF x \in Absent THEN offer[x]
                                  ELSE [offer[x] EXCEPT !.status = "erased", !.paid = Past(@),
                                                     !.merit = "none"]]
    BY <1>7, Zenon DEF Erase
  <2>2. o \notin Absent
    BY <2>1
  <2>3. offer'[o].status = "erased"
    BY <1>2, <2>1, <2>2 DEF OfferRows
  <2>4. QED
    BY <1>3, <2>3
<1>8. CASE NewCycle
  <2>1. offer'[o] = [offer[o] EXCEPT !.paid = Past(@)]
    BY <1>8 DEF NewCycle
  <2>2. QED
    BY <1>2, <2>1 DEF OfferRows, OfferSound
<1>9. CASE offer' = offer
  BY <1>9
<1>10. QED
  BY <1>4, <1>5, <1>6, <1>7, <1>8, <1>9
  DEF Next, Others, Request, ClaimIdempotency, CheckControls, VerifyConsent, Profile, Decide,
      DependencyFails, ConsumeNudgeBudget, Screen, CreateHumanReview, CompleteIdempotency,
      AbandonIdempotency, Raise, Crash, UpdateConsent, ChangeControls, Elapse, vars

\* No offer is stored that Merit calls unsuitable (stress as the settled category, a flagged
\* customer, stale facts, beyond the means, an extreme rate), and one of a reviewed tier is shown
\* from 'approved' only, whatever the detector, the bank and the catalog supply.
THEOREM OffersStaySuitable == Spec => OffersAreSuitable
<1>1. OrchInv /\ [Next]_vars =>
        [\A o \in Offers : offer'[o].status # offer[o].status => Suitably(o)]_vars
  BY StatusSuits
<1>2. QED
  BY <1>1, OrchHolds, PTL DEF Spec, OffersAreSuitable, Suitably
=============================================================================

--------------------------- MODULE DecisionPolicy ---------------------------
(***************************************************************************)
(* What the compiled graph decides about one signal, as operators without  *)
(* state: the detectors' evidence, the providers' customer context, the    *)
(* rule envelope of DeterministicDecisionPolicy, the output guardian and   *)
(* the route of an offer.  Money is counted in units, confidence and rates *)
(* in percent, the limit of a product in quarters of the income, the age   *)
(* of a context in hours; a text is the set of the words that are looked   *)
(* for in it.                                                              *)
(***************************************************************************)
EXTENDS Integers, FiniteSets

CONSTANTS Texts,          \* signals: the category of their code, the features found of each
          Responses,      \* what the bank's detection service may answer
          Contexts,       \* what the bank's context service may answer
          Products,       \* rules the served catalog may hold
          MinConfidence,  \* signal_detection_minimum_confidence
          ReviewRequired  \* high_risk_review_required

Category == {"friction", "opportunity", "lifeevent", "stress"}
Flaws == {"incomplete", "digest", "schema", "status", "identity", "reasons"}
Verdicts == {"rejected", "support_only", "review_required", "eligible"}
Routes == {"support", "review", "offer"}
Merits == {"unsuitable", "grave", "routine"}
RateCap == 36

ASSUME PolicyAssumption ==
  /\ Texts \subseteq [code : Category \union {"none"}, features : [Category -> 0 .. 4]]
  /\ \A r \in Responses : r.flaws \subseteq Flaws /\ r.confidence \in Int
  /\ Contexts \subseteq [verified : BOOLEAN, age : Int, income : Nat, obligations : Nat,
                         stressed : BOOLEAN]
  /\ \A p \in Products : /\ p.type \in {"credit", "savings", "investment", "service"}
                         /\ {p.commitment, p.limit, p.rate} \subseteq Nat
  /\ MinConfidence \in 0 .. 100 /\ ReviewRequired \in BOOLEAN

-----------------------------------------------------------------------------
\* Detection.

Precedence == [friction |-> 1, opportunity |-> 2, lifeevent |-> 3, stress |-> 4]
Found(text) == {c \in Category : text.features[c] > 0}
First(text) == CHOOSE c \in Found(text) : \A d \in Found(text) : Precedence[c] <= Precedence[d]

\* The rule detector: a code of the contract, else the first category with a feature, else stress.
Classify(text) ==
  CASE text.code # "none" -> [category |-> text.code, confidence |-> 99, flaws |-> {}]
    [] text.code = "none" /\ Cardinality(Found(text)) > 1 ->
         [category |-> First(text), confidence |-> 65, flaws |-> {}]
    [] text.code = "none" /\ Cardinality(Found(text)) = 1 ->
         [category |-> First(text), confidence |-> 75 + 5 * text.features[First(text)], flaws |-> {}]
    [] text.code = "none" /\ Found(text) = {} ->
         [category |-> "stress", confidence |-> 60, flaws |-> {}]

\* The bank's detector is believed when nothing at all is wrong with its answer.
Accepted(response) ==
  /\ response.category \in Category
  /\ response.confidence \in 0 .. 100
  /\ response.flaws = {}

\* Either detector raises below the minimum; the model detector always does.
Evidence == {e \in {Classify(text) : text \in Texts} \union {r \in Responses : Accepted(r)} :
               e.confidence >= MinConfidence}

-----------------------------------------------------------------------------
\* Context and catalog.

\* The bank's client raises unless the context is verified; a synthetic one is, and is new.
TrustedContexts == {c \in Contexts : c.verified}

NoProduct == [listed |-> FALSE, tier |-> "support", type |-> "service", commitment |-> 0,
              limit |-> 4, rate |-> 0, words |-> {}]
Candidates == Products \union {NoProduct}

Facts == [evidence : Evidence, context : TrustedContexts, product : Candidates, policy : BOOLEAN]

-----------------------------------------------------------------------------
\* DeterministicDecisionPolicy.evaluate.

Current(context) == context.verified /\ context.age \in 0 .. 24
Evaluated(evidence) ==
  /\ evidence.category \in Category /\ evidence.confidence \in 0 .. 100
  /\ evidence.flaws \intersect {"digest", "status", "identity"} = {}

Affordable(context, product) ==
  LET disposable == IF context.income > context.obligations
                    THEN context.income - context.obligations ELSE 0 IN
  CASE product.type = "credit" ->
         /\ context.income > 0
         /\ 4 * (context.obligations + product.commitment) <= product.limit * context.income
    [] product.type \in {"savings", "investment"} ->
         disposable > 0 /\ 4 * product.commitment <= product.limit * disposable
    [] product.type = "service" -> TRUE

\* The segment binding compares the context's segment with itself.
Passes(f) ==
  /\ Current(f.context) /\ Evaluated(f.evidence)
  /\ f.product.listed /\ Affordable(f.context, f.product)
  /\ f.policy
  /\ f.product.rate <= RateCap

Stressed(f) == f.evidence.category = "stress" \/ f.context.stressed
\* Slip: the tier is looked at before the customer's situation.
Evaluate_TierFirst(f) ==
  IF ~Passes(f) THEN "rejected"
  ELSE IF f.product.tier = "high" /\ ReviewRequired THEN "review_required"
  ELSE IF Stressed(f) THEN "support_only" ELSE "eligible"
Evaluate(f) ==
  IF ~Passes(f) THEN "rejected"
  ELSE IF Stressed(f) THEN "support_only"
  ELSE IF f.product.tier = "high" /\ ReviewRequired THEN "review_required" ELSE "eligible"

-----------------------------------------------------------------------------
\* The output guardian, without the consent it also asks for, and the route.

Screened(product) ==
  LET text == product.words \union {"kfs"} IN     \* every text ends with "Refer to KFS."
  /\ product.rate < RateCap
  /\ ~(product.tier = "support" /\ "loan" \in text)
  /\ {"loan", "credit"} \intersect text # {} => "kfs" \in text

Route(f) ==
  CASE Evaluate(f) = "support_only" -> "support"
    [] Evaluate(f) = "review_required" -> "review"
    [] Evaluate(f) = "eligible" -> IF f.product.tier \in {"low", "high"} THEN "offer" ELSE "support"
    [] Evaluate(f) = "rejected" -> "support"

-----------------------------------------------------------------------------
\* What an offer may be made of, whatever order the policy checks it in: nothing if the category
\* that was settled on is stress or the bank flags the customer, on stale facts, beyond the
\* customer's means or at an extreme rate; a high tier only after a review.  Two documents ask for
\* more than the code keeps and Merit asks for: docs/ARCHITECTURE.md:146 blocks an offer when
\* hardship is detected at all, also beside an opportunity; docs/AI_MODEL_GOVERNANCE.md:18
\* withholds uncertain cases and every credit and investment, the low tier included.

Outlay(f) == f.product.commitment + (IF f.product.type = "credit" THEN f.context.obligations ELSE 0)
Means(f) == f.context.income - (IF f.product.type = "credit" THEN 0 ELSE f.context.obligations)
Merit(f) ==
  IF \/ f.evidence.category = "stress" \/ f.context.stressed \/ f.context.age \notin 0 .. 24
     \/ f.product.tier = "support" \/ f.product.rate >= RateCap \/ ~f.policy
     \/ f.product.type # "service" /\ (Means(f) <= 0 \/ 4 * Outlay(f) > f.product.limit * Means(f))
  THEN "unsuitable"
  ELSE IF f.product.tier = "high" /\ ReviewRequired THEN "grave" ELSE "routine"

\* All that the orchestrator sees of a decision; the merit is carried along for the properties.
Decision(f) == [verdict |-> Evaluate(f), fit |-> Evaluate(f) # "rejected" /\ Screened(f.product),
                route |-> Route(f), merit |-> Merit(f)]
Decisions == {Decision(f) : f \in Facts}
=============================================================================

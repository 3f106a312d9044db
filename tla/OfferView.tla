------------------------------ MODULE OfferView ------------------------------
(***************************************************************************)
(* The browser client (app.js): one event loop in which clicks, timers and *)
(* the answers of requests already sent run to completion one at a time.   *)
(* An await ends a step; what the handler does with the answer is a later  *)
(* step, by which profile, consent, run or offer may have changed.         *)
(* A run of the pipeline has at most one recommendation and shows at most  *)
(* one offer, so both are named by the run's number; 0 is JavaScript null. *)
(***************************************************************************)
EXTENDS Naturals

CONSTANTS Profiles,       \* the demo personas of the profile selector
          First,          \* the one that is selected when the page loads
          Stressed,       \* the one whose stress scenario triggers itself
          MaxRuns,        \* bound on activePipelineRunId
          MaxPolls,       \* review polls of a run (12 in the code)
          Slots,          \* bound on confirmations in flight together
          MaxChanges      \* bound on changes of profile, consent and mode, together

ASSUME OfferViewAssumption ==
  /\ First \in Profiles
  /\ Slots \subseteq Nat
  /\ {MaxRuns, MaxPolls} \subseteq Nat \ {0}
  /\ MaxChanges \in Nat

VARIABLES app,            \* the module's variables, the timers it can clear, the cards
          requests,       \* fetches without an answer yet, confirmations apart
          steps,          \* the timers that play a run's seven steps
          confirmation,   \* the calls of confirmAction that wait for something
          owner, source,  \* history, by run: whose it is, and server or offline-demo
          changes

vars == <<app, requests, steps, confirmation, owner, source, changes>>

Runs == 1 .. MaxRuns
Modes == {"probing", "api-connected", "api-unavailable", "offline-demo"}
Idle == [stage |-> "idle", run |-> 0, who |-> First, token |-> 0]
Closed == [open |-> FALSE, content |-> "confirm", text |-> 0]
\* apiRequest: the identity sent is that of the profile selected when the call is made.
Fetch(a, kind, r) == [kind |-> kind, run |-> r, who |-> a.profile]

Init ==
  /\ app = [profile |-> First, mode |-> "probing", backend |-> FALSE, consent |-> TRUE,
            run |-> 0, rec |-> 0, review |-> FALSE, token |-> 0, offer |-> 0, support |-> 0,
            screen |-> Closed, inFlight |-> FALSE, polls |-> 0, pollDue |-> 0,
            homeDue |-> FALSE, autoDue |-> FALSE, stressDue |-> FALSE]
  /\ requests = {[kind |-> "health", run |-> 0, who |-> First]}
  /\ steps = {}
  /\ confirmation = [s \in Slots |-> Idle]
  /\ owner = [r \in Runs |-> First]
  /\ source = [r \in Runs |-> "server"]
  /\ changes = 0

-----------------------------------------------------------------------------
\* What the handlers are made of: functions of the application's state.

SetConsentUI(a, granted) == [a EXCEPT !.consent = granted]
DismissNudge(a) == [a EXCEPT !.offer = 0]
DismissStressCard(a) == [a EXCEPT !.support = 0]
ClearAutoTrigger(a) == [a EXCEPT !.autoDue = FALSE]
ShowNudgeInPhone(a, r) == [a EXCEPT !.offer = r, !.support = 0]

CloseConsentScreen(a) ==
  [a EXCEPT !.screen = IF @.content = "success" THEN Closed ELSE [@ EXCEPT !.open = FALSE],
            !.homeDue = FALSE]

\* A new run; everything that belongs to an earlier one is dropped.
NewRun(a) ==
  [a EXCEPT !.run = @ + 1, !.rec = 0, !.review = FALSE, !.token = 0, !.offer = 0,
            !.inFlight = FALSE, !.pollDue = 0]

\* The cards and investments views trigger a scenario of their own after 1.5 seconds.
NavigateToView(a, auto) ==
  LET left == DismissStressCard(DismissNudge(ClearAutoTrigger(NewRun(a)))) IN
  [left EXCEPT !.autoDue = auto /\ a.consent]

ScheduleReviewStatusPoll(a, r) ==
  IF a.backend /\ a.review /\ a.rec # 0 /\ r = a.run THEN [a EXCEPT !.pollDue = r] ELSE a

\* Slip: any run may go on.
Latest_Any(r) == TRUE
\* runId is compared with activePipelineRunId, after every await and at every timer.
Latest(r) == r = app.run

\* Without an answer of the server the card has a text of its own, outside api-connected mode.
ShowStressCard(a, r, evidence) ==
  [DismissNudge(a) EXCEPT !.support = IF a.mode = "api-connected" /\ ~evidence THEN @ ELSE r]

Sent(a, kind) == requests' = requests \union {Fetch(a, kind, 0)}
Room == app.run < MaxRuns
Change == changes < MaxChanges /\ changes' = changes + 1
Besides == UNCHANGED <<steps, confirmation, owner, source>>
Elsewhere == Besides /\ UNCHANGED changes

-----------------------------------------------------------------------------
\* Start, and the profile selector.

Health(q, ok) ==
  /\ q \in requests /\ q.kind = "health"
  /\ app' = [app EXCEPT !.backend = ok, !.mode = IF ok THEN "api-connected" ELSE "api-unavailable"]
  /\ requests' = (requests \ {q}) \union (IF ok THEN {Fetch(app, "boot-consent", 0)} ELSE {})
  /\ Elsewhere

EnableDemoMode ==
  /\ app' = [app EXCEPT !.mode = "offline-demo"]
  /\ IF app.mode = "offline-demo" THEN UNCHANGED changes ELSE Change
  /\ UNCHANGED requests /\ Besides

\* Slip: the pipeline under way is not given up.
Select_KeepsRun(a, p) ==
  [DismissStressCard(DismissNudge(CloseConsentScreen(a))) EXCEPT !.profile = p, !.consent = TRUE]
\* The page shows another persona, consented until its record says otherwise, on the home view.
Select(a, p) ==
  NavigateToView([CloseConsentScreen(a) EXCEPT !.profile = p, !.consent = TRUE, !.polls = 0], FALSE)

\* Bound: one pending timer of the stressed persona.
ChangeProfile(p) ==
  LET a == Select(app, p) IN
  /\ Room /\ (p = Stressed => ~app.stressDue)
  /\ app' = [a EXCEPT !.stressDue = @ \/ p = Stressed]
  /\ IF a.mode = "api-connected" THEN Sent(a, "consent") ELSE UNCHANGED requests
  /\ Change /\ Besides

\* The record that is found decides; without one the profile that is selected by now is seeded.
HydrateSyntheticProfileConsent(q, found) ==
  /\ q \in requests /\ q.kind \in {"consent", "boot-consent"}
  /\ IF found
     THEN /\ \/ app' = SetConsentUI(app, TRUE) /\ UNCHANGED changes
             \/ app' = SetConsentUI(app, FALSE) /\ Change
          /\ requests' = requests \ {q}
     ELSE /\ UNCHANGED <<app, changes>>
          /\ requests' = (requests \ {q}) \union
               {Fetch(app, IF q.kind = "consent" THEN "seed" ELSE "boot-seed", 0)}
  /\ Besides

Seeded(q) ==
  /\ q \in requests /\ q.kind \in {"seed", "boot-seed"}
  /\ app' = SetConsentUI(app, TRUE)
  /\ requests' = requests \ {q}
  /\ Elsewhere

\* While the page starts an error means that there is no backend; later it is swallowed.
HydrationFails(q) ==
  /\ q \in requests /\ requests' = requests \ {q}
  /\ \/ /\ q.kind \in {"boot-consent", "boot-seed"} /\ Change
        /\ app' = [app EXCEPT !.backend = FALSE, !.mode = "api-unavailable"]
     \/ q.kind \in {"consent", "seed"} /\ UNCHANGED <<app, changes>>
  /\ Besides

-----------------------------------------------------------------------------
\* Consent and erasure. Bound: no second request of a kind while one waits.

Revoked(a) == DismissStressCard(DismissNudge(SetConsentUI(a, FALSE)))

ToggleConsent ==
  LET kind == IF app.consent THEN "revoke" ELSE "grant" IN
  /\ app.backend \/ app.mode = "offline-demo"
  /\ IF app.backend
     THEN /\ \A q \in requests : q.kind # kind
          /\ Sent(app, kind) /\ UNCHANGED app
     ELSE /\ app' = IF app.consent THEN Revoked(app) ELSE SetConsentUI(app, TRUE)
          /\ UNCHANGED requests
  /\ Change /\ Besides

\* A failed update restores what the badge said before it.
ConsentAnswer(q, ok) ==
  /\ q \in requests /\ q.kind \in {"revoke", "grant"}
  /\ app' = IF q.kind = "revoke" /\ ok THEN Revoked(app)
            ELSE SetConsentUI(app, (q.kind = "grant") = ok)
  /\ requests' = requests \ {q}
  /\ Elsewhere

Erased(a) == NavigateToView(Revoked(a), FALSE)

ConfirmErasure ==
  /\ IF app.backend
     THEN /\ \A q \in requests : q.kind # "erase"
          /\ Sent(app, "erase") /\ UNCHANGED app
     ELSE Room /\ app' = Erased(app) /\ UNCHANGED requests
  /\ Change /\ Besides

ErasureAnswer(q, ok) ==
  /\ q \in requests /\ q.kind = "erase"
  /\ IF ok THEN Room /\ app' = Erased(app) ELSE UNCHANGED app
  /\ requests' = requests \ {q}
  /\ Elsewhere

-----------------------------------------------------------------------------
\* A scenario is triggered and the pipeline runs.

\* The timers of a run's seven steps, of which only the last changes what is modelled here.
Play(r, shows, evidence) == {[run |-> r, shows |-> shows, evidence |-> evidence]}

\* executeAgentPipeline up to its request, or to the timers when the run is offline.
ExecuteAgentPipeline(a, type) ==
  LET b == [NewRun(a) EXCEPT !.polls = 0]
      offline == b.mode = "offline-demo" IN
  /\ Room
  /\ app' = b
  /\ owner' = [owner EXCEPT ![b.run] = b.profile]
  /\ source' = [source EXCEPT ![b.run] = IF offline THEN "offline-demo" ELSE "server"]
  /\ IF offline
     THEN /\ steps' = steps \union Play(b.run, IF type = "stress" THEN "support" ELSE "offer", FALSE)
          /\ UNCHANGED requests
     ELSE requests' = requests \union {Fetch(b, "orchestrate", b.run)} /\ UNCHANGED steps
  /\ UNCHANGED <<confirmation, changes>>

\* Slip: the consent screen of the last offer stays open.
ResetPrevious_KeepsScreen(a) == ClearAutoTrigger(DismissStressCard(DismissNudge(a)))
ResetPrevious(a) == CloseConsentScreen(ClearAutoTrigger(DismissStressCard(DismissNudge(a))))

\* The engagement budget of the offline simulation may pause promotions, never support.
TriggerScenario(a, type) ==
  LET b == [a EXCEPT !.mode = IF @ = "api-unavailable" THEN "offline-demo" ELSE @] IN
  \/ b.mode # "probing" /\ b.consent /\ ExecuteAgentPipeline(ResetPrevious(b), type)
  \/ /\ b.mode = "probing" \/ ~b.consent \/ (b.mode = "offline-demo" /\ type # "stress")
     /\ app' = b /\ UNCHANGED requests /\ Elsewhere

\* What the handler makes of the answer to POST /orchestrate. "withheld" are a spent budget, a
\* blocked rollout, the shadow mode, a missing dependency, and every answer it cannot use.
Deliveries == {"consent_required", "withheld", "support_mode", "invalid_support", "actionable",
               "human_review_required"}
Supports == {"support_mode", "invalid_support"}

OrchestrateAnswer(q, mode) ==
  LET supports == mode \in Supports
      b == [app EXCEPT !.rec = IF supports THEN 0 ELSE q.run,
                       !.review = mode = "human_review_required"]
      ignored == ~Latest(q.run) \/ mode = "withheld" IN
  /\ q \in requests /\ q.kind = "orchestrate" /\ requests' = requests \ {q}
  /\ \/ ignored /\ UNCHANGED <<app, steps>>
     \/ /\ ~ignored /\ mode = "consent_required"
        /\ app' = SetConsentUI(app, FALSE) /\ UNCHANGED steps
     \/ /\ ~ignored /\ mode # "consent_required"
        /\ app' = ScheduleReviewStatusPoll(b, q.run)
        /\ steps' = steps \union Play(q.run, IF supports THEN "support" ELSE "offer",
                                      mode = "support_mode")
  /\ UNCHANGED <<confirmation, owner, source, changes>>

-----------------------------------------------------------------------------
\* What a run shows.

\* Slip: an offer under review is shown like any other.
Withheld_Never(a) == FALSE
Withheld(a) == a.review

OutputGuardian(t) ==
  /\ t \in steps /\ steps' = steps \ {t}
  /\ IF ~Latest(t.run) \/ (t.shows = "offer" /\ Withheld(app))
     THEN UNCHANGED <<app, requests>>
     ELSE IF t.shows = "support"
     THEN app' = ShowStressCard(app, t.run, t.evidence) /\ UNCHANGED requests
     ELSE IF source[t.run] = "offline-demo"
     THEN app' = ShowNudgeInPhone(app, t.run) /\ UNCHANGED requests
     ELSE requests' = requests \union {Fetch(app, "load", app.rec)} /\ UNCHANGED app
  /\ UNCHANGED <<confirmation, owner, source, changes>>

\* normalizeServerOffer: what is expired, support only or of another product is no offer.
LoadAnswer(q, valid) ==
  /\ q \in requests /\ q.kind = "load" /\ requests' = requests \ {q}
  /\ app' = IF Latest(q.run) /\ valid THEN ShowNudgeInPhone(app, q.run) ELSE app
  /\ Elsewhere

\* Five seconds after the last poll; the steps of the run are through after 2.5. Whatever ends a
\* run clears its timer too, so the comparison has nothing left to refuse.
PollDue ==
  LET r == app.pollDue IN
  /\ r # 0 /\ \A t \in steps : t.run # r
  /\ IF Latest(r) /\ r = app.rec
     THEN /\ app' = [app EXCEPT !.pollDue = 0, !.polls = @ + 1]
          /\ requests' = requests \union {Fetch(app, "poll", r)}
     ELSE app' = [app EXCEPT !.pollDue = 0] /\ UNCHANGED requests
  /\ Elsewhere

\* Slip: one poll too many.
Retry_OneMore(a, r) == IF a.polls <= MaxPolls THEN ScheduleReviewStatusPoll(a, r) ELSE a
\* Slip: a poll that is repeated is not counted.
Retry_Uncounted(a, r) ==
  [ScheduleReviewStatusPoll(a, r) EXCEPT !.polls = IF @ > 0 THEN @ - 1 ELSE @]
Retry(a, r) == IF a.polls < MaxPolls THEN ScheduleReviewStatusPoll(a, r) ELSE a

PollAnswer(q, status) ==
  LET latest == Latest(q.run) /\ q.run = app.rec IN
  /\ q \in requests /\ q.kind = "poll" /\ requests' = requests \ {q}
  /\ app' = CASE latest /\ status = "offer" -> ShowNudgeInPhone([app EXCEPT !.review = FALSE], q.run)
              [] latest /\ status = "review_required" -> Retry(app, q.run)
              [] status = "error" -> Retry(app, q.run)
              [] OTHER -> app
  /\ Elsewhere

-----------------------------------------------------------------------------
\* The nudge card, the consent screen and the confirmation.

\* While the screen holds the success text there is no element for the offer's consent text.
AcceptNudge ==
  /\ app.offer # 0 /\ app.screen.content = "confirm"
  /\ app' = [app EXCEPT !.screen = [@ EXCEPT !.open = TRUE, !.text = app.offer]]
  /\ UNCHANGED requests /\ Elsewhere

Dismiss ==
  /\ app.offer # 0 /\ app' = DismissNudge(app)
  /\ UNCHANGED requests /\ Elsewhere

Cancel ==
  /\ app.screen.open /\ app' = CloseConsentScreen(app)
  /\ UNCHANGED requests /\ Elsewhere

\* The finally block, whichever confirmation runs it.
Release(a) == [a EXCEPT !.inFlight = FALSE]
Ends(s) == confirmation' = [confirmation EXCEPT ![s] = Idle]
Waits(s, stage, token) ==
  confirmation' = [confirmation EXCEPT ![s] = [stage |-> stage, run |-> app.offer,
                                               who |-> app.profile, token |-> token]]

\* A confirmation that its checks refuse changes nothing.
ConfirmAction(s) ==
  LET server == source[app.offer] = "server" IN
  /\ confirmation[s].stage = "idle" /\ \A x \in Slots : x < s => confirmation[x].stage # "idle"
  /\ app.screen.open /\ app.screen.content = "confirm"
  /\ app.offer # 0 /\ ~app.inFlight
  /\ server => app.mode = "api-connected" /\ app.backend /\ ~app.review /\ app.rec = app.offer
  /\ ~server => app.mode = "offline-demo"
  /\ app' = [app EXCEPT !.inFlight = TRUE]
  /\ Waits(s, IF ~server THEN "digest" ELSE IF app.token = 0 THEN "authorize" ELSE "execute",
           app.token)
  /\ UNCHANGED <<requests, steps, owner, source, changes>>

\* Slip: the offer that is shown by now is not compared.
SameOffer_Always(s) == TRUE
SameOffer(s) == app.offer = confirmation[s].run

\* Slip: the confirmation of an offer that has gone returns before the finally block.
Returns_Locked(s) == app' = IF SameOffer(s) THEN Release(app) ELSE app
Returns(s) == app' = Release(app)

\* The token that is issued is of the recommendation that was sent.
AuthorizeAnswer(s, ok) ==
  LET r == confirmation[s].run IN
  /\ confirmation[s].stage = "authorize"
  /\ IF SameOffer(s) /\ ok
     THEN /\ app' = [app EXCEPT !.token = r]
          /\ confirmation' = [confirmation EXCEPT ![s] = [stage |-> "execute", run |-> r,
                                                          who |-> app.profile, token |-> r]]
     ELSE Returns(s) /\ Ends(s)
  /\ UNCHANGED <<requests, steps, owner, source, changes>>

ExecuteAnswer(s, fulfilled) ==
  /\ confirmation[s].stage = "execute"
  /\ IF SameOffer(s) /\ fulfilled
     THEN confirmation' = [confirmation EXCEPT ![s].stage = "digest"] /\ UNCHANGED app
     ELSE Returns(s) /\ Ends(s)
  /\ UNCHANGED <<requests, steps, owner, source, changes>>

\* After the digest nothing is compared. A second success timer is folded into the first.
Success(s) ==
  /\ confirmation[s].stage = "digest"
  /\ app' = Release([DismissNudge(app) EXCEPT !.screen = [@ EXCEPT !.content = "success", !.text = 0],
                                              !.homeDue = TRUE])
  /\ Ends(s)
  /\ UNCHANGED <<requests, steps, owner, source, changes>>

\* On its timer or its button.
SuccessBackToHome ==
  /\ Room
  /\ app.homeDue \/ (app.screen.open /\ app.screen.content = "success")
  /\ app' = NavigateToView(CloseConsentScreen(app), FALSE)
  /\ UNCHANGED requests /\ Elsewhere

-----------------------------------------------------------------------------
Types == {"promotion", "stress"}

Navigate ==
  /\ Room /\ \E auto \in BOOLEAN : app' = NavigateToView(app, auto)
  /\ UNCHANGED requests /\ Elsewhere

AutoTrigger == app.autoDue /\ TriggerScenario([app EXCEPT !.autoDue = FALSE], "promotion")
StressTrigger == app.stressDue /\ TriggerScenario([app EXCEPT !.stressDue = FALSE], "stress")

Customer ==
  \/ EnableDemoMode
  \/ \E p \in Profiles : ChangeProfile(p)
  \/ ToggleConsent
  \/ ConfirmErasure
  \/ \E type \in Types : TriggerScenario(app, type)
  \/ Navigate
  \/ AcceptNudge
  \/ Dismiss
  \/ Cancel
  \/ \E s \in Slots : ConfirmAction(s)

Timers ==
  \/ \E t \in steps : OutputGuardian(t)
  \/ PollDue
  \/ SuccessBackToHome
  \/ AutoTrigger
  \/ StressTrigger

PollAnswers ==
  \E q \in requests, status \in {"offer", "review_required", "refused", "error"} : PollAnswer(q, status)
ConfirmationAnswers(s) ==
  \/ \E ok \in BOOLEAN : AuthorizeAnswer(s, ok) \/ ExecuteAnswer(s, ok)
  \/ Success(s)

Answers ==
  \/ \E q \in requests, ok \in BOOLEAN :
       \/ Health(q, ok)
       \/ HydrateSyntheticProfileConsent(q, ok)
       \/ ConsentAnswer(q, ok)
       \/ ErasureAnswer(q, ok)
       \/ LoadAnswer(q, ok)
  \/ \E q \in requests : Seeded(q) \/ HydrationFails(q)
  \/ \E q \in requests, mode \in Deliveries : OrchestrateAnswer(q, mode)
  \/ PollAnswers
  \/ \E s \in Slots : ConfirmationAnswers(s)

Next == Customer \/ Timers \/ Answers
\* Timers fire, and a fetch is answered or fails. Nothing is assumed of the customer.
Fairness ==
  /\ WF_vars(\E t \in steps : OutputGuardian(t))
  /\ WF_vars(PollDue)
  /\ WF_vars(PollAnswers)
  /\ \A s \in Slots : WF_vars(ConfirmationAnswers(s))
Spec == Init /\ [][Next]_vars /\ Fairness

-----------------------------------------------------------------------------
\* The state, the requests, the timers and the confirmations keep their types.
TypeOK ==
  /\ app \in [profile : Profiles, mode : Modes, backend : BOOLEAN, consent : BOOLEAN,
              run : 0 .. MaxRuns, rec : 0 .. MaxRuns, review : BOOLEAN, token : 0 .. MaxRuns,
              offer : 0 .. MaxRuns, support : 0 .. MaxRuns,
              screen : [open : BOOLEAN, content : {"confirm", "success"}, text : 0 .. MaxRuns],
              inFlight : BOOLEAN, polls : 0 .. MaxPolls, pollDue : 0 .. MaxRuns,
              homeDue : BOOLEAN, autoDue : BOOLEAN, stressDue : BOOLEAN]
  /\ requests \subseteq [kind : {"health", "boot-consent", "boot-seed", "consent", "seed", "grant",
                                "revoke", "erase", "orchestrate", "load", "poll"},
                         run : 0 .. MaxRuns, who : Profiles]
  /\ steps \subseteq [run : Runs, shows : {"offer", "support"}, evidence : BOOLEAN]
  /\ confirmation \in [Slots -> [stage : {"idle", "authorize", "execute", "digest"},
                                 run : 0 .. MaxRuns, who : Profiles, token : 0 .. MaxRuns]]
  /\ owner \in [Runs -> Profiles] /\ source \in [Runs -> {"server", "offline-demo"}]

\* What is on the phone, the recommendation it is about and the poll belong to the latest run
\* of the pipeline, and an offer is not on the phone while its review is outstanding, however
\* late the answers and timers of other runs come (loadAndRenderServerOffer, the run checks).
LatestRunOnly ==
  /\ {app.offer, app.support, app.rec, app.pollDue} \subseteq {0, app.run}
  /\ app.offer # 0 => ~app.review

\* A card is shown to the persona it was decided for, though the selector may change while
\* the decision, its steps or the load of its offer are under way.
ShownToItsOwner == \A r \in {app.offer, app.support} \ {0} : owner[r] = app.profile

\* Whatever asks the server about a recommendation does so as the customer it belongs to:
\* apiRequest sends the identity of whoever is selected when the call is made.
AskedByItsOwner ==
  /\ \A q \in requests : q.run # 0 => owner[q.run] = q.who
  /\ \A s \in Slots : confirmation[s].stage \in {"authorize", "execute"} =>
                     owner[confirmation[s].run] = confirmation[s].who

\* The decision token that is kept is of the recommendation that is active, and an execution
\* is requested with the token of its own recommendation, not of one confirmed before it.
TokenOfItsOffer ==
  /\ app.token \in {0, app.rec}
  /\ \A s \in Slots : confirmation[s].stage = "execute" => confirmation[s].token = confirmation[s].run

\* A confirmation starts only under the consent text of the offer it authorizes: the screen
\* does not stay open, with the text of an earlier offer, over a later one.
ConfirmedAsRead ==
  [][\A s \in Slots : confirmation[s].stage = "idle" /\ confirmation'[s].stage # "idle"
                       => app.screen.open /\ app.screen.text = confirmation'[s].run]_vars

\* The confirm button is not disabled for good: whatever becomes of the offer, the finally
\* block of the confirmation or the next run releases it.
LockIsReleased == app.inFlight ~> ~app.inFlight

\* The polling of a review ends, whether the reviewer decides or the server answers or not.
PollingEnds ==
  (app.pollDue # 0 \/ \E q \in requests : q.kind = "poll")
    ~> (app.pollDue = 0 /\ \A q \in requests : q.kind # "poll")
=============================================================================

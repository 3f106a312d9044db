-------------------------- MODULE OfferView_proofs --------------------------
(***************************************************************************)
(* Proofs about OfferView, for every set of personas and confirmations and *)
(* any number of runs and polls.                                           *)
(***************************************************************************)
EXTENDS OfferView, TLAPS

-----------------------------------------------------------------------------
(* What the handlers are made of.                                          *)

Screens == [open : BOOLEAN, content : {"confirm", "success"}, text : 0 .. MaxRuns]
Apps ==
  [profile : Profiles, mode : Modes, backend : BOOLEAN, consent : BOOLEAN,
   run : 0 .. MaxRuns, rec : 0 .. MaxRuns, review : BOOLEAN, token : 0 .. MaxRuns,
   offer : 0 .. MaxRuns, support : 0 .. MaxRuns, screen : Screens,
   inFlight : BOOLEAN, polls : 0 .. MaxPolls, pollDue : 0 .. MaxRuns,
   homeDue : BOOLEAN, autoDue : BOOLEAN, stressDue : BOOLEAN]

LEMMA Bounds ==
  /\ MaxRuns \in Nat \ {0} /\ MaxPolls \in Nat \ {0} /\ 0 \in 0 .. MaxRuns /\ 0 \in 0 .. MaxPolls
  /\ First \in Profiles
BY OfferViewAssumption

\* A screen that invites to confirm what it did.
Inviting(screen) == screen.open /\ screen.content = "confirm"

\* The page goes on with the same persona and run, and shows no more than it did.
SameRun(a, b) ==
  /\ b \in Apps
  /\ b.profile = a.profile /\ b.run = a.run /\ b.rec = a.rec /\ b.review = a.review
  /\ b.token = a.token /\ b.polls = a.polls /\ b.pollDue \in {0, a.pollDue}
ShowsNoMore(a, b) ==
  /\ SameRun(a, b)
  /\ b.offer \in {0, a.offer} /\ b.support \in {0, a.support}
  /\ Inviting(b.screen) => b.screen = a.screen

LEMMA NoMoreThanNoMore ==
  ASSUME NEW a, NEW b, NEW c, ShowsNoMore(a, b), ShowsNoMore(b, c)
  PROVE  ShowsNoMore(a, c)
BY DEF ShowsNoMore, SameRun

\* The small handlers only take something away.
LEMMA Dismissals ==
  ASSUME NEW a \in Apps
  PROVE  /\ ShowsNoMore(a, DismissNudge(a)) /\ DismissNudge(a).offer = 0
         /\ ShowsNoMore(a, DismissStressCard(a)) /\ DismissStressCard(a).support = 0
         /\ ShowsNoMore(a, ClearAutoTrigger(a))
         /\ \A granted \in BOOLEAN : ShowsNoMore(a, SetConsentUI(a, granted))
<1>1. ShowsNoMore(a, DismissNudge(a)) /\ DismissNudge(a).offer = 0
  BY Bounds DEF Apps, ShowsNoMore, SameRun, DismissNudge
<1>2. ShowsNoMore(a, DismissStressCard(a)) /\ DismissStressCard(a).support = 0
  BY Bounds DEF Apps, ShowsNoMore, SameRun, DismissStressCard
<1>3. ShowsNoMore(a, ClearAutoTrigger(a))
  BY DEF Apps, ShowsNoMore, SameRun, ClearAutoTrigger
<1>4. \A granted \in BOOLEAN : ShowsNoMore(a, SetConsentUI(a, granted))
  BY DEF Apps, ShowsNoMore, SameRun, SetConsentUI
<1>5. QED
  BY <1>1, <1>2, <1>3, <1>4

\* What is closed invites nobody.
LEMMA Closing ==
  ASSUME NEW a \in Apps
  PROVE  /\ ShowsNoMore(a, CloseConsentScreen(a))
         /\ ~Inviting(CloseConsentScreen(a).screen)
         /\ CloseConsentScreen(a).offer = a.offer /\ CloseConsentScreen(a).support = a.support
<1> DEFINE screen == IF a.screen.content = "success" THEN Closed ELSE [a.screen EXCEPT !.open = FALSE]
<1>1. screen \in Screens /\ screen.open = FALSE
  <2>1. a.screen \in Screens
    BY DEF Apps
  <2>2. CASE a.screen.content = "success"
    BY <2>2, Bounds DEF Screens, Closed
  <2>3. CASE a.screen.content # "success"
    BY <2>1, <2>3 DEF Screens
  <2>4. QED
    BY <2>2, <2>3
<1>2. CloseConsentScreen(a) = [a EXCEPT !.screen = screen, !.homeDue = FALSE]
  BY DEF CloseConsentScreen
<1> HIDE DEF screen
<1>3. /\ CloseConsentScreen(a) \in Apps
      /\ CloseConsentScreen(a).screen = screen
  BY <1>1, <1>2 DEF Apps
<1>4. QED
  BY <1>1, <1>2, <1>3 DEF Apps, ShowsNoMore, SameRun, Inviting

-----------------------------------------------------------------------------
(* The inductive invariant.                                                *)

OfRun(x) == x.run = app.run /\ x.run # 0
\* Something of the latest run is on the page or on its way to it.
Begun ==
  \/ app.rec # 0 \/ app.offer # 0 \/ app.support # 0
  \/ (\E q \in requests : OfRun(q)) \/ (\E t \in steps : OfRun(t))

\* Runs are numbered in their order, and nothing is of a run to come.
Past ==
  /\ \A q \in requests : q.run <= app.run
  /\ \A t \in steps : t.run <= app.run
  /\ \A s \in Slots : confirmation[s].run <= app.run
\* Until a run is answered there is nothing else of it.
Unanswered ==
  \A q \in requests : q.kind = "orchestrate" =>
    /\ q.run \in Runs
    /\ q.run = app.run =>
         /\ app.rec = 0 /\ app.offer = 0 /\ app.pollDue = 0 /\ app.polls = 0
         /\ \A t \in steps : t.run # app.run
         /\ \A x \in requests : x.run = app.run => x.kind = "orchestrate"
\* An offer is loaded for the recommendation that is active and needs no review.
Loading ==
  \A q \in requests : q.kind = "load" /\ OfRun(q) => ~app.review /\ app.rec = app.run
Polling == \A q \in requests : q.kind = "poll" => q.run # 0
ServerOffer == app.offer # 0 /\ source[app.offer] = "server" => app.rec = app.offer
Confirming ==
  \A s \in Slots : confirmation[s].stage \in {"authorize", "execute"} =>
    /\ confirmation[s].run # 0
    /\ source[confirmation[s].run] = "server"
Counted == app.pollDue # 0 => app.polls < MaxPolls
\* The persona and the consent screen are those of the run that has begun.
RunIsShown ==
  Begun => /\ owner[app.run] = app.profile
           /\ Inviting(app.screen) => app.screen.text = app.run

ViewInv ==
  /\ TypeOK /\ Past /\ LatestRunOnly /\ Unanswered /\ Loading /\ Polling /\ ServerOffer
  /\ Confirming /\ Counted /\ RunIsShown /\ AskedByItsOwner /\ TokenOfItsOffer

Requests ==
  [kind : {"health", "boot-consent", "boot-seed", "consent", "seed", "grant", "revoke", "erase",
           "orchestrate", "load", "poll"},
   run : 0 .. MaxRuns, who : Profiles]
Steps == [run : Runs, shows : {"offer", "support"}, evidence : BOOLEAN]
Confirmations ==
  [stage : {"idle", "authorize", "execute", "digest"}, run : 0 .. MaxRuns, who : Profiles,
   token : 0 .. MaxRuns]

LEMMA TypeOKIsTyped ==
  TypeOK <=> /\ app \in Apps /\ requests \subseteq Requests /\ steps \subseteq Steps
             /\ confirmation \in [Slots -> Confirmations]
             /\ owner \in [Runs -> Profiles] /\ source \in [Runs -> {"server", "offline-demo"}]
BY DEF TypeOK, Apps, Screens, Requests, Steps, Confirmations

LEMMA TypesNext ==
  ASSUME /\ app' \in Apps /\ requests' \subseteq Requests /\ steps' \subseteq Steps
         /\ confirmation' \in [Slots -> Confirmations]
         /\ owner' \in [Runs -> Profiles] /\ source' \in [Runs -> {"server", "offline-demo"}]
  PROVE  TypeOK'
BY DEF TypeOK, Apps, Screens, Requests, Steps, Confirmations

-----------------------------------------------------------------------------
(* Steps that show nothing new.                                            *)

\* A request that is about no run.
Errand(q) == q \in Requests /\ q.run = 0 /\ q.kind \notin {"orchestrate", "poll"}
\* What is sent, played and confirmed was so before, or is an errand, or is over.
NothingBegins ==
  /\ \A q \in requests' : q \in requests \/ Errand(q)
  /\ steps' \subseteq steps
  /\ confirmation' \in [Slots -> Confirmations]
  /\ \A s \in Slots :
       \/ confirmation'[s] = confirmation[s]
       \/ /\ confirmation'[s].stage \notin {"authorize", "execute"}
          /\ confirmation'[s].run \in {0, confirmation[s].run}
  /\ owner' = owner /\ source' = source

LEMMA NothingBeginsTyped ==
  ASSUME ViewInv, NothingBegins, app' \in Apps
  PROVE  TypeOK'
<1>1. requests' \subseteq Requests
  BY TypeOKIsTyped DEF ViewInv, NothingBegins, Errand
<1>2. QED
  BY <1>1, TypeOKIsTyped, TypesNext DEF ViewInv, NothingBegins

LEMMA StillAsked ==
  ASSUME ViewInv, NothingBegins
  PROVE  /\ AskedByItsOwner'
         /\ \A s \in Slots : confirmation'[s].stage = "execute" =>
                              confirmation'[s].token = confirmation'[s].run
         /\ Confirming'
BY DEF ViewInv, NothingBegins, AskedByItsOwner, TokenOfItsOffer, Confirming, Errand

LEMMA GoesOn ==
  ASSUME ViewInv, NothingBegins, ShowsNoMore(app, app')
  PROVE  ViewInv'
<1> USE DEF ViewInv
<1>1. TypeOK'
  BY NothingBeginsTyped DEF ShowsNoMore, SameRun
<1>2. /\ app'.profile = app.profile /\ app'.run = app.run /\ app'.rec = app.rec
      /\ app'.review = app.review /\ app'.token = app.token /\ app'.polls = app.polls
      /\ app'.pollDue \in {0, app.pollDue}
      /\ app'.offer \in {0, app.offer} /\ app'.support \in {0, app.support}
      /\ Inviting(app'.screen) => app'.screen = app.screen
  BY DEF ShowsNoMore, SameRun
<1>3. app.run \in Nat
  BY TypeOKIsTyped DEF Apps
<1>4. Past'
  BY <1>2, <1>3 DEF Past, NothingBegins, Errand
<1>5. LatestRunOnly'
  BY <1>2 DEF LatestRunOnly
<1>6. Unanswered'
  <2>1. SUFFICES ASSUME NEW q \in requests', q.kind = "orchestrate"
                 PROVE  /\ q.run \in Runs
                        /\ q.run = app'.run =>
                             /\ app'.rec = 0 /\ app'.offer = 0 /\ app'.pollDue = 0 /\ app'.polls = 0
                             /\ \A t \in steps' : t.run # app'.run
                             /\ \A x \in requests' : x.run = app'.run => x.kind = "orchestrate"
    BY DEF Unanswered
  <2>2. q \in requests /\ q.run \in Runs /\ q.run # 0
    BY <2>1 DEF NothingBegins, Errand, Unanswered, Runs
  <2>3. QED
    BY <1>2, <2>1, <2>2 DEF Unanswered, NothingBegins, Errand
<1>7. Loading' /\ Polling'
  BY <1>2 DEF Loading, Polling, NothingBegins, Errand, OfRun
<1>8. ServerOffer' /\ Counted'
  BY <1>2 DEF ServerOffer, Counted, NothingBegins
<1>9. RunIsShown'
  <2>1. Begun' => Begun
    BY <1>2 DEF Begun, NothingBegins, Errand, OfRun
  <2>2. QED
    BY <1>2, <2>1 DEF RunIsShown, NothingBegins
<1>10. AskedByItsOwner' /\ Confirming' /\ TokenOfItsOffer'
  BY <1>2, StillAsked DEF TokenOfItsOffer
<1>11. QED
  BY <1>1, <1>4, <1>5, <1>6, <1>7, <1>8, <1>9, <1>10

-----------------------------------------------------------------------------
(* Steps that start another run.                                           *)

\* The page of b is a run further than that of a and has nothing to show yet.
Restarts(a, b) ==
  /\ b \in Apps /\ b.run = a.run + 1
  /\ b.rec = 0 /\ ~b.review /\ b.token = 0 /\ b.offer = 0 /\ b.support = 0 /\ b.pollDue = 0

LEMMA NewRunStarts ==
  ASSUME NEW a \in Apps, a.run < MaxRuns
  PROVE  /\ a.support = 0 => Restarts(a, NewRun(a))
         /\ NewRun(a) \in Apps
         /\ NewRun(a).profile = a.profile /\ NewRun(a).mode = a.mode
         /\ NewRun(a).screen = a.screen /\ NewRun(a).support = a.support
<1>1. a.run + 1 \in 0 .. MaxRuns
  BY Bounds DEF Apps
<1>2. NewRun(a) \in Apps
  BY <1>1, Bounds DEF Apps, NewRun
<1>3. QED
  BY <1>2 DEF Apps, NewRun, Restarts

LEMMA NavigationRestarts ==
  ASSUME NEW a \in Apps, a.run < MaxRuns, NEW auto \in BOOLEAN
  PROVE  Restarts(a, NavigateToView(a, auto))
<1> DEFINE n == NewRun(a)
           c == ClearAutoTrigger(n)
           d == DismissNudge(c)
           left == DismissStressCard(d)
<1>1. /\ n \in Apps /\ n.run = a.run + 1 /\ n.rec = 0 /\ ~n.review /\ n.token = 0
      /\ n.offer = 0 /\ n.pollDue = 0
  BY NewRunStarts, Bounds DEF Apps, NewRun
<1> HIDE DEF n
<1>2. c \in Apps /\ ShowsNoMore(n, c)
  BY <1>1, Dismissals DEF ShowsNoMore, SameRun
<1> HIDE DEF c
<1>3. d \in Apps /\ ShowsNoMore(c, d)
  BY <1>2, Dismissals DEF ShowsNoMore, SameRun
<1> HIDE DEF d
<1>4. left \in Apps /\ ShowsNoMore(d, left) /\ left.support = 0
  BY <1>3, Dismissals DEF ShowsNoMore, SameRun
<1>5. ShowsNoMore(n, left)
  BY <1>2, <1>3, <1>4, NoMoreThanNoMore
<1> HIDE DEF left
<1>6. NavigateToView(a, auto) = [left EXCEPT !.autoDue = auto /\ a.consent]
  BY DEF NavigateToView, left, d, c, n
<1>7. (auto /\ a.consent) \in BOOLEAN
  OBVIOUS
<1>8. Restarts(a, left)
  BY <1>1, <1>4, <1>5 DEF ShowsNoMore, SameRun, Restarts
<1>9. QED
  BY <1>6, <1>7, <1>8 DEF Restarts, Apps

\* A run that starts has nothing yet, and what is under way is of earlier runs.
LEMMA StartsAfresh ==
  ASSUME ViewInv, NothingBegins, Restarts(app, app')
  PROVE  /\ ViewInv' /\ ~Begun'
         /\ app'.run \in Runs
         /\ \A q \in requests' : q.run # app'.run
         /\ \A t \in steps' : t.run # app'.run
         /\ \A s \in Slots : confirmation'[s].run # app'.run
<1> USE DEF ViewInv
<1>1. TypeOK'
  BY NothingBeginsTyped DEF Restarts
<1>2. /\ app'.run = app.run + 1 /\ app'.rec = 0 /\ ~app'.review /\ app'.token = 0
      /\ app'.offer = 0 /\ app'.support = 0 /\ app'.pollDue = 0
  BY DEF Restarts
<1>3. app.run \in Nat /\ app'.run \in Runs
  BY <1>2, TypeOKIsTyped, Bounds DEF Apps, Restarts, Runs
<1>4. /\ \A q \in requests : q.run \in Nat
      /\ \A t \in steps : t.run \in Nat
      /\ \A s \in Slots : confirmation[s].run \in Nat
  BY TypeOKIsTyped DEF Requests, Steps, Confirmations, Runs
<1>5. /\ \A q \in requests' : q.run <= app.run
      /\ \A t \in steps' : t.run <= app.run
      /\ \A s \in Slots : confirmation'[s].run <= app.run
  BY <1>3, <1>4 DEF Past, NothingBegins, Errand
<1>6. /\ \A q \in requests' : q.run \in Nat
      /\ \A t \in steps' : t.run \in Nat
      /\ \A s \in Slots : confirmation'[s].run \in Nat
  BY <1>4 DEF NothingBegins, Errand
<1>7. /\ \A q \in requests' : q.run # app'.run
      /\ \A t \in steps' : t.run # app'.run
      /\ \A s \in Slots : confirmation'[s].run # app'.run
  BY <1>2, <1>3, <1>5, <1>6
<1>8. Past'
  BY <1>2, <1>3, <1>5, <1>6 DEF Past
<1>9. LatestRunOnly' /\ Loading' /\ Polling' /\ ServerOffer' /\ Counted'
  BY <1>2, <1>7 DEF LatestRunOnly, Loading, Polling, ServerOffer, Counted, OfRun, NothingBegins, Errand
<1>10. Unanswered'
  BY <1>7 DEF Unanswered, NothingBegins, Errand
<1>11. ~Begun'
  BY <1>2, <1>7 DEF Begun, OfRun
<1>12. RunIsShown'
  BY <1>11 DEF RunIsShown
<1>13. AskedByItsOwner' /\ Confirming' /\ TokenOfItsOffer'
  BY <1>2, StillAsked DEF TokenOfItsOffer
<1>14. QED
  BY <1>1, <1>3, <1>7, <1>8, <1>9, <1>10, <1>11, <1>12, <1>13

\* The pipeline of the run that starts asks the server, or plays its steps without it.
Pipeline(word) ==
  /\ Restarts(app, app') /\ app'.polls = 0 /\ ~Inviting(app'.screen)
  /\ owner' = [owner EXCEPT ![app'.run] = app'.profile]
  /\ source' = [source EXCEPT ![app'.run] = word] /\ word \in {"server", "offline-demo"}
  /\ confirmation' = confirmation
  /\ \/ requests' = requests \union {Fetch(app', "orchestrate", app'.run)} /\ steps' = steps
     \/ /\ requests' = requests
        /\ \E shows \in {"offer", "support"} : steps' = steps \union Play(app'.run, shows, FALSE)

LEMMA PipelineStarts ==
  ASSUME ViewInv, NEW word, Pipeline(word)
  PROVE  ViewInv'
<1> USE DEF ViewInv
<1> DEFINE r == app'.run
           asked == Fetch(app', "orchestrate", r)
<1>1. /\ r = app.run + 1 /\ app'.rec = 0 /\ ~app'.review /\ app'.token = 0
      /\ app'.offer = 0 /\ app'.support = 0 /\ app'.pollDue = 0 /\ app'.polls = 0
      /\ ~Inviting(app'.screen) /\ app' \in Apps
  BY DEF Restarts, Pipeline
<1>2. app.run \in Nat /\ r \in Nat /\ r # 0 /\ r \in Runs /\ r \in 0 .. MaxRuns
      /\ app'.profile \in Profiles
  BY <1>1, TypeOKIsTyped, Bounds DEF Apps, Runs
<1>3. /\ asked.kind = "orchestrate" /\ asked.run = r /\ asked.who = app'.profile
      /\ asked \in Requests
  BY <1>2 DEF Fetch, Requests
<1>4. \A q \in requests' : q \in requests \/ q = asked
  BY DEF Pipeline
<1>5. \A t \in steps' : t \in steps \/ (t.run = r /\ t \in Steps /\ requests' = requests)
  <2>1. CASE steps' = steps
    BY <2>1
  <2>2. ASSUME NEW shows \in {"offer", "support"}, steps' = steps \union Play(r, shows, FALSE),
               requests' = requests
        PROVE  \A t \in steps' : t \in steps \/ (t.run = r /\ t \in Steps /\ requests' = requests)
    <3>1. [run |-> r, shows |-> shows, evidence |-> FALSE] \in Steps
      BY <1>2 DEF Steps
    <3>2. [run |-> r, shows |-> shows, evidence |-> FALSE].run = r
      OBVIOUS
    <3>3. \A t \in steps' : t \in steps \/ t = [run |-> r, shows |-> shows, evidence |-> FALSE]
      BY <2>2 DEF Play
    <3>4. QED
      BY <2>2, <3>1, <3>2, <3>3, Zenon
  <2>3. QED
    BY <2>1, <2>2 DEF Pipeline
<1>6. /\ owner'[r] = app'.profile
      /\ \A x \in Runs : x # r => owner'[x] = owner[x] /\ source'[x] = source[x]
      /\ owner' \in [Runs -> Profiles] /\ source' \in [Runs -> {"server", "offline-demo"}]
  BY <1>2, TypeOKIsTyped DEF Pipeline
<1> HIDE DEF r, asked
<1>7. /\ \A q \in requests : q.run # r /\ q.run \in Nat /\ q.run <= r /\ q \in Requests
      /\ \A t \in steps : t.run # r /\ t.run \in Nat /\ t.run <= r
      /\ \A s \in Slots : /\ confirmation[s].run # r /\ confirmation[s].run \in Nat
                          /\ confirmation[s].run <= r
  BY <1>1, <1>2, TypeOKIsTyped DEF Past, Requests, Steps, Confirmations, Runs, Apps
<1>8. TypeOK'
  <2>1. requests' \subseteq Requests /\ steps' \subseteq Steps
    BY <1>3, <1>4, <1>5, TypeOKIsTyped
  <2>2. QED
    BY <1>1, <1>6, <2>1, TypeOKIsTyped, TypesNext DEF Pipeline
<1>9. Past'
  BY <1>2, <1>3, <1>4, <1>5, <1>7 DEF Past, Pipeline, r
<1>10. LatestRunOnly' /\ Loading' /\ Polling' /\ ServerOffer' /\ Counted'
  BY <1>1, <1>3, <1>4, <1>7 DEF LatestRunOnly, Loading, Polling, ServerOffer, Counted, OfRun, r
<1>11. Unanswered'
  <2>1. SUFFICES ASSUME NEW q \in requests', q.kind = "orchestrate"
                 PROVE  /\ q.run \in Runs
                        /\ q.run = r =>
                             /\ app'.rec = 0 /\ app'.offer = 0 /\ app'.pollDue = 0 /\ app'.polls = 0
                             /\ \A t \in steps' : t.run # r
                             /\ \A x \in requests' : x.run = r => x.kind = "orchestrate"
    BY DEF Unanswered, r
  <2>2. CASE q \in requests
    BY <1>7, <2>1, <2>2 DEF Unanswered
  <2>3. CASE q = asked /\ q \notin requests
    BY <1>1, <1>2, <1>3, <1>4, <1>5, <1>7, <2>1, <2>3 DEF r
  <2>4. QED
    BY <1>4, <2>1, <2>2, <2>3
<1>12. RunIsShown'
  BY <1>1, <1>6 DEF RunIsShown, r
<1>13. AskedByItsOwner'
  <2>1. ASSUME NEW q \in requests', q.run # 0
        PROVE  owner'[q.run] = q.who
    BY <1>2, <1>3, <1>4, <1>6, <1>7, <2>1 DEF AskedByItsOwner, Requests, Runs
  <2>2. ASSUME NEW s \in Slots, confirmation[s].stage \in {"authorize", "execute"}
        PROVE  owner'[confirmation[s].run] = confirmation[s].who
    <3>1. confirmation[s].run \in Runs
      BY <2>2, TypeOKIsTyped, Bounds DEF Confirming, Confirmations, Runs
    <3>2. QED
      BY <1>6, <1>7, <2>2, <3>1 DEF AskedByItsOwner
  <2>3. QED
    BY <2>1, <2>2 DEF AskedByItsOwner, Pipeline
<1>14. Confirming'
  <2>1. ASSUME NEW s \in Slots, confirmation[s].stage \in {"authorize", "execute"}
        PROVE  confirmation[s].run # 0 /\ source'[confirmation[s].run] = "server"
    <3>1. confirmation[s].run \in Runs
      BY <2>1, TypeOKIsTyped, Bounds DEF Confirming, Confirmations, Runs
    <3>2. QED
      BY <1>6, <1>7, <2>1, <3>1 DEF Confirming
  <2>2. QED
    BY <2>1 DEF Confirming, Pipeline
<1>15. TokenOfItsOffer'
  BY <1>1 DEF TokenOfItsOffer, Pipeline
<1>16. QED
  BY <1>8, <1>9, <1>10, <1>11, <1>12, <1>13, <1>14, <1>15

-----------------------------------------------------------------------------
(* Start, and the profile selector.                                        *)

LEMMA NothingElse ==
  ASSUME ViewInv, Besides, \A q \in requests' : q \in requests \/ Errand(q)
  PROVE  NothingBegins
BY TypeOKIsTyped DEF ViewInv, Besides, NothingBegins

LEMMA FetchIsErrand ==
  ASSUME NEW a \in Apps,
         NEW kind \in {"health", "boot-consent", "boot-seed", "consent", "seed", "grant",
                       "revoke", "erase"}
  PROVE  Errand(Fetch(a, kind, 0))
BY Bounds DEF Errand, Fetch, Requests, Apps

\* A change of what says nothing about the run shows nothing more.
LEMMA Unrelated ==
  ASSUME NEW a \in Apps, NEW flag \in BOOLEAN, NEW mode \in Modes
  PROVE  /\ ShowsNoMore(a, a)
         /\ ShowsNoMore(a, [a EXCEPT !.backend = flag, !.mode = mode])
         /\ ShowsNoMore(a, [a EXCEPT !.mode = mode])
         /\ ShowsNoMore(a, [a EXCEPT !.autoDue = flag])
         /\ ShowsNoMore(a, [a EXCEPT !.stressDue = flag])
         /\ ShowsNoMore(a, [a EXCEPT !.inFlight = flag])
<1>1. ShowsNoMore(a, a)
  BY DEF ShowsNoMore, SameRun
<1>2. ShowsNoMore(a, [a EXCEPT !.backend = flag, !.mode = mode])
  BY DEF Apps, ShowsNoMore, SameRun
<1>3. ShowsNoMore(a, [a EXCEPT !.mode = mode])
  BY DEF Apps, ShowsNoMore, SameRun
<1>4. ShowsNoMore(a, [a EXCEPT !.autoDue = flag])
  BY DEF Apps, ShowsNoMore, SameRun
<1>5. ShowsNoMore(a, [a EXCEPT !.stressDue = flag])
  BY DEF Apps, ShowsNoMore, SameRun
<1>6. ShowsNoMore(a, [a EXCEPT !.inFlight = flag])
  BY DEF Apps, ShowsNoMore, SameRun
<1>7. QED
  BY <1>1, <1>2, <1>3, <1>4, <1>5, <1>6

LEMMA ProfileChanges ==
  ASSUME ViewInv, NEW p \in Profiles, ChangeProfile(p)
  PROVE  ViewInv'
<1>1. app \in Apps /\ app.run < MaxRuns /\ FALSE \in BOOLEAN
  BY TypeOKIsTyped, Bounds DEF ViewInv, ChangeProfile, Room, Apps
<1> DEFINE closed == CloseConsentScreen(app)
           b == [closed EXCEPT !.profile = p, !.consent = TRUE, !.polls = 0]
           n == NavigateToView(b, FALSE)
<1>2. closed \in Apps /\ closed.run = app.run
  BY <1>1, Closing DEF ShowsNoMore, SameRun
<1> HIDE DEF closed
<1>3. b \in Apps /\ b.run = app.run
  BY <1>2, Bounds DEF Apps
<1>4. Select(app, p) = n
  BY DEF Select, closed
<1> HIDE DEF b
<1>5. Restarts(b, n)
  BY <1>1, <1>3, NavigationRestarts
<1> HIDE DEF n
<1>6. app' = [n EXCEPT !.stressDue = @ \/ p = Stressed]
  BY <1>4 DEF ChangeProfile
<1>7. Restarts(app, app')
  <2>1. n \in Apps /\ (n.stressDue \/ p = Stressed) \in BOOLEAN
    BY <1>5 DEF Restarts
  <2>2. QED
    BY <1>3, <1>5, <1>6, <2>1 DEF Restarts, Apps
<1>8. \A q \in requests' : q \in requests \/ Errand(q)
  <2>1. requests' = requests \/ Sent(n, "consent")
    BY <1>4, Zenon DEF ChangeProfile
  <2>2. Errand(Fetch(n, "consent", 0))
    BY <1>5, FetchIsErrand DEF Restarts
  <2>3. QED
    BY <2>1, <2>2 DEF Sent
<1>9. NothingBegins
  BY <1>8, NothingElse DEF ChangeProfile
<1>10. QED
  BY <1>7, <1>9, StartsAfresh

LEMMA HydrationGoesOn ==
  ASSUME ViewInv, NEW q \in requests,
         \/ \E ok \in BOOLEAN : Health(q, ok) \/ HydrateSyntheticProfileConsent(q, ok)
         \/ Seeded(q) \/ HydrationFails(q)
  PROVE  ViewInv'
<1>1. app \in Apps
  BY TypeOKIsTyped DEF ViewInv
<1>2. ASSUME NEW ok \in BOOLEAN, Health(q, ok)
      PROVE  ShowsNoMore(app, app') /\ Besides /\ \A x \in requests' : x \in requests \/ Errand(x)
  <2>1. (IF ok THEN "api-connected" ELSE "api-unavailable") \in Modes
    BY DEF Modes
  <2>2. ShowsNoMore(app, app')
    BY <1>1, <1>2, <2>1, Unrelated DEF Health
  <2>3. QED
    BY <1>1, <1>2, <2>2, FetchIsErrand DEF Health, Elsewhere
<1>3. ASSUME NEW ok \in BOOLEAN, HydrateSyntheticProfileConsent(q, ok)
      PROVE  ShowsNoMore(app, app') /\ Besides /\ \A x \in requests' : x \in requests \/ Errand(x)
  <2>1. ShowsNoMore(app, app')
    <3>1. ShowsNoMore(app, app)
      BY <1>1, Unrelated, TypeOKIsTyped DEF ViewInv, Apps
    <3>2. QED
      BY <1>1, <1>3, <3>1, Dismissals DEF HydrateSyntheticProfileConsent
  <2>2. Errand(Fetch(app, IF q.kind = "consent" THEN "seed" ELSE "boot-seed", 0))
    BY <1>1, FetchIsErrand
  <2>3. \A x \in requests' : x \in requests \/ Errand(x)
    BY <1>3, <2>2 DEF HydrateSyntheticProfileConsent
  <2>4. QED
    BY <1>3, <2>1, <2>3 DEF HydrateSyntheticProfileConsent
<1>4. ASSUME Seeded(q)
      PROVE  ShowsNoMore(app, app') /\ Besides /\ \A x \in requests' : x \in requests \/ Errand(x)
  BY <1>1, <1>4, Dismissals DEF Seeded, Elsewhere
<1>5. ASSUME HydrationFails(q)
      PROVE  ShowsNoMore(app, app') /\ Besides /\ \A x \in requests' : x \in requests \/ Errand(x)
  <2>1. ShowsNoMore(app, app) /\ ShowsNoMore(app, [app EXCEPT !.backend = FALSE, !.mode = "api-unavailable"])
    BY <1>1, Unrelated DEF Modes
  <2>2. QED
    BY <1>5, <2>1 DEF HydrationFails
<1>6. QED
  BY <1>2, <1>3, <1>4, <1>5, NothingElse, GoesOn

LEMMA DemoModeGoesOn ==
  ASSUME ViewInv, EnableDemoMode
  PROVE  ViewInv'
<1>1. ShowsNoMore(app, app')
  BY TypeOKIsTyped, Unrelated DEF ViewInv, EnableDemoMode, Modes
<1>2. QED
  BY <1>1, NothingElse, GoesOn DEF EnableDemoMode

-----------------------------------------------------------------------------
(* Consent and erasure.                                                    *)

LEMMA RevokedShowsNoMore ==
  ASSUME NEW a \in Apps
  PROVE  ShowsNoMore(a, Revoked(a))
<1> DEFINE b == SetConsentUI(a, FALSE)
           c == DismissNudge(b)
<1>1. ShowsNoMore(a, b) /\ b \in Apps
  BY Dismissals DEF ShowsNoMore, SameRun
<1> HIDE DEF b
<1>2. ShowsNoMore(b, c) /\ c \in Apps
  BY <1>1, Dismissals DEF ShowsNoMore, SameRun
<1>3. ShowsNoMore(c, DismissStressCard(c))
  BY <1>2, Dismissals
<1>4. QED
  BY <1>1, <1>2, <1>3, NoMoreThanNoMore DEF Revoked, b

LEMMA ErasedRestarts ==
  ASSUME NEW a \in Apps, a.run < MaxRuns
  PROVE  Restarts(a, Erased(a))
<1>1. Revoked(a) \in Apps /\ Revoked(a).run = a.run
  BY RevokedShowsNoMore DEF ShowsNoMore, SameRun
<1>2. Restarts(Revoked(a), NavigateToView(Revoked(a), FALSE))
  BY <1>1, NavigationRestarts
<1>3. QED
  BY <1>1, <1>2 DEF Erased, Restarts

LEMMA ConsentGoesOn ==
  ASSUME ViewInv, ToggleConsent \/ \E q \in requests, ok \in BOOLEAN : ConsentAnswer(q, ok)
  PROVE  ViewInv'
<1>1. app \in Apps
  BY TypeOKIsTyped DEF ViewInv
<1>2. /\ ShowsNoMore(app, app) /\ ShowsNoMore(app, Revoked(app))
      /\ \A granted \in BOOLEAN : ShowsNoMore(app, SetConsentUI(app, granted))
  BY <1>1, RevokedShowsNoMore, Dismissals DEF ShowsNoMore, SameRun
<1>3. CASE ToggleConsent
  <2>1. ShowsNoMore(app, app')
    BY <1>2, <1>3 DEF ToggleConsent
  <2>2. \A q \in requests' : q \in requests \/ Errand(q)
    BY <1>1, <1>3, FetchIsErrand DEF ToggleConsent, Sent
  <2>3. QED
    BY <1>3, <2>1, <2>2, NothingElse, GoesOn DEF ToggleConsent
<1>4. ASSUME NEW q \in requests, NEW ok \in BOOLEAN, ConsentAnswer(q, ok)
      PROVE  ViewInv'
  <2>1. ((q.kind = "grant") = ok) \in BOOLEAN
    OBVIOUS
  <2>2. ShowsNoMore(app, app')
    BY <1>2, <1>4, <2>1 DEF ConsentAnswer
  <2>3. QED
    BY <1>4, <2>2, NothingElse, GoesOn DEF ConsentAnswer, Elsewhere
<1>5. QED
  BY <1>3, <1>4

LEMMA ErasureRestarts ==
  ASSUME ViewInv, ConfirmErasure \/ \E q \in requests, ok \in BOOLEAN : ErasureAnswer(q, ok)
  PROVE  ViewInv'
<1>1. app \in Apps
  BY TypeOKIsTyped DEF ViewInv
<1>2. NothingBegins
  <2>1. \A q \in requests' : q \in requests \/ Errand(q)
    BY <1>1, FetchIsErrand DEF ConfirmErasure, ErasureAnswer, Sent
  <2>2. QED
    BY <2>1, NothingElse DEF ConfirmErasure, ErasureAnswer, Elsewhere
<1>3. app' = app \/ (app.run < MaxRuns /\ app' = Erased(app))
  BY DEF ConfirmErasure, ErasureAnswer, Room
<1>4. CASE app' = app
  BY <1>1, <1>2, <1>4, GoesOn DEF ShowsNoMore, SameRun
<1>5. CASE app.run < MaxRuns /\ app' = Erased(app)
  BY <1>1, <1>2, <1>5, ErasedRestarts, StartsAfresh
<1>6. QED
  BY <1>3, <1>4, <1>5

-----------------------------------------------------------------------------
(* A scenario is triggered and the pipeline runs.                          *)

\* Nothing is left of an earlier run on a page whose pipeline starts.
Clear(a) == a.offer = 0 /\ a.support = 0 /\ ~Inviting(a.screen)

LEMMA ResetClears ==
  ASSUME NEW a \in Apps
  PROVE  ShowsNoMore(a, ResetPrevious(a)) /\ Clear(ResetPrevious(a))
<1> DEFINE b == DismissNudge(a)
           c == DismissStressCard(b)
           d == ClearAutoTrigger(c)
<1>1. ShowsNoMore(a, b) /\ b \in Apps /\ b.offer = 0
  BY Dismissals DEF ShowsNoMore, SameRun
<1> HIDE DEF b
<1>2. ShowsNoMore(b, c) /\ c \in Apps /\ c.support = 0
  BY <1>1, Dismissals DEF ShowsNoMore, SameRun
<1> HIDE DEF c
<1>3. ShowsNoMore(c, d) /\ d \in Apps
  BY <1>2, Dismissals DEF ShowsNoMore, SameRun
<1> HIDE DEF d
<1>4. /\ ShowsNoMore(d, CloseConsentScreen(d)) /\ ~Inviting(CloseConsentScreen(d).screen)
      /\ CloseConsentScreen(d).offer = d.offer /\ CloseConsentScreen(d).support = d.support
  BY <1>3, Closing
<1>5. d.offer = 0 /\ d.support = 0
  BY <1>1, <1>2, <1>3 DEF ShowsNoMore
<1>6. ResetPrevious(a) = CloseConsentScreen(d)
  BY DEF ResetPrevious, d, c, b
<1>7. ShowsNoMore(a, d)
  BY <1>1, <1>2, <1>3, NoMoreThanNoMore
<1>8. ShowsNoMore(a, CloseConsentScreen(d))
  BY <1>4, <1>7, NoMoreThanNoMore
<1>9. QED
  BY <1>4, <1>5, <1>6, <1>8 DEF Clear

LEMMA PipelineRuns ==
  ASSUME ViewInv, NEW a, ShowsNoMore(app, a), Clear(a), NEW type, ExecuteAgentPipeline(a, type)
  PROVE  ViewInv'
<1> DEFINE n == NewRun(a)
           b == [n EXCEPT !.polls = 0]
           word == IF b.mode = "offline-demo" THEN "offline-demo" ELSE "server"
<1>1. a \in Apps /\ a.run = app.run /\ a.run < MaxRuns
  BY DEF ShowsNoMore, SameRun, ExecuteAgentPipeline, Room
<1>2. Restarts(a, n) /\ n.screen = a.screen /\ n \in Apps
  BY <1>1, NewRunStarts DEF Clear
<1>3. app' = b
  BY DEF ExecuteAgentPipeline
<1> HIDE DEF n
<1>4. Restarts(app, b) /\ b.polls = 0 /\ b.screen = a.screen
  BY <1>1, <1>2, Bounds DEF Restarts, Apps
<1>5. /\ owner' = [owner EXCEPT ![b.run] = b.profile]
      /\ source' = [source EXCEPT ![b.run] = word]
      /\ confirmation' = confirmation
  BY DEF ExecuteAgentPipeline, n
<1>6. \/ /\ requests' = requests \union {Fetch(b, "orchestrate", b.run)} /\ steps' = steps
      \/ /\ requests' = requests
         /\ steps' = steps \union Play(b.run, IF type = "stress" THEN "support" ELSE "offer", FALSE)
  BY DEF ExecuteAgentPipeline, n
<1> HIDE DEF b
<1>7. Pipeline(word)
  BY <1>3, <1>4, <1>5, <1>6 DEF Pipeline, Clear
<1>8. QED
  BY <1>7, PipelineStarts

\* a is the page without the timer that triggers the scenario.
LEMMA ScenarioRuns ==
  ASSUME ViewInv, NEW a, ShowsNoMore(app, a), NEW type, TriggerScenario(a, type)
  PROVE  ViewInv'
<1> DEFINE b == [a EXCEPT !.mode = IF @ = "api-unavailable" THEN "offline-demo" ELSE @]
<1>1. ShowsNoMore(a, b) /\ b \in Apps
  <2>1. (IF a.mode = "api-unavailable" THEN "offline-demo" ELSE a.mode) \in Modes /\ a \in Apps
    BY DEF ShowsNoMore, SameRun, Apps, Modes
  <2>2. ShowsNoMore(a, [a EXCEPT !.mode = IF a.mode = "api-unavailable" THEN "offline-demo"
                                                                         ELSE a.mode])
    BY <2>1, Unrelated
  <2>3. QED
    BY <2>2 DEF ShowsNoMore, SameRun
<1>2. \/ ExecuteAgentPipeline(ResetPrevious(b), type)
      \/ app' = b /\ UNCHANGED requests /\ Elsewhere
  BY DEF TriggerScenario
<1> HIDE DEF b
<1>3. ShowsNoMore(app, b)
  BY <1>1, NoMoreThanNoMore
<1>4. CASE ExecuteAgentPipeline(ResetPrevious(b), type)
  <2>1. ShowsNoMore(app, ResetPrevious(b)) /\ Clear(ResetPrevious(b))
    BY <1>1, <1>3, ResetClears, NoMoreThanNoMore
  <2>2. QED
    BY <1>4, <2>1, PipelineRuns
<1>5. CASE app' = b /\ UNCHANGED requests /\ Elsewhere
  BY <1>3, <1>5, NothingElse, GoesOn DEF Elsewhere
<1>6. QED
  BY <1>2, <1>4, <1>5

LEMMA TimersTrigger ==
  ASSUME ViewInv, AutoTrigger \/ StressTrigger
  PROVE  ViewInv'
<1>1. /\ ShowsNoMore(app, [app EXCEPT !.autoDue = FALSE])
      /\ ShowsNoMore(app, [app EXCEPT !.stressDue = FALSE])
  BY TypeOKIsTyped, Unrelated DEF ViewInv, Apps
<1>2. QED
  BY <1>1, ScenarioRuns DEF AutoTrigger, StressTrigger

LEMMA NavigationGoesOn ==
  ASSUME ViewInv, Navigate \/ SuccessBackToHome
  PROVE  ViewInv'
<1>1. app \in Apps /\ app.run < MaxRuns
  BY TypeOKIsTyped DEF ViewInv, Navigate, SuccessBackToHome, Room
<1>2. NothingBegins
  BY NothingElse DEF Navigate, SuccessBackToHome, Elsewhere
<1>3. CloseConsentScreen(app) \in Apps /\ CloseConsentScreen(app).run = app.run
  BY <1>1, Closing DEF ShowsNoMore, SameRun
<1>4. CASE Navigate
  BY <1>1, <1>2, <1>4, NavigationRestarts, StartsAfresh DEF Navigate
<1>5. CASE SuccessBackToHome
  <2>1. Restarts(CloseConsentScreen(app), NavigateToView(CloseConsentScreen(app), FALSE))
    BY <1>1, <1>3, NavigationRestarts
  <2>2. Restarts(app, app')
    BY <1>3, <1>5, <2>1 DEF SuccessBackToHome, Restarts
  <2>3. QED
    BY <1>2, <2>2, StartsAfresh
<1>6. QED
  BY <1>4, <1>5

-----------------------------------------------------------------------------
(* The answers, timers and clicks of the run that is shown.                *)

\* The page goes on with the run it shows, and asks nothing new but about that run.
Continues ==
  /\ app' \in Apps /\ app'.profile = app.profile /\ app'.run = app.run
  /\ Begun
  /\ Inviting(app'.screen) => app'.screen = app.screen \/ app'.screen.text = app.run
  /\ \A q \in requests' :
       \/ q \in requests
       \/ /\ q \in Requests /\ q.kind \in {"load", "poll"} /\ q.run \in {0, app.run}
          /\ q.who = app.profile
  /\ steps' \subseteq Steps /\ \A t \in steps' : t \in steps \/ t.run = app.run
  /\ owner' = owner /\ source' = source

LEMMA WhatContinues ==
  ASSUME ViewInv, Continues
  PROVE  /\ RunIsShown'
         /\ requests' \subseteq Requests
         /\ \A q \in requests' : q.run <= app.run
         /\ \A t \in steps' : t.run <= app.run
         /\ \A q \in requests' : q.run # 0 => owner[q.run] = q.who
<1> USE DEF ViewInv
<1>1. app.run \in Nat
  BY TypeOKIsTyped DEF Apps
<1>2. RunIsShown'
  BY DEF RunIsShown, Continues, Inviting
<1>3. requests' \subseteq Requests
  BY TypeOKIsTyped DEF Continues
<1>4. \A q \in requests' : q.run <= app.run
  BY <1>1 DEF Continues, Past
<1>5. \A t \in steps' : t.run <= app.run
  BY <1>1 DEF Continues, Past
<1>6. \A q \in requests' : q.run # 0 => owner[q.run] = q.who
  BY DEF Continues, AskedByItsOwner, RunIsShown
<1>7. QED
  BY <1>2, <1>3, <1>4, <1>5, <1>6

\* With the confirmations as they were.
LEMMA PageContinues ==
  ASSUME ViewInv, Continues, confirmation' = confirmation,
         LatestRunOnly', Unanswered', Loading', Polling', ServerOffer', Counted',
         app'.token \in {0, app'.rec}
  PROVE  ViewInv'
<1> USE DEF ViewInv
<1>1. TypeOK'
  BY WhatContinues, TypeOKIsTyped, TypesNext DEF Continues
<1>2. Past' /\ AskedByItsOwner' /\ Confirming' /\ TokenOfItsOffer'
  BY WhatContinues DEF Continues, Past, AskedByItsOwner, Confirming, TokenOfItsOffer
<1>3. QED
  BY <1>1, <1>2, WhatContinues

\* A run has one request for its decision.
LEMMA AskedOnce ==
  ASSUME ViewInv, NEW q \in requests, NEW x \in requests, q.kind = "orchestrate",
         x.kind = "orchestrate", q.run = x.run
  PROVE  q = x
<1>1. q \in Requests /\ x \in Requests /\ q.run # 0
  BY TypeOKIsTyped DEF ViewInv, Unanswered, Runs
<1>2. q.who = x.who
  BY <1>1 DEF ViewInv, AskedByItsOwner
<1>3. QED
  BY <1>1, <1>2 DEF Requests

\* Once the page has anything of its run, the run is answered.
LEMMA Answered ==
  ASSUME ViewInv,
         \/ app.rec # 0 \/ app.offer # 0 \/ \E t \in steps : t.run = app.run
         \/ \E x \in requests : x.run = app.run /\ x.kind # "orchestrate"
  PROVE  \A q \in requests : q.kind = "orchestrate" => q.run # app.run
BY DEF ViewInv, Unanswered

\* Then nothing is unanswered that was not.
LEMMA StaysAnswered ==
  ASSUME ViewInv, Continues, \A q \in requests : q.kind = "orchestrate" => q.run # app.run
  PROVE  Unanswered'
BY DEF ViewInv, Continues, Unanswered

LEMMA PollIsScheduled ==
  ASSUME NEW a \in Apps, NEW r \in 0 .. MaxRuns
  PROVE  \/ ScheduleReviewStatusPoll(a, r) = a
         \/ /\ ScheduleReviewStatusPoll(a, r) = [a EXCEPT !.pollDue = r]
            /\ a.rec # 0 /\ r = a.run
BY DEF ScheduleReviewStatusPoll

LEMMA OrchestrateContinues ==
  ASSUME ViewInv, NEW q \in requests, NEW mode \in Deliveries, OrchestrateAnswer(q, mode)
  PROVE  ViewInv'
<1> USE DEF ViewInv
<1>1. app \in Apps /\ q \in Requests /\ q.kind = "orchestrate" /\ requests' = requests \ {q}
  BY TypeOKIsTyped DEF OrchestrateAnswer
<1> DEFINE supports == mode \in Supports
           b == [app EXCEPT !.rec = IF supports THEN 0 ELSE q.run,
                            !.review = mode = "human_review_required"]
           played == Play(q.run, IF supports THEN "support" ELSE "offer", mode = "support_mode")
<1>2. CASE UNCHANGED <<app, steps>> \/ (app' = SetConsentUI(app, FALSE) /\ UNCHANGED steps)
  <2>1. ShowsNoMore(app, app) /\ ShowsNoMore(app, SetConsentUI(app, FALSE))
    BY <1>1, Dismissals DEF ShowsNoMore, SameRun
  <2>2. NothingBegins
    BY <1>1, <1>2, TypeOKIsTyped DEF NothingBegins, OrchestrateAnswer
  <2>3. QED
    BY <1>2, <2>1, <2>2, GoesOn
<1>3. CASE /\ q.run = app.run /\ app' = ScheduleReviewStatusPoll(b, q.run)
           /\ steps' = steps \union played
  <2> DEFINE r == app.run
  <2>1. /\ r \in Runs /\ r \in 0 .. MaxRuns /\ r # 0
        /\ app.rec = 0 /\ app.offer = 0 /\ app.pollDue = 0 /\ app.polls = 0
        /\ \A t \in steps : t.run # r
        /\ \A x \in requests : x.run = r => x.kind = "orchestrate"
    BY <1>1, <1>3 DEF Unanswered, Runs, Apps
  <2>2. \A x \in requests' : x.run # r
    BY <1>1, <1>3, <2>1, AskedOnce
  <2>3. /\ b \in Apps /\ b.rec \in {0, r} /\ b.run = r /\ b.profile = app.profile
        /\ b.offer = 0 /\ b.support = app.support /\ b.pollDue = 0 /\ b.polls = 0
        /\ b.token = app.token /\ b.screen = app.screen
    <3>1. (IF supports THEN 0 ELSE q.run) \in {0, r} /\ (IF supports THEN 0 ELSE q.run) \in 0 .. MaxRuns
      BY <1>3, <2>1, Bounds
    <3>2. (mode = "human_review_required") \in BOOLEAN
      OBVIOUS
    <3>3. QED
      BY <1>1, <2>1, <3>1, <3>2 DEF Apps
  <2> HIDE DEF b
  <2>4. /\ app' \in Apps /\ app'.rec \in {0, r} /\ app'.run = r /\ app'.profile = app.profile
        /\ app'.offer = 0 /\ app'.support = app.support /\ app'.polls = 0
        /\ app'.token = app.token /\ app'.screen = app.screen /\ app'.pollDue \in {0, r}
    <3>1. CASE app' = b
      BY <2>3, <3>1
    <3>2. CASE app' = [b EXCEPT !.pollDue = r]
      BY <2>1, <2>3, <3>2 DEF Apps
    <3>3. QED
      BY <1>3, <2>1, <2>3, <3>1, <3>2, PollIsScheduled
  <2>5. played \subseteq Steps /\ \A t \in played : t.run = r
    <3>1. (IF supports THEN "support" ELSE "offer") \in {"offer", "support"}
      OBVIOUS
    <3>2. (mode = "support_mode") \in BOOLEAN
      OBVIOUS
    <3>3. QED
      BY <1>3, <2>1, <3>1, <3>2 DEF Play, Steps
  <2> HIDE DEF played
  <2>6. Continues
    <3>1. Begun
      BY <1>3, <2>1 DEF Begun, OfRun
    <3>2. QED
      BY <1>1, <1>3, <2>4, <2>5, <3>1, TypeOKIsTyped DEF Continues, OrchestrateAnswer
  <2>7. LatestRunOnly' /\ Loading' /\ Polling' /\ ServerOffer' /\ Counted'
    BY <1>1, <2>2, <2>4, Bounds DEF LatestRunOnly, Loading, Polling, ServerOffer, Counted, OfRun
  <2>8. Unanswered'
    BY <1>1, <2>2, <2>4 DEF Unanswered
  <2>9. app'.token \in {0, app'.rec}
    BY <2>1, <2>4 DEF TokenOfItsOffer
  <2>10. QED
    BY <2>6, <2>7, <2>8, <2>9, PageContinues DEF OrchestrateAnswer
<1>4. QED
  BY <1>2, <1>3 DEF OrchestrateAnswer, Latest

LEMMA GuardianContinues ==
  ASSUME ViewInv, NEW t \in steps, OutputGuardian(t)
  PROVE  ViewInv'
<1> USE DEF ViewInv
<1>1. /\ app \in Apps /\ t \in Steps /\ t.run # 0 /\ t.run \in 0 .. MaxRuns
      /\ steps' = steps \ {t} /\ confirmation' = confirmation /\ owner' = owner /\ source' = source
  BY TypeOKIsTyped DEF OutputGuardian, Steps, Runs
<1>2. CASE UNCHANGED <<app, requests>>
  <2>1. ShowsNoMore(app, app') /\ NothingBegins
    BY <1>1, <1>2, TypeOKIsTyped DEF ShowsNoMore, SameRun, NothingBegins
  <2>2. QED
    BY <2>1, GoesOn
<1>3. ASSUME t.run = app.run, ~(t.shows = "offer" /\ app.review), ~UNCHANGED <<app, requests>>
      PROVE  ViewInv'
  <2>1. Begun /\ \A q \in requests : q.kind = "orchestrate" => q.run # app.run
    BY <1>1, <1>3, Answered DEF Begun, OfRun
  <2>2. CASE app' = ShowStressCard(app, t.run, t.evidence) /\ requests' = requests
    <3> DEFINE d == DismissNudge(app)
               shown == IF app.mode = "api-connected" /\ ~t.evidence THEN d.support ELSE t.run
    <3>1. ShowsNoMore(app, d) /\ d.offer = 0 /\ d \in Apps
      BY <1>1, Dismissals DEF ShowsNoMore, SameRun
    <3>2. app' = [d EXCEPT !.support = shown]
      BY <2>2 DEF ShowStressCard
    <3> HIDE DEF d
    <3>3. shown \in 0 .. MaxRuns /\ shown \in {0, app.run}
      BY <1>1, <1>3, <3>1 DEF Apps, LatestRunOnly, ShowsNoMore
    <3> HIDE DEF shown
    <3>4. /\ app' \in Apps /\ app'.offer = 0 /\ app'.support \in {0, app.run}
          /\ app'.profile = app.profile /\ app'.run = app.run /\ app'.rec = app.rec
          /\ app'.review = app.review /\ app'.token = app.token /\ app'.polls = app.polls
          /\ app'.pollDue \in {0, app.pollDue}
          /\ Inviting(app'.screen) => app'.screen = app.screen
      BY <3>1, <3>2, <3>3 DEF Apps, ShowsNoMore, SameRun
    <3>5. Continues
      BY <1>1, <2>1, <2>2, <3>4, TypeOKIsTyped DEF Continues
    <3>6. LatestRunOnly' /\ Loading' /\ Polling' /\ ServerOffer' /\ Counted'
      BY <2>2, <3>4 DEF LatestRunOnly, Loading, Polling, ServerOffer, Counted, OfRun
    <3>7. QED
      BY <1>1, <2>1, <3>4, <3>5, <3>6, StaysAnswered, PageContinues DEF TokenOfItsOffer
  <2>3. CASE /\ app' = ShowNudgeInPhone(app, t.run) /\ requests' = requests
             /\ source[t.run] = "offline-demo" /\ t.shows # "support"
    <3>1. t.shows = "offer"
      BY <1>1, <2>3 DEF Steps
    <3>2. app' = [app EXCEPT !.offer = app.run, !.support = 0]
      BY <1>3, <2>3 DEF ShowNudgeInPhone
    <3>3. /\ app' \in Apps /\ app'.offer = app.run /\ app'.support = 0
          /\ app'.profile = app.profile /\ app'.run = app.run /\ app'.rec = app.rec
          /\ app'.review = app.review /\ app'.token = app.token /\ app'.polls = app.polls
          /\ app'.pollDue = app.pollDue /\ app'.screen = app.screen
      BY <1>1, <3>2, Bounds DEF Apps
    <3>4. Continues
      BY <1>1, <2>1, <2>3, <3>3, TypeOKIsTyped DEF Continues
    <3>5. LatestRunOnly' /\ Loading' /\ Polling' /\ ServerOffer' /\ Counted'
      BY <1>1, <1>3, <2>3, <3>1, <3>3
         DEF LatestRunOnly, Loading, Polling, ServerOffer, Counted, OfRun
    <3>6. QED
      BY <1>1, <2>1, <3>3, <3>4, <3>5, StaysAnswered, PageContinues DEF TokenOfItsOffer
  <2>4. CASE /\ requests' = requests \union {Fetch(app, "load", app.rec)} /\ app' = app
             /\ t.shows # "support"
    <3> DEFINE q == Fetch(app, "load", app.rec)
    <3>1. /\ q \in Requests /\ q.kind = "load" /\ q.run = app.rec /\ q.who = app.profile
          /\ q.run \in {0, app.run}
      BY <1>1 DEF Fetch, Requests, Apps, LatestRunOnly
    <3> HIDE DEF q
    <3>2. \A x \in requests' : x \in requests \/ x = q
      BY <2>4 DEF q
    <3>3. t.shows = "offer"
      BY <1>1, <2>4 DEF Steps
    <3>4. Continues
      BY <1>1, <2>1, <2>4, <3>1, <3>2, TypeOKIsTyped DEF Continues
    <3>5. LatestRunOnly' /\ ServerOffer' /\ Counted'
      BY <1>1, <2>4 DEF LatestRunOnly, ServerOffer, Counted
    <3>6. Loading' /\ Polling'
      BY <1>3, <2>4, <3>1, <3>2, <3>3 DEF Loading, Polling, OfRun
    <3>7. QED
      BY <1>1, <2>1, <2>4, <3>4, <3>5, <3>6, StaysAnswered, PageContinues DEF TokenOfItsOffer
  <2>5. QED
    BY <1>3, <2>2, <2>3, <2>4 DEF OutputGuardian, Latest, Withheld
<1>4. QED
  BY <1>2, <1>3 DEF OutputGuardian, Latest, Withheld

\* An offer of the run that is shown: the answers that bring it say that it needs no review.
LEMMA OfferIsShown ==
  ASSUME ViewInv, NEW a \in Apps, NEW q \in requests,
         app' = ShowNudgeInPhone(a, q.run), q.run = app.run, q.run # 0, app.rec = q.run,
         q.kind # "orchestrate", requests' = requests \ {q}, ~a.review,
         /\ a.profile = app.profile /\ a.run = app.run /\ a.rec = app.rec /\ a.token = app.token
         /\ a.polls = app.polls /\ a.pollDue = app.pollDue /\ a.screen = app.screen,
         UNCHANGED <<steps, confirmation, owner, source>>
  PROVE  ViewInv'
<1> USE DEF ViewInv
<1>1. app \in Apps /\ app.run \in 0 .. MaxRuns
  BY TypeOKIsTyped DEF Apps
<1>2. app' = [a EXCEPT !.offer = app.run, !.support = 0]
  BY DEF ShowNudgeInPhone
<1>3. /\ app' \in Apps /\ app'.offer = app.run /\ app'.support = 0 /\ ~app'.review
      /\ app'.profile = app.profile /\ app'.run = app.run /\ app'.rec = app.rec
      /\ app'.token = app.token /\ app'.polls = app.polls
      /\ app'.pollDue = app.pollDue /\ app'.screen = app.screen
  BY <1>1, <1>2, Bounds DEF Apps
<1>4. Begun /\ \A x \in requests : x.kind = "orchestrate" => x.run # app.run
  BY Answered DEF Begun
<1>5. Continues
  BY <1>3, <1>4, TypeOKIsTyped DEF Continues
<1>6. LatestRunOnly' /\ Loading' /\ Polling' /\ ServerOffer' /\ Counted'
  BY <1>3 DEF LatestRunOnly, Loading, Polling, ServerOffer, Counted, OfRun
<1>7. QED
  BY <1>3, <1>4, <1>5, <1>6, StaysAnswered, PageContinues DEF TokenOfItsOffer

\* An answer that nothing follows from.
LEMMA AnswerIsIgnored ==
  ASSUME ViewInv, NEW q \in requests, requests' = requests \ {q}, Elsewhere, app' = app
  PROVE  ViewInv'
<1>1. ShowsNoMore(app, app')
  BY TypeOKIsTyped DEF ViewInv, ShowsNoMore, SameRun
<1>2. QED
  BY <1>1, NothingElse, GoesOn DEF Elsewhere

LEMMA LoadContinues ==
  ASSUME ViewInv, NEW q \in requests, NEW valid \in BOOLEAN, LoadAnswer(q, valid)
  PROVE  ViewInv'
<1>1. /\ app \in Apps /\ q.kind = "load" /\ requests' = requests \ {q}
      /\ UNCHANGED <<steps, confirmation, owner, source>>
  BY TypeOKIsTyped DEF ViewInv, LoadAnswer, Elsewhere, Besides
<1>2. CASE app' = app
  BY <1>1, <1>2, AnswerIsIgnored DEF LoadAnswer
<1>3. CASE q.run = app.run /\ app' = ShowNudgeInPhone(app, q.run) /\ q.run = 0
  <2>1. ShowsNoMore(app, app')
    BY <1>1, <1>3, Bounds DEF ShowNudgeInPhone, ShowsNoMore, SameRun, Apps
  <2>2. QED
    BY <1>1, <2>1, NothingElse, GoesOn DEF LoadAnswer, Elsewhere
<1>4. CASE q.run = app.run /\ app' = ShowNudgeInPhone(app, q.run) /\ q.run # 0
  <2>1. ~app.review /\ app.rec = q.run
    BY <1>1, <1>4 DEF ViewInv, Loading, OfRun
  <2>2. QED
    BY <1>1, <1>4, <2>1, OfferIsShown
<1>5. QED
  BY <1>2, <1>3, <1>4 DEF LoadAnswer, Latest

LEMMA PollStarts ==
  ASSUME ViewInv, PollDue
  PROVE  ViewInv'
<1> USE DEF ViewInv
<1> DEFINE r == app.pollDue
           q == Fetch(app, "poll", r)
<1>1. /\ app \in Apps /\ r # 0 /\ r = app.run /\ r \in 0 .. MaxRuns
      /\ app.polls \in 0 .. MaxPolls /\ app.polls < MaxPolls
      /\ UNCHANGED <<steps, confirmation, owner, source>>
  BY TypeOKIsTyped DEF PollDue, LatestRunOnly, Counted, Apps, Elsewhere, Besides
<1>2. CASE r # app.rec
  <2>1. app' = [app EXCEPT !.pollDue = 0] /\ UNCHANGED requests
    BY <1>2 DEF PollDue
  <2>2. ShowsNoMore(app, app')
    BY <1>1, <2>1, Bounds DEF ShowsNoMore, SameRun, Apps
  <2>3. QED
    BY <1>1, <2>1, <2>2, NothingElse, GoesOn DEF Besides
<1>3. CASE r = app.rec
  <2>1. /\ app' = [app EXCEPT !.pollDue = 0, !.polls = @ + 1]
        /\ requests' = requests \union {q}
    BY <1>1, <1>3 DEF PollDue, Latest
  <2>2. /\ app' \in Apps /\ app'.pollDue = 0
        /\ app'.profile = app.profile /\ app'.run = app.run /\ app'.rec = app.rec
        /\ app'.review = app.review /\ app'.token = app.token /\ app'.offer = app.offer
        /\ app'.support = app.support /\ app'.screen = app.screen
    <3>1. app.polls + 1 \in 0 .. MaxPolls
      BY <1>1, Bounds
    <3>2. QED
      BY <1>1, <2>1, <3>1, Bounds DEF Apps
  <2>3. /\ q \in Requests /\ q.kind = "poll" /\ q.run = app.run /\ q.run # 0 /\ q.who = app.profile
    BY <1>1 DEF Fetch, Requests, Apps
  <2> HIDE DEF q
  <2>4. \A x \in requests' : x \in requests \/ x = q
    BY <2>1
  <2>5. Begun /\ \A x \in requests : x.kind = "orchestrate" => x.run # app.run
    BY <1>1, <1>3, Answered DEF Begun
  <2>6. Continues
    BY <1>1, <2>2, <2>3, <2>4, <2>5, TypeOKIsTyped DEF Continues
  <2>7. LatestRunOnly' /\ Loading' /\ Polling' /\ ServerOffer' /\ Counted'
    BY <1>1, <2>2, <2>3, <2>4 DEF LatestRunOnly, Loading, Polling, ServerOffer, Counted, OfRun
  <2>8. QED
    BY <1>1, <2>2, <2>5, <2>6, <2>7, StaysAnswered, PageContinues DEF TokenOfItsOffer
<1>4. QED
  BY <1>2, <1>3

LEMMA PollContinues ==
  ASSUME ViewInv, NEW q \in requests, NEW status, PollAnswer(q, status)
  PROVE  ViewInv'
<1> USE DEF ViewInv
<1>1. /\ app \in Apps /\ q \in Requests /\ q.run \in 0 .. MaxRuns /\ q.kind = "poll" /\ q.run # 0
      /\ requests' = requests \ {q} /\ UNCHANGED <<steps, confirmation, owner, source>>
  BY TypeOKIsTyped DEF PollAnswer, Polling, Requests, Elsewhere, Besides
<1> DEFINE a == [app EXCEPT !.review = FALSE]
<1>2. CASE app' = app
  BY <1>1, <1>2, AnswerIsIgnored DEF PollAnswer
<1>3. CASE q.run = app.run /\ q.run = app.rec /\ app' = ShowNudgeInPhone(a, q.run)
  <2>1. /\ a \in Apps /\ ~a.review
        /\ a.profile = app.profile /\ a.run = app.run /\ a.rec = app.rec /\ a.token = app.token
        /\ a.polls = app.polls /\ a.pollDue = app.pollDue /\ a.screen = app.screen
    BY <1>1 DEF Apps
  <2> HIDE DEF a
  <2>2. QED
    BY <1>1, <1>3, <2>1, OfferIsShown
<1>4. CASE /\ app' = [app EXCEPT !.pollDue = q.run] /\ app.rec # 0 /\ q.run = app.run
           /\ app.polls < MaxPolls
  <2>1. /\ app' \in Apps /\ app'.pollDue = app.run
        /\ app'.profile = app.profile /\ app'.run = app.run /\ app'.rec = app.rec
        /\ app'.review = app.review /\ app'.token = app.token /\ app'.offer = app.offer
        /\ app'.support = app.support /\ app'.screen = app.screen /\ app'.polls = app.polls
    BY <1>1, <1>4 DEF Apps
  <2>2. Begun /\ \A x \in requests : x.kind = "orchestrate" => x.run # app.run
    BY <1>4, Answered DEF Begun
  <2>3. Continues
    BY <1>1, <2>1, <2>2, TypeOKIsTyped DEF Continues
  <2>4. LatestRunOnly' /\ Loading' /\ Polling' /\ ServerOffer' /\ Counted'
    BY <1>1, <1>4, <2>1 DEF LatestRunOnly, Loading, Polling, ServerOffer, Counted, OfRun
  <2>5. QED
    BY <1>1, <2>1, <2>2, <2>3, <2>4, StaysAnswered, PageContinues DEF TokenOfItsOffer
<1>5. \/ Retry(app, q.run) = app
      \/ /\ Retry(app, q.run) = [app EXCEPT !.pollDue = q.run]
         /\ app.rec # 0 /\ q.run = app.run /\ app.polls < MaxPolls
  <2>1. \/ ScheduleReviewStatusPoll(app, q.run) = app
        \/ /\ ScheduleReviewStatusPoll(app, q.run) = [app EXCEPT !.pollDue = q.run]
           /\ app.rec # 0 /\ q.run = app.run
    BY <1>1, PollIsScheduled
  <2>2. \/ Retry(app, q.run) = app
        \/ Retry(app, q.run) = ScheduleReviewStatusPoll(app, q.run) /\ app.polls < MaxPolls
    BY Zenon DEF Retry
  <2>3. QED
    BY <2>1, <2>2
<1>6. QED
  BY <1>2, <1>3, <1>4, <1>5 DEF PollAnswer, Latest

-----------------------------------------------------------------------------
(* The nudge card, the consent screen and the confirmation.                *)

LEMMA AcceptContinues ==
  ASSUME ViewInv, AcceptNudge
  PROVE  ViewInv'
<1> USE DEF ViewInv
<1> DEFINE screen == [app.screen EXCEPT !.open = TRUE, !.text = app.offer]
<1>1. /\ app \in Apps /\ app.offer = app.run /\ app.offer # 0 /\ app.offer \in 0 .. MaxRuns
      /\ UNCHANGED <<requests, steps, confirmation, owner, source>>
  BY TypeOKIsTyped DEF AcceptNudge, LatestRunOnly, Apps, Elsewhere, Besides
<1>2. screen \in Screens /\ screen.text = app.run
  BY <1>1 DEF Apps, Screens
<1>3. app' = [app EXCEPT !.screen = screen]
  BY DEF AcceptNudge
<1> HIDE DEF screen
<1>4. /\ app' \in Apps /\ app'.screen.text = app.run
      /\ app'.profile = app.profile /\ app'.run = app.run /\ app'.rec = app.rec
      /\ app'.review = app.review /\ app'.token = app.token /\ app'.offer = app.offer
      /\ app'.support = app.support /\ app'.polls = app.polls /\ app'.pollDue = app.pollDue
  BY <1>1, <1>2, <1>3 DEF Apps
<1>5. Begun /\ \A x \in requests : x.kind = "orchestrate" => x.run # app.run
  BY <1>1, Answered DEF Begun
<1>6. Continues
  BY <1>1, <1>4, <1>5, TypeOKIsTyped DEF Continues
<1>7. LatestRunOnly' /\ Loading' /\ Polling' /\ ServerOffer' /\ Counted'
  BY <1>1, <1>4 DEF LatestRunOnly, Loading, Polling, ServerOffer, Counted, OfRun
<1>8. QED
  BY <1>1, <1>4, <1>5, <1>6, <1>7, StaysAnswered, PageContinues DEF TokenOfItsOffer

LEMMA CardGoesOn ==
  ASSUME ViewInv, Dismiss \/ Cancel
  PROVE  ViewInv'
<1>1. app \in Apps
  BY TypeOKIsTyped DEF ViewInv
<1>2. ShowsNoMore(app, app')
  BY <1>1, Dismissals, Closing DEF Dismiss, Cancel
<1>3. NothingBegins
  BY NothingElse DEF Dismiss, Cancel, Elsewhere
<1>4. QED
  BY <1>2, <1>3, GoesOn

\* A confirmation that ends, or only waits for the digest, begins nothing.
LEMMA ConfirmationEnds ==
  ASSUME ViewInv, NEW s \in Slots, NEW c \in Confirmations,
         confirmation' = [confirmation EXCEPT ![s] = c],
         c.stage \notin {"authorize", "execute"}, c.run \in {0, confirmation[s].run},
         UNCHANGED <<requests, steps, owner, source>>
  PROVE  NothingBegins
BY TypeOKIsTyped DEF ViewInv, NothingBegins

LEMMA ReleaseShowsNoMore ==
  ASSUME NEW a \in Apps
  PROVE  ShowsNoMore(a, Release(a))
BY DEF Apps, ShowsNoMore, SameRun, Release

LEMMA IdleIsIdle == Idle \in Confirmations /\ Idle.stage = "idle" /\ Idle.run = 0
BY Bounds DEF Idle, Confirmations

\* The page stays what it was but for the lock; a confirmation is sent as its owner.
LEMMA ConfirmationIsSent ==
  ASSUME ViewInv, NEW s \in Slots, NEW c \in Confirmations,
         confirmation' = [confirmation EXCEPT ![s] = c],
         app.offer # 0, c.run = app.offer, c.who = app.profile,
         c.stage \in {"authorize", "execute"} => source[app.offer] = "server",
         c.stage = "execute" => c.token = c.run,
         UNCHANGED <<requests, steps, owner, source>>,
         app' \in Apps, ShowsNoMore([app EXCEPT !.token = app'.token], app'),
         app'.token \in {0, app.rec}
  PROVE  ViewInv'
<1> USE DEF ViewInv
<1>1. /\ app \in Apps /\ app.offer = app.run /\ app.run \in Nat
      /\ confirmation \in [Slots -> Confirmations]
  BY TypeOKIsTyped DEF LatestRunOnly, Apps
<1>2. /\ app'.profile = app.profile /\ app'.run = app.run /\ app'.rec = app.rec
      /\ app'.review = app.review /\ app'.polls = app.polls
      /\ app'.pollDue \in {0, app.pollDue}
      /\ app'.offer \in {0, app.offer} /\ app'.support \in {0, app.support}
      /\ Inviting(app'.screen) => app'.screen = app.screen
  BY <1>1 DEF ShowsNoMore, SameRun, Apps
<1>3. confirmation' \in [Slots -> Confirmations] /\ confirmation'[s] = c
      /\ \A x \in Slots : x # s => confirmation'[x] = confirmation[x]
  BY <1>1
<1>4. TypeOK'
  BY <1>3, TypeOKIsTyped, TypesNext
<1>5. Begun /\ owner[app.run] = app.profile
  BY DEF Begun, RunIsShown
<1>6. Past' /\ AskedByItsOwner' /\ Confirming'
  <2>1. ASSUME NEW x \in Slots
        PROVE  /\ confirmation'[x].run <= app.run
               /\ confirmation'[x].stage \in {"authorize", "execute"} =>
                    /\ confirmation'[x].run # 0 /\ source[confirmation'[x].run] = "server"
                    /\ owner[confirmation'[x].run] = confirmation'[x].who
    <3>1. CASE x = s
      BY <1>1, <1>3, <1>5, <3>1
    <3>2. CASE x # s
      BY <1>3, <3>2 DEF Past, Confirming, AskedByItsOwner
    <3>3. QED
      BY <3>1, <3>2
  <2>2. QED
    BY <1>2, <2>1 DEF Past, AskedByItsOwner, Confirming
<1>7. LatestRunOnly' /\ Loading' /\ Polling' /\ ServerOffer' /\ Counted' /\ Unanswered'
  BY <1>2 DEF LatestRunOnly, Loading, Polling, ServerOffer, Counted, OfRun, Unanswered
<1>8. RunIsShown'
  BY <1>2, <1>5 DEF RunIsShown
<1>9. TokenOfItsOffer'
  BY <1>2, <1>3 DEF TokenOfItsOffer
<1>10. QED
  BY <1>4, <1>6, <1>7, <1>8, <1>9

LEMMA ConfirmationStarts ==
  ASSUME ViewInv, NEW s \in Slots, ConfirmAction(s)
  PROVE  ViewInv'
<1> USE DEF ViewInv
<1> DEFINE server == source[app.offer] = "server"
           stage == IF ~server THEN "digest" ELSE IF app.token = 0 THEN "authorize" ELSE "execute"
           c == [stage |-> stage, run |-> app.offer, who |-> app.profile, token |-> app.token]
<1>1. /\ app \in Apps /\ app.offer # 0 /\ app.profile \in Profiles
      /\ app.offer \in 0 .. MaxRuns /\ app.token \in 0 .. MaxRuns
      /\ app' = [app EXCEPT !.inFlight = TRUE] /\ UNCHANGED <<requests, steps, owner, source>>
      /\ server => app.rec = app.offer
  BY TypeOKIsTyped DEF ConfirmAction, Apps
<1>2. confirmation' = [confirmation EXCEPT ![s] = c]
  BY DEF ConfirmAction, Waits
<1>3. stage \in {"authorize", "execute"} => server
  OBVIOUS
<1>4. stage = "execute" => app.token = app.offer
  BY <1>1 DEF TokenOfItsOffer
<1>5. stage \in {"authorize", "execute", "digest"}
  OBVIOUS
<1> HIDE DEF stage
<1>6. /\ c \in Confirmations /\ c.run = app.offer /\ c.who = app.profile /\ c.stage = stage
      /\ c.token = app.token
  BY <1>1, <1>5 DEF Confirmations
<1> HIDE DEF c
<1>7. app' \in Apps /\ app'.token = app.token /\ ShowsNoMore([app EXCEPT !.token = app.token], app')
  BY <1>1 DEF Apps, ShowsNoMore, SameRun
<1>8. QED
  BY <1>1, <1>2, <1>3, <1>4, <1>6, <1>7, ConfirmationIsSent DEF TokenOfItsOffer

LEMMA AuthorizationContinues ==
  ASSUME ViewInv, NEW s \in Slots, NEW ok \in BOOLEAN, AuthorizeAnswer(s, ok)
  PROVE  ViewInv'
<1> USE DEF ViewInv
<1> DEFINE r == confirmation[s].run
<1>1. /\ app \in Apps /\ confirmation[s] \in Confirmations /\ r \in 0 .. MaxRuns
      /\ app.profile \in Profiles
      /\ confirmation[s].stage = "authorize" /\ UNCHANGED <<requests, steps, owner, source>>
  BY TypeOKIsTyped DEF AuthorizeAnswer, Apps, Confirmations
<1>2. CASE app' = Release(app) /\ Ends(s)
  <2>1. ShowsNoMore(app, app')
    BY <1>1, <1>2, ReleaseShowsNoMore
  <2>2. NothingBegins
    BY <1>1, <1>2, IdleIsIdle, ConfirmationEnds DEF Ends
  <2>3. QED
    BY <2>1, <2>2, GoesOn
<1>3. CASE /\ app.offer = r /\ app' = [app EXCEPT !.token = r]
           /\ confirmation' = [confirmation EXCEPT ![s] = [stage |-> "execute", run |-> r,
                                                           who |-> app.profile, token |-> r]]
  <2> DEFINE c == [stage |-> "execute", run |-> r, who |-> app.profile, token |-> r]
  <2>1. r # 0 /\ source[r] = "server" /\ app.rec = r
    BY <1>1, <1>3 DEF Confirming, ServerOffer
  <2>2. c \in Confirmations /\ c.stage = "execute" /\ c.run = r /\ c.who = app.profile /\ c.token = r
    BY <1>1 DEF Confirmations
  <2> HIDE DEF c
  <2>3. confirmation' = [confirmation EXCEPT ![s] = c]
    BY <1>3 DEF c
  <2> HIDE DEF r
  <2>4. app' \in Apps /\ app'.token = r
    BY <1>1, <1>3 DEF Apps
  <2>5. ShowsNoMore([app EXCEPT !.token = app'.token], app')
    BY <1>3, <2>4 DEF ShowsNoMore, SameRun
  <2>6. /\ app.offer # 0 /\ c.run = app.offer /\ source[app.offer] = "server" /\ c.token = c.run
        /\ app'.token \in {0, app.rec}
    BY <1>3, <2>1, <2>2, <2>4
  <2>7. QED
    BY <1>1, <2>2, <2>3, <2>4, <2>5, <2>6, ConfirmationIsSent
<1>4. QED
  BY <1>2, <1>3 DEF AuthorizeAnswer, SameOffer, Returns

LEMMA ExecutionContinues ==
  ASSUME ViewInv, NEW s \in Slots, NEW fulfilled \in BOOLEAN, ExecuteAnswer(s, fulfilled)
  PROVE  ViewInv'
<1> USE DEF ViewInv
<1>1. /\ app \in Apps /\ confirmation[s] \in Confirmations
      /\ UNCHANGED <<requests, steps, owner, source>>
  BY TypeOKIsTyped DEF ExecuteAnswer
<1>2. CASE app' = Release(app) /\ Ends(s)
  <2>1. ShowsNoMore(app, app')
    BY <1>1, <1>2, ReleaseShowsNoMore
  <2>2. NothingBegins
    BY <1>1, <1>2, IdleIsIdle, ConfirmationEnds DEF Ends
  <2>3. QED
    BY <2>1, <2>2, GoesOn
<1>3. CASE app' = app /\ confirmation' = [confirmation EXCEPT ![s].stage = "digest"]
  <2> DEFINE c == [confirmation[s] EXCEPT !.stage = "digest"]
  <2>1. c \in Confirmations /\ c.stage = "digest" /\ c.run = confirmation[s].run
    BY <1>1 DEF Confirmations
  <2>2. confirmation' = [confirmation EXCEPT ![s] = c]
    BY <1>3
  <2> HIDE DEF c
  <2>3. NothingBegins
    BY <1>1, <2>1, <2>2, ConfirmationEnds
  <2>4. ShowsNoMore(app, app')
    BY <1>1, <1>3 DEF ShowsNoMore, SameRun
  <2>5. QED
    BY <2>3, <2>4, GoesOn
<1>4. QED
  BY <1>2, <1>3 DEF ExecuteAnswer, Returns

LEMMA SuccessGoesOn ==
  ASSUME ViewInv, NEW s \in Slots, Success(s)
  PROVE  ViewInv'
<1> USE DEF ViewInv
<1> DEFINE d == DismissNudge(app)
           screen == [d.screen EXCEPT !.content = "success", !.text = 0]
           e == [d EXCEPT !.screen = screen, !.homeDue = TRUE]
<1>1. app \in Apps /\ UNCHANGED <<requests, steps, owner, source>>
  BY TypeOKIsTyped DEF Success
<1>2. ShowsNoMore(app, d) /\ d \in Apps
  BY <1>1, Dismissals DEF ShowsNoMore, SameRun
<1>3. app' = Release(e)
  BY DEF Success
<1> HIDE DEF d
<1>4. screen \in Screens /\ ~Inviting(screen)
  BY <1>2, Bounds DEF Apps, Screens, Inviting
<1> HIDE DEF screen
<1>5. ShowsNoMore(d, e) /\ e \in Apps
  BY <1>2, <1>4 DEF Apps, ShowsNoMore, SameRun
<1> HIDE DEF e
<1>6. ShowsNoMore(e, app')
  BY <1>3, <1>5, ReleaseShowsNoMore
<1>7. ShowsNoMore(app, app')
  BY <1>2, <1>5, <1>6, NoMoreThanNoMore
<1>8. NothingBegins
  BY <1>1, IdleIsIdle, ConfirmationEnds DEF Success, Ends
<1>9. QED
  BY <1>7, <1>8, GoesOn

-----------------------------------------------------------------------------
(* The theorems.                                                           *)

LEMMA ViewInit == Init => ViewInv
<1> SUFFICES ASSUME Init
             PROVE  ViewInv
  OBVIOUS
<1>1. /\ app.run = 0 /\ app.rec = 0 /\ ~app.review /\ app.token = 0 /\ app.offer = 0
      /\ app.support = 0 /\ app.pollDue = 0
  BY DEF Init
<1>2. app \in Apps
  BY Bounds DEF Init, Apps, Modes, Screens, Closed
<1>3. requests \subseteq Requests /\ \A q \in requests : q.run = 0 /\ q.kind = "health"
  BY Bounds DEF Init, Requests
<1>4. confirmation \in [Slots -> Confirmations] /\ \A s \in Slots : confirmation[s] = Idle
  BY IdleIsIdle DEF Init
<1>5. TypeOK
  BY <1>2, <1>3, <1>4, Bounds, TypeOKIsTyped DEF Init
<1>6. Past /\ Unanswered /\ Loading /\ Polling /\ Confirming /\ AskedByItsOwner /\ TokenOfItsOffer
  BY <1>1, <1>3, <1>4, IdleIsIdle
     DEF Init, Past, Unanswered, Loading, Polling, Confirming, AskedByItsOwner, TokenOfItsOffer
<1>7. LatestRunOnly /\ ServerOffer /\ Counted
  BY <1>1 DEF LatestRunOnly, ServerOffer, Counted
<1>8. RunIsShown
  BY <1>1, <1>3 DEF RunIsShown, Begun, OfRun, Init
<1>9. QED
  BY <1>5, <1>6, <1>7, <1>8 DEF ViewInv

LEMMA ViewStep == ViewInv /\ [Next]_vars => ViewInv'
<1> SUFFICES ASSUME ViewInv, [Next]_vars
             PROVE  ViewInv'
  OBVIOUS
<1>1. CASE Customer
  <2>1. ASSUME NEW type \in Types, TriggerScenario(app, type)
        PROVE  ViewInv'
    <3>1. ShowsNoMore(app, app)
      BY TypeOKIsTyped DEF ViewInv, ShowsNoMore, SameRun
    <3>2. QED
      BY <2>1, <3>1, ScenarioRuns
  <2>2. QED
    BY <1>1, <2>1, DemoModeGoesOn, ProfileChanges, ConsentGoesOn, ErasureRestarts, NavigationGoesOn,
       AcceptContinues, CardGoesOn, ConfirmationStarts DEF Customer
<1>2. CASE Timers
  BY <1>2, GuardianContinues, PollStarts, NavigationGoesOn, TimersTrigger DEF Timers
<1>3. CASE Answers
  <2>1. ASSUME NEW s \in Slots, ConfirmationAnswers(s)
        PROVE  ViewInv'
    BY <2>1, AuthorizationContinues, ExecutionContinues, SuccessGoesOn DEF ConfirmationAnswers
  <2>2. QED
    BY <1>3, <2>1, HydrationGoesOn, ConsentGoesOn, ErasureRestarts, LoadContinues,
       OrchestrateContinues, PollContinues DEF Answers, PollAnswers
<1>4. CASE UNCHANGED vars
  <2>1. ShowsNoMore(app, app') /\ NothingBegins
    BY <1>4, TypeOKIsTyped DEF ViewInv, ShowsNoMore, SameRun, NothingBegins, vars
  <2>2. QED
    BY <2>1, GoesOn
<1>5. QED
  BY <1>1, <1>2, <1>3, <1>4 DEF Next

LEMMA ViewHolds == Spec => []ViewInv
BY ViewInit, ViewStep, PTL DEF Spec

\* The state of the page, the requests, timers and confirmations under way keep their types,
\* whatever the order of clicks, timers and answers.
THEOREM ViewTyped == Spec => []TypeOK
BY ViewHolds, PTL DEF ViewInv

\* What is on the phone, the active recommendation and its poll are of the latest run, and no
\* offer is shown while its review is outstanding, however late an answer or a timer comes.
THEOREM LatestIsShown == Spec => []LatestRunOnly
BY ViewHolds, PTL DEF ViewInv

\* A card is on the phone of the persona it was decided for.
THEOREM ShownToOwner == Spec => []ShownToItsOwner
<1>1. ViewInv => ShownToItsOwner
  BY DEF ViewInv, LatestRunOnly, RunIsShown, Begun, ShownToItsOwner
<1>2. QED
  BY <1>1, ViewHolds, PTL

\* Every request about a recommendation, and every confirmation, is sent as its customer.
THEOREM AskedByOwner == Spec => []AskedByItsOwner
BY ViewHolds, PTL DEF ViewInv

\* A decision token is kept and sent with the recommendation it was issued for.
THEOREM TokensMatch == Spec => []TokenOfItsOffer
BY ViewHolds, PTL DEF ViewInv

\* A confirmation starts under the consent text of the offer it is for.
THEOREM ConfirmedWasRead == Spec => ConfirmedAsRead
<1> DEFINE Read ==
      \A s \in Slots : confirmation[s].stage = "idle" /\ confirmation'[s].stage # "idle"
                       => app.screen.open /\ app.screen.text = confirmation'[s].run
<1>1. ViewInv /\ [Next]_vars => Read
  <2> SUFFICES ASSUME ViewInv, [Next]_vars, NEW s \in Slots,
                      confirmation[s].stage = "idle", confirmation'[s].stage # "idle"
               PROVE  app.screen.open /\ app.screen.text = confirmation'[s].run
    OBVIOUS
  <2>1. confirmation \in [Slots -> Confirmations] /\ confirmation' # confirmation
    BY TypeOKIsTyped DEF ViewInv
  <2>2. PICK x \in Slots : ConfirmAction(x) \/ ConfirmationAnswers(x)
    BY <2>1 DEF vars, Next, Customer, Timers, Answers, EnableDemoMode, ChangeProfile, ToggleConsent,
         ConfirmErasure, TriggerScenario, ExecuteAgentPipeline, Navigate, AcceptNudge, Dismiss, Cancel,
         OutputGuardian, PollDue, SuccessBackToHome, AutoTrigger, StressTrigger, Health,
         HydrateSyntheticProfileConsent, ConsentAnswer, ErasureAnswer, LoadAnswer, Seeded,
         HydrationFails, OrchestrateAnswer, PollAnswers, PollAnswer, Elsewhere, Besides
  <2>3. x = s
    BY <2>1, <2>2, IdleIsIdle DEF ConfirmAction, Waits, ConfirmationAnswers, AuthorizeAnswer,
         ExecuteAnswer, Success, Ends
  <2>4. ConfirmAction(s)
    BY <2>2, <2>3 DEF ConfirmationAnswers, AuthorizeAnswer, ExecuteAnswer, Success
  <2>5. confirmation'[s].run = app.offer
    BY <2>1, <2>4 DEF ConfirmAction, Waits
  <2>6. /\ app.offer # 0 /\ app.offer = app.run /\ Inviting(app.screen) /\ app.screen.open
    BY <2>4 DEF ConfirmAction, ViewInv, LatestRunOnly, Inviting
  <2>7. QED
    BY <2>5, <2>6 DEF ViewInv, RunIsShown, Begun
<1>2. QED
  BY <1>1, ViewHolds, PTL DEF Spec, ConfirmedAsRead
=============================================================================

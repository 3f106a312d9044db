---------------------- MODULE GovernanceServing_proofs ----------------------
(***************************************************************************)
(* Proofs that a process serves what was approved, and that the state of   *)
(* Governance is of its type.                                              *)
(***************************************************************************)
EXTENDS GovernanceRecords_proofs

-----------------------------------------------------------------------------
(* The inductive invariant.                                                *)

Good(version) == version = BuiltIn \/ (version \in Artifacts /\ artifact[version].effective)
\* A version of the type waits for its second person, claimed or not, and no other does.
OneProposal ==
  \A a, b \in Artifacts :
    /\ artifact[a].status \in {"pending", "materializing"}
    /\ artifact[b].status \in {"pending", "materializing"}
    => a = b

Serving ==
  /\ runtime \in [Processes -> Artifacts \cup {BuiltIn}]
  /\ home \in [Threads -> Processes]
  /\ \A t \in Threads : /\ Stage(t) \notin Activating => activation[t].artifact = 0
                        /\ Stage(t) \in Activating => activation[t].restore \in Artifacts \cup {BuiltIn}

\* A thread at work holds the claim on its version, or has it approved and does not know.
Holds(t) == Owns(t) \/ (Stage(t) \in {"undo", "abandon"} /\ Good(activation[t].artifact))
Works(t) == Stage(t) \in Activating
\* What a process serves is good, or a thread of it that has put it there is to answer for it.
Answers(t, p) ==
  /\ home[t] = p /\ Stage(t) \in {"applied", "undo"}
  /\ activation[t].artifact = runtime[p]

Undisturbed ==
  /\ \A t, u \in Threads :
       Works(t) /\ Works(u) /\ activation[t].artifact = activation[u].artifact => t = u
  /\ \A t \in Threads : Works(t) => Holds(t)
  /\ \A t \in Threads :
       Stage(t) \in {"snapshotted", "applied", "undo"} => Good(activation[t].restore)
  /\ \A p \in Processes : Good(runtime[p]) \/ \E t \in Threads : Answers(t, p)

\* ServesApproved is not inductive: while a thread is at work it says nothing.
ServeInv == OneProposal /\ Serving /\ (~disturbed => Undisturbed)

\* What a step of one thread must show: that it answers for itself, and takes nothing from
\* the others.
Carries(t) ==
  /\ OthersStay(t) /\ home' = home
  /\ \A u \in Threads \ {t} : activation'[u] = activation[u]
  /\ \A version : Good(version) => Good(version)'
  /\ \A u \in Threads \ {t} : Works(u) /\ Owns(u) => Holds(u)'
  /\ Works(t)' => /\ Holds(t)'
                  /\ \A u \in Threads \ {t} :
                       Works(u) => activation[u].artifact # activation'[t].artifact
  /\ Stage(t)' \in {"snapshotted", "applied", "undo"} => Good(activation[t].restore)'
  /\ \A p \in Processes : Good(runtime[p])' \/ \E u \in Threads : Answers(u, p)'

LEMMA CarriedOn ==
  ASSUME Undisturbed, NEW t \in Threads, Carries(t)
  PROVE  Undisturbed'
<1>1. \A u \in Threads \ {t} : Stage(u)' = Stage(u) /\ activation'[u] = activation[u]
  BY DEF Carries, OthersStay, Stage
<1>2. \A u, v \in Threads :
        Works(u)' /\ Works(v)' /\ activation'[u].artifact = activation'[v].artifact => u = v
  BY <1>1 DEF Undisturbed, Carries, Works
<1>3. \A u \in Threads : Works(u)' => Holds(u)'
  <2>1. ASSUME NEW u \in Threads \ {t}, Works(u)'
        PROVE  Holds(u)'
    <3>1. Works(u) /\ Holds(u)
      BY <1>1, <2>1 DEF Undisturbed, Works
    <3>2. CASE Owns(u)
      BY <3>1, <3>2 DEF Carries
    <3>3. CASE Stage(u) \in {"undo", "abandon"} /\ Good(activation[u].artifact)
      <4>1. Good(activation[u].artifact)'
        BY <1>1, <3>3 DEF Carries, Good
      <4>2. QED
        BY <1>1, <3>3, <4>1 DEF Holds
    <3>4. QED
      BY <3>1, <3>2, <3>3 DEF Holds
  <2>2. QED
    BY <2>1 DEF Carries
<1>4. \A u \in Threads :
        Stage(u)' \in {"snapshotted", "applied", "undo"} => Good(activation[u].restore)'
  <2>1. ASSUME NEW u \in Threads \ {t}, Stage(u)' \in {"snapshotted", "applied", "undo"}
        PROVE  Good(activation[u].restore)'
    <3>1. Good(activation[u].restore) /\ activation'[u] = activation[u]
      BY <1>1, <2>1 DEF Undisturbed
    <3>2. QED
      BY <3>1 DEF Carries, Good
  <2>2. QED
    BY <2>1 DEF Carries
<1>5. QED
  BY <1>2, <1>3, <1>4 DEF Undisturbed, Carries

-----------------------------------------------------------------------------
(* What a step leaves of the rows.                                         *)

\* A version once in effect has been in effect for good, and none is proposed beside another.
LEMMA VersionsLast ==
  ASSUME RowsInv, OneProposal, NEW t \in Threads, ArtifactStep(t)
  PROVE  /\ \A a \in Artifacts : artifact[a].effective => artifact'[a].effective
         /\ OneProposal'
<1> USE DEF RowsInv, ArtifactInv
<1>1. CASE \E p \in People : RequestArtifact(t, p)
  <2>1. PICK a \in Artifacts :
          /\ Versions({"pending", "materializing"}) = {}
          /\ \E p \in People : artifact' = [artifact EXCEPT ![a].status = "pending", ![a].by = p]
    BY <1>1 DEF RequestArtifact
  <2>2. /\ artifact'[a].effective = artifact[a].effective
        /\ \A b \in Artifacts \ {a} : artifact'[b] = artifact[b]
    BY <2>1 DEF ArtifactShape, ArtifactRow
  <2>3. \A b \in Artifacts : artifact[b].status \notin {"pending", "materializing"}
    BY <2>1 DEF Versions
  <2>4. QED
    BY <2>2, <2>3 DEF OneProposal
<1>2. ASSUME \A a \in Artifacts :
               /\ artifact[a].effective => artifact'[a].effective
               /\ artifact'[a].status \in {"pending", "materializing"}
                    => artifact[a].status \in {"pending", "materializing"}
      PROVE  /\ \A a \in Artifacts : artifact[a].effective => artifact'[a].effective
             /\ OneProposal'
  BY <1>2 DEF OneProposal
<1>3. CASE \E p \in People, a \in Artifacts : RejectArtifact(t, a, p)
  <2>1. PICK p \in People, a \in Artifacts :
          artifact' = [artifact EXCEPT ![a].status = "rejected", ![a].decider = p]
    BY <1>3 DEF RejectArtifact
  <2>2. /\ artifact'[a].effective = artifact[a].effective /\ artifact'[a].status = "rejected"
        /\ \A b \in Artifacts \ {a} : artifact'[b] = artifact[b]
    BY <2>1 DEF ArtifactShape, ArtifactRow
  <2>3. QED
    BY <1>2, <2>2
<1>4. CASE Complete(t) \/ Unheard(t)
  <2>1. activation[t].artifact \in Artifacts /\ artifact' = Activated(activation[t].artifact)
    BY <1>4 DEF Complete, Unheard, CompleteFails, ActivationShape, Activating
  <2>2. \A a \in Artifacts :
          /\ artifact[a].effective => artifact'[a].effective
          /\ artifact'[a].status \in {"active", "superseded"} \/ artifact'[a] = artifact[a]
    BY <2>1 DEF Activated, ArtifactShape, ArtifactRow
  <2>3. QED
    BY <1>2, <2>2
<1>5. CASE Preparing(t)
  <2>1. \A a \in Artifacts : Undecided(a)
    BY <1>5, PreparingIsUndecided
  <2>2. QED
    BY <1>2, <2>1 DEF Undecided
<1>6. QED
  <2>1. CompleteFails(t) => Unheard(t) \/ Preparing(t)
    BY DEF Preparing, Unheard, CompleteFails
  <2>2. \/ \E p \in People : RequestArtifact(t, p)
        \/ \E p \in People, a \in Artifacts : RejectArtifact(t, a, p)
        \/ Complete(t) \/ Unheard(t) \/ Preparing(t)
    BY <2>1 DEF ArtifactStep, Preparing
  <2>3. QED
    BY <1>1, <1>3, <1>4, <1>5, <2>2

LEMMA GoodLasts ==
  ASSUME \A a \in Artifacts : artifact[a].effective => artifact'[a].effective
  PROVE  \A version : Good(version) => Good(version)'
BY DEF Good

-----------------------------------------------------------------------------
(* The steps of an approval, one by one.                                   *)

\* What a process serves is answered for as before, where nothing is put in its place.
LEMMA SameServed ==
  ASSUME Undisturbed, NEW t \in Threads, OthersStay(t), home' = home, runtime' = runtime,
         \A u \in Threads \ {t} : activation'[u] = activation[u],
         \A version : Good(version) => Good(version)',
         \A p \in Processes : Answers(t, p) => Answers(t, p)' \/ Good(runtime[p])'
  PROVE  \A p \in Processes : Good(runtime[p])' \/ \E u \in Threads : Answers(u, p)'
<1> SUFFICES ASSUME NEW p \in Processes
             PROVE  Good(runtime[p])' \/ \E u \in Threads : Answers(u, p)'
  OBVIOUS
<1>1. CASE Good(runtime[p])
  BY <1>1 DEF Good
<1>2. CASE \E u \in Threads : Answers(u, p)
  <2>1. PICK u \in Threads : Answers(u, p)
    BY <1>2
  <2>2. u # t => Answers(u, p)'
    BY <2>1 DEF Answers, OthersStay, Stage
  <2>3. QED
    BY <2>1, <2>2
<1>3. QED
  BY <1>1, <1>2 DEF Undisturbed

\* Requests and rejections touch no row that is claimed.
LEMMA AskingCarries ==
  ASSUME RowsInv, Serving, Undisturbed, NEW t \in Threads,
         \A version : Good(version) => Good(version)',
         \/ \E p \in People : RequestArtifact(t, p)
         \/ \E p \in People, a \in Artifacts : RejectArtifact(t, a, p)
  PROVE  Carries(t)
<1> USE DEF RowsInv, ArtifactInv
<1>1. PICK record : ToRecord(t, record) /\ Stage(t) = "idle"
  BY DEF RequestArtifact, RejectArtifact, Begin
<1>2. OthersStay(t) /\ Stage(t)' = "append"
  BY <1>1 DEF ToRecord, OthersStay, CallShape, Stage
<1>3. home' = home /\ runtime' = runtime /\ activation' = activation
  BY DEF RequestArtifact, RejectArtifact
<1>4. \A a \in Artifacts : artifact[a].status = "materializing" => artifact'[a] = artifact[a]
  <2>1. CASE \E p \in People : RequestArtifact(t, p)
    BY <2>1 DEF RequestArtifact, ArtifactShape
  <2>2. CASE \E p \in People, a \in Artifacts : RejectArtifact(t, a, p)
    BY <2>2 DEF RejectArtifact, ArtifactShape
  <2>3. QED
    BY <2>1, <2>2
<1>5. \A u \in Threads \ {t} : Works(u) /\ Owns(u) => Holds(u)'
  BY <1>3, <1>4 DEF Works, Owns, Holds, ActivationShape
<1>6. \A p \in Processes : Good(runtime[p])' \/ \E u \in Threads : Answers(u, p)'
  BY <1>1, <1>2, <1>3, SameServed DEF Answers
<1>7. QED
  BY <1>2, <1>3, <1>5, <1>6 DEF Carries, Works, Activating

\* A claim that disturbs nobody is on a row nobody works on.
LEMMA ClaimCarries ==
  ASSUME RowsInv, Serving, Undisturbed, NEW t \in Threads, NEW a \in Artifacts, NEW p \in People,
         \A version : Good(version) => Good(version)', ClaimActivation(t, a, p), ~disturbed'
  PROVE  Carries(t)
<1> USE DEF RowsInv, ArtifactInv
<1>1. /\ OthersStay(t) /\ Stage(t)' = "claimed" /\ Stage(t) = "idle"
      /\ home' = home /\ runtime' = runtime
  BY DEF ClaimActivation, GotoStage, Begin, OthersStay, CallShape, Stage
<1>2. \A u \in Threads : activation[u].artifact # a
  BY DEF ClaimActivation
<1>3. /\ activation'[t].artifact = a /\ activation'[t].who = p
      /\ \A u \in Threads \ {t} : activation'[u] = activation[u]
  BY DEF ClaimActivation, ActivationShape, Activation
<1>4. /\ artifact'[a].status = "materializing" /\ artifact'[a].decider = p
      /\ \A b \in Artifacts \ {a} : artifact'[b] = artifact[b]
  BY DEF ClaimActivation, ArtifactShape, ArtifactRow
<1>5. Holds(t)'
  BY <1>3, <1>4 DEF Holds, Owns
<1>6. \A u \in Threads \ {t} : Works(u) /\ Owns(u) => Holds(u)'
  BY <1>2, <1>3, <1>4 DEF Works, Owns, Holds, ActivationShape
<1>7. \A q \in Processes : Good(runtime[q])' \/ \E u \in Threads : Answers(u, q)'
  BY <1>1, <1>3, SameServed DEF Answers
<1>8. QED
  BY <1>1, <1>2, <1>3, <1>5, <1>6, <1>7 DEF Carries

\* The version a rollback would restore is good: what else could be served is under work by
\* another thread, which has its claim, and there is one claim.
LEMMA SnapshotIsGood ==
  ASSUME RowsInv, OneProposal, Serving, Undisturbed, NEW t \in Threads, Stage(t) = "claimed"
  PROVE  Good(ActiveOr(Served(home[t])))
<1> USE DEF RowsInv, ArtifactInv
<1>1. CASE Versions({"active"}) # {}
  <2>1. ActiveOr(Served(home[t])) \in Versions({"active"})
    BY <1>1 DEF ActiveOr
  <2>2. QED
    BY <2>1 DEF Versions, ArtifactSettled, Good
<1>2. CASE Versions({"active"}) = {}
  <2>1. ActiveOr(Served(home[t])) = runtime[home[t]] /\ home[t] \in Processes
    BY <1>2 DEF ActiveOr, Served, Serving
  <2>2. SUFFICES ASSUME NEW u \in Threads, Answers(u, home[t])
                 PROVE  Good(runtime[home[t]])
    BY <2>1 DEF Undisturbed
  <2>3. /\ Works(t) /\ Works(u) /\ u # t
        /\ activation[t].artifact \in Artifacts /\ activation[u].artifact \in Artifacts
    BY <2>2 DEF Answers, Works, Activating, ActivationShape
  <2>4. Owns(t)
    BY <2>3 DEF Undisturbed, Holds
  <2>5. CASE Owns(u)
    BY <2>3, <2>4, <2>5 DEF Owns, OneProposal, Undisturbed
  <2>6. CASE ~Owns(u)
    BY <2>2, <2>3, <2>6 DEF Undisturbed, Holds, Answers
  <2>7. QED
    BY <2>5, <2>6
<1>3. QED
  BY <1>1, <1>2

LEMMA SnapshotCarries ==
  ASSUME RowsInv, OneProposal, Serving, Undisturbed, NEW t \in Threads, Snapshot(t)
  PROVE  Carries(t)
<1> USE DEF RowsInv, ArtifactInv
<1> DEFINE restore == ActiveOr(Served(home[t]))
<1>1. /\ OthersStay(t) /\ Stage(t)' = "snapshotted" /\ Stage(t) = "claimed"
      /\ home' = home /\ runtime' = runtime /\ artifact' = artifact
  BY DEF Snapshot, GotoStage, OthersStay, CallShape, Stage
<1>2. Good(restore)
  BY <1>1, SnapshotIsGood
<1> HIDE DEF restore
<1>3. /\ activation'[t].artifact = activation[t].artifact /\ activation'[t].who = activation[t].who
      /\ activation'[t].restore = restore
      /\ \A u \in Threads \ {t} : activation'[u] = activation[u]
  BY DEF Snapshot, ActivationShape, Activation, restore
<1>4. Good(activation[t].restore)' /\ \A version : Good(version) => Good(version)'
  BY <1>1, <1>2, <1>3 DEF Good
<1>5. Works(t) /\ Owns(t)
  BY <1>1 DEF Undisturbed, Holds, Works, Activating
<1>6. Holds(t)' /\ \A u \in Threads \ {t} : Owns(u) => Holds(u)'
  BY <1>1, <1>3, <1>5 DEF Holds, Owns
<1>7. \A q \in Processes : Good(runtime[q])' \/ \E u \in Threads : Answers(u, q)'
  BY <1>1, <1>3, <1>4, SameServed DEF Answers
<1>8. QED
  BY <1>1, <1>3, <1>4, <1>5, <1>6, <1>7 DEF Carries, Undisturbed

LEMMA MaterializeCarries ==
  ASSUME RowsInv, Serving, Undisturbed, NEW t \in Threads, Materialize(t)
  PROVE  Carries(t)
<1> USE DEF RowsInv, ArtifactInv
<1>1. /\ OthersStay(t) /\ Stage(t)' = "applied" /\ Stage(t) = "snapshotted"
      /\ home' = home /\ activation' = activation /\ artifact' = artifact
  BY DEF Materialize, GotoStage, OthersStay, CallShape, Stage
<1>2. Works(t) /\ Owns(t) /\ Good(activation[t].restore)
  BY <1>1 DEF Undisturbed, Holds, Works, Activating
<1>3. /\ \A version : Good(version) => Good(version)'
      /\ Good(activation[t].restore)'
  BY <1>1, <1>2 DEF Good
<1>4. /\ runtime'[home[t]] = activation[t].artifact
      /\ \A q \in Processes \ {home[t]} : runtime'[q] = runtime[q]
  BY DEF Materialize, Serve, Serving
<1>5. \A q \in Processes : Good(runtime[q])' \/ \E u \in Threads : Answers(u, q)'
  <2>1. SUFFICES ASSUME NEW q \in Processes
                 PROVE  Good(runtime[q])' \/ \E u \in Threads : Answers(u, q)'
    OBVIOUS
  <2>2. CASE q = home[t]
    BY <1>1, <1>4, <2>2 DEF Answers
  <2>3. CASE q # home[t] /\ Good(runtime[q])
    BY <1>3, <1>4, <2>3 DEF Good
  <2>4. CASE q # home[t] /\ \E u \in Threads : Answers(u, q)
    <3>1. PICK u \in Threads : Answers(u, q)
      BY <2>4
    <3>2. Answers(u, q)'
      BY <1>1, <1>4, <2>4, <3>1 DEF Answers, OthersStay, Stage
    <3>3. QED
      BY <3>2
  <2>5. QED
    BY <2>2, <2>3, <2>4 DEF Undisturbed
<1>6. Holds(t)' /\ \A u \in Threads \ {t} : Owns(u) => Holds(u)'
  BY <1>1, <1>2 DEF Holds, Owns
<1>7. QED
  BY <1>1, <1>2, <1>3, <1>5, <1>6 DEF Carries, Undisturbed

\* A materialization that is refused, and a completion that fails without a commit, leave
\* the claim where it was.
LEMMA FailureCarries ==
  ASSUME RowsInv, Serving, Undisturbed, NEW t \in Threads,
         MaterializeFails(t) \/ (CompleteFails(t) /\ UNCHANGED <<artifact, lost>>)
  PROVE  Carries(t)
<1> USE DEF RowsInv, ArtifactInv
<1>1. /\ OthersStay(t) /\ home' = home /\ UNCHANGED <<artifact, runtime, activation>>
      /\ \/ Stage(t) = "snapshotted" /\ Stage(t)' = "abandon"
         \/ Stage(t) = "applied" /\ Stage(t)' = "undo"
  BY DEF MaterializeFails, CompleteFails, GotoStage, OthersStay, CallShape, Stage, artifactVars
<1>2. Works(t) /\ Owns(t) /\ Good(activation[t].restore)
  BY <1>1 DEF Undisturbed, Holds, Works, Activating
<1>3. \A version : Good(version) => Good(version)'
  BY <1>1 DEF Good
<1>4. \A q \in Processes : Good(runtime[q])' \/ \E u \in Threads : Answers(u, q)'
  BY <1>1, <1>3, SameServed DEF Answers
<1>5. Holds(t)' /\ \A u \in Threads \ {t} : Owns(u) => Holds(u)'
  BY <1>1, <1>2 DEF Holds, Owns
<1>6. Good(activation[t].restore)'
  BY <1>1, <1>2 DEF Good
<1>7. QED
  BY <1>1, <1>2, <1>3, <1>4, <1>5, <1>6 DEF Carries, Undisturbed

\* A completion makes good what its process serves, whether or not the thread is told.
LEMMA CompletionCarries ==
  ASSUME RowsInv, Serving, Undisturbed, NEW t \in Threads, Complete(t) \/ Unheard(t),
         \A version : Good(version) => Good(version)'
  PROVE  Carries(t)
<1> USE DEF RowsInv, ArtifactInv
<1> DEFINE a == activation[t].artifact
<1>1. /\ Stage(t) = "applied" /\ Owns(t) /\ artifact' = Activated(a)
      /\ home' = home /\ runtime' = runtime
  BY DEF Complete, Unheard, CompleteFails
<1>2. a \in Artifacts /\ Works(t)
  BY <1>1 DEF ActivationShape, Activating, Works
<1>3. /\ OthersStay(t)
      /\ \A u \in Threads \ {t} : activation'[u] = activation[u]
  <2>1. CASE Complete(t)
    BY <2>1 DEF Complete, ToRecord, OthersStay, CallShape, ActivationShape
  <2>2. CASE Unheard(t)
    BY <2>2 DEF Unheard, CompleteFails, GotoStage, OthersStay, CallShape
  <2>3. QED
    BY <2>1, <2>2
<1>4. /\ artifact'[a].effective = TRUE
      /\ \A b \in Artifacts \ {a} : artifact[b].status # "active" => artifact'[b] = artifact[b]
  BY <1>1, <1>2 DEF Activated, ArtifactShape, ArtifactRow
<1>5. ASSUME NEW version, version = a
      PROVE  version = BuiltIn \/ (version \in Artifacts /\ artifact'[version].effective)
  BY <1>2, <1>4, <1>5
<1>6. \A u \in Threads \ {t} : Works(u) /\ Owns(u) => Holds(u)'
  <2>1. \A u \in Threads \ {t} : Works(u) => activation[u].artifact \in Artifacts \ {a}
    BY <1>2 DEF Works, ActivationShape, Undisturbed
  <2>2. QED
    BY <1>3, <1>4, <2>1 DEF Owns, Holds
<1>7. \A q \in Processes : Answers(t, q) => Good(runtime[q])'
  <2>1. \A q \in Processes : Answers(t, q) => runtime'[q] = a
    BY <1>1 DEF Answers
  <2>2. QED
    BY <1>5, <2>1 DEF Good
<1>8. \A q \in Processes : Good(runtime[q])' \/ \E u \in Threads : Answers(u, q)'
  BY <1>1, <1>3, <1>7, SameServed
<1>9. CASE Complete(t)
  <2>1. Stage(t)' = "append"
    BY <1>9 DEF Complete, ToRecord, CallShape, Stage
  <2>2. QED
    BY <1>1, <1>3, <1>6, <1>8, <2>1 DEF Carries, Works, Activating
<1>10. CASE Unheard(t)
  <2>1. Stage(t)' = "undo" /\ activation' = activation
    BY <1>10 DEF Unheard, CompleteFails, GotoStage, CallShape, Stage
  <2>2. Holds(t)'
    BY <1>2, <1>4, <2>1 DEF Holds, Good
  <2>3. Good(activation[t].restore)'
    <3>1. Good(activation[t].restore)
      BY <1>1 DEF Undisturbed
    <3>2. QED
      BY <2>1, <3>1 DEF Good
  <2>4. QED
    BY <1>1, <1>2, <1>3, <1>6, <1>8, <2>1, <2>2, <2>3 DEF Carries, Undisturbed
<1>11. QED
  BY <1>9, <1>10

\* A rollback puts back what was good when it was taken, and is good still.
LEMMA UndoCarries ==
  ASSUME RowsInv, Serving, Undisturbed, NEW t \in Threads, Undo(t)
  PROVE  Carries(t)
<1> USE DEF RowsInv, ArtifactInv
<1>1. /\ OthersStay(t) /\ Stage(t)' = "abandon" /\ Stage(t) = "undo"
      /\ home' = home /\ activation' = activation /\ artifact' = artifact
  BY DEF Undo, GotoStage, OthersStay, CallShape, Stage
<1>2. Works(t) /\ Holds(t) /\ Good(activation[t].restore)
  BY <1>1 DEF Undisturbed, Works, Activating
<1>3. \A version : Good(version) => Good(version)'
  BY <1>1 DEF Good
<1>4. /\ runtime'[home[t]] = activation[t].restore
      /\ \A q \in Processes \ {home[t]} : runtime'[q] = runtime[q]
  BY DEF Undo, Rollback, Serve, Serving
<1>5. \A q \in Processes : Good(runtime[q])' \/ \E u \in Threads : Answers(u, q)'
  <2>1. SUFFICES ASSUME NEW q \in Processes
                 PROVE  Good(runtime[q])' \/ \E u \in Threads : Answers(u, q)'
    OBVIOUS
  <2>2. CASE q = home[t]
    BY <1>1, <1>2, <1>4, <2>2 DEF Good
  <2>3. CASE q # home[t] /\ Good(runtime[q])
    BY <1>1, <1>4, <2>3 DEF Good
  <2>4. CASE q # home[t] /\ \E u \in Threads : Answers(u, q)
    <3>1. PICK u \in Threads : Answers(u, q)
      BY <2>4
    <3>2. u # t
      BY <2>4, <3>1 DEF Answers
    <3>3. Answers(u, q)'
      BY <1>1, <1>4, <2>4, <3>1, <3>2 DEF Answers, OthersStay, Stage
    <3>4. QED
      BY <3>3
  <2>5. QED
    BY <2>2, <2>3, <2>4 DEF Undisturbed
<1>6. Holds(t)' /\ \A u \in Threads \ {t} : Owns(u) => Holds(u)'
  BY <1>1, <1>2 DEF Holds, Owns, Good
<1>7. QED
  BY <1>1, <1>2, <1>3, <1>5, <1>6 DEF Carries, Undisturbed

\* A claim is given up by the thread that holds it, after what it served is gone.
LEMMA EndCarries ==
  ASSUME RowsInv, Serving, Undisturbed, NEW t \in Threads, Abandon(t) \/ ActivationRaises(t),
         \A version : Good(version) => Good(version)'
  PROVE  Carries(t)
<1> USE DEF RowsInv, ArtifactInv
<1>1. /\ OthersStay(t) /\ Stage(t)' = "idle" /\ Stage(t) \in {"claimed", "abandon"}
      /\ home' = home /\ runtime' = runtime
      /\ \A u \in Threads \ {t} : activation'[u] = activation[u]
  <2>1. /\ Finished(t) /\ Stage(t) \in {"claimed", "abandon"}
        /\ home' = home /\ runtime' = runtime
    BY DEF Abandon, ActivationRaises
  <2>2. OthersStay(t) /\ Stage(t)' = "idle"
    BY <2>1 DEF Finished, Idle, OthersStay, CallShape, Stage
  <2>3. \A u \in Threads \ {t} : activation'[u] = activation[u]
    BY <2>1 DEF Finished, ActivationShape
  <2>4. QED
    BY <2>1, <2>2, <2>3
<1>2. Works(t) /\ activation[t].artifact \in Artifacts
  BY <1>1 DEF Works, Activating, ActivationShape
<1>3. \A b \in Artifacts \ {activation[t].artifact} : artifact'[b] = artifact[b]
  <2>1. CASE artifact' = artifact
    BY <2>1
  <2>2. CASE Abandon(t) /\ Owns(t)
    BY <1>2, <2>2 DEF Abandon, ArtifactShape
  <2>3. QED
    BY <2>1, <2>2 DEF Abandon, ActivationRaises
<1>4. \A u \in Threads \ {t} : Works(u) /\ Owns(u) => Holds(u)'
  <2>1. \A u \in Threads \ {t} : Works(u) =>
          activation[u].artifact \in Artifacts \ {activation[t].artifact}
    BY <1>2 DEF Works, ActivationShape, Undisturbed
  <2>2. QED
    BY <1>1, <1>3, <2>1 DEF Owns, Holds
<1>5. \A q \in Processes : Good(runtime[q])' \/ \E u \in Threads : Answers(u, q)'
  BY <1>1, SameServed DEF Answers
<1>6. QED
  BY <1>1, <1>4, <1>5 DEF Carries, Works, Activating

-----------------------------------------------------------------------------
(* All steps together.                                                     *)

LEMMA ActiveIsAVersion ==
  ASSUME NEW other \in Artifacts \cup {BuiltIn}
  PROVE  ActiveOr(other) \in Artifacts \cup {BuiltIn}
<1>1. CASE Versions({"active"}) = {}
  BY <1>1 DEF ActiveOr
<1>2. CASE Versions({"active"}) # {}
  <2>1. ActiveOr(other) \in Versions({"active"})
    BY <1>2 DEF ActiveOr
  <2>2. QED
    BY <2>1 DEF Versions
<1>3. QED
  BY <1>1, <1>2

LEMMA ServingLasts ==
  ASSUME RowsInv, Serving, NEW t \in Threads, ArtifactStep(t)
  PROVE  Serving'
<1> USE DEF RowsInv, ArtifactInv
<1> DEFINE Known == Artifacts \cup {BuiltIn}
<1>1. CASE \/ \E p \in People : RequestArtifact(t, p)
           \/ \E p \in People, a \in Artifacts : RejectArtifact(t, a, p)
  <2>1. PICK record : ToRecord(t, record) /\ Stage(t) = "idle"
    BY <1>1 DEF RequestArtifact, RejectArtifact, Begin
  <2>2. UNCHANGED <<home, runtime, activation>>
    BY <1>1 DEF RequestArtifact, RejectArtifact
  <2>3. Stage(t)' = "append" /\ \A u \in Threads \ {t} : Stage(u)' = Stage(u)
    BY <2>1 DEF ToRecord, CallShape, Stage
  <2>4. QED
    BY <2>1, <2>2, <2>3 DEF Serving, Activating
<1>2. CASE \E p \in People, a \in Artifacts : ClaimActivation(t, a, p)
  <2>1. UNCHANGED <<home, runtime>> /\ Stage(t)' = "claimed"
        /\ \A u \in Threads \ {t} : Stage(u)' = Stage(u) /\ activation'[u] = activation[u]
    BY <1>2 DEF ClaimActivation, GotoStage, CallShape, Stage, ActivationShape
  <2>2. activation'[t].restore = BuiltIn
    BY <1>2 DEF ClaimActivation, ActivationShape, Activation
  <2>3. QED
    BY <2>1, <2>2 DEF Serving, Activating
<1>3. CASE Snapshot(t)
  <2>1. UNCHANGED <<home, runtime>> /\ Stage(t)' = "snapshotted"
        /\ \A u \in Threads \ {t} : Stage(u)' = Stage(u) /\ activation'[u] = activation[u]
    BY <1>3 DEF Snapshot, GotoStage, CallShape, Stage, ActivationShape
  <2>2. activation'[t].restore = ActiveOr(Served(home[t]))
    BY <1>3 DEF Snapshot, ActivationShape, Activation
  <2>3. activation'[t].restore \in Known
    BY <2>2, ActiveIsAVersion DEF Served, Serving
  <2>4. QED
    BY <2>1, <2>3 DEF Serving, Activating
<1>4. CASE Materialize(t) \/ MaterializeFails(t) \/ LoseClaim(t) \/ CompleteFails(t) \/ Undo(t)
  <2>1. /\ home' = home /\ activation' = activation /\ Stage(t) \in Activating
        /\ \E stage \in Activating : GotoStage(t, stage)
    BY <1>4 DEF Materialize, MaterializeFails, LoseClaim, CompleteFails, Undo, artifactVars, Activating
  <2>2. Stage(t)' \in Activating /\ \A u \in Threads \ {t} : Stage(u)' = Stage(u)
    BY <2>1 DEF GotoStage, CallShape, Stage
  <2>3. runtime' = runtime \/ \E version \in Known : runtime' = Serve(home[t], version)
    BY <1>4, <2>1 DEF Materialize, MaterializeFails, LoseClaim, CompleteFails, Undo, artifactVars,
       Rollback, Serving, ActivationShape
  <2>4. runtime' \in [Processes -> Known]
    BY <2>3 DEF Serving, Serve
  <2>5. QED
    BY <2>1, <2>2, <2>4 DEF Serving
<1>5. CASE Complete(t) \/ UndoFails(t) \/ Abandon(t) \/ ActivationRaises(t)
  <2>1. /\ UNCHANGED <<home, runtime>>
        /\ activation' = [activation EXCEPT ![t] = NoActivation]
        /\ (\E record : ToRecord(t, record)) \/ call' = [call EXCEPT ![t] = Idle]
    BY <1>5 DEF Complete, UndoFails, Abandon, ActivationRaises, Finished
  <2>2. Stage(t)' \in {"append", "idle"} /\ \A u \in Threads \ {t} : Stage(u)' = Stage(u)
    BY <2>1 DEF ToRecord, Idle, CallShape, Stage
  <2>3. /\ activation'[t].artifact = 0
        /\ \A u \in Threads \ {t} : activation'[u] = activation[u]
    BY <2>1 DEF ActivationShape, NoActivation, Activation
  <2>4. QED
    BY <2>1, <2>2, <2>3 DEF Serving, Activating
<1>6. QED
  BY <1>1, <1>2, <1>3, <1>4, <1>5 DEF ArtifactStep

LEMMA ArtifactServes ==
  ASSUME RowsInv, ServeInv, NEW t \in Threads, ArtifactStep(t)
  PROVE  ServeInv'
<1>1. /\ \A version : Good(version) => Good(version)'
      /\ OneProposal'
  BY VersionsLast, GoodLasts DEF ServeInv
<1>2. Serving'
  BY ServingLasts DEF ServeInv
<1>3. ASSUME ~disturbed'
      PROVE  Undisturbed'
  <2>1. ~disturbed
    BY <1>3 DEF ArtifactStep, RequestArtifact, RejectArtifact, ClaimActivation, Snapshot,
       Materialize, MaterializeFails, Complete, LoseClaim, CompleteFails, Undo, UndoFails,
       Abandon, ActivationRaises, artifactVars
  <2>2. Undisturbed /\ OneProposal /\ Serving
    BY <2>1 DEF ServeInv
  <2>3. ~LoseClaim(t)
    BY <2>2 DEF LoseClaim, Undisturbed, Holds, Works, Activating
  <2>4. ~UndoFails(t)
    BY <1>3 DEF UndoFails
  <2>5. CompleteFails(t) => Unheard(t) \/ (CompleteFails(t) /\ UNCHANGED <<artifact, lost>>)
    BY DEF Unheard, CompleteFails
  <2>6. \/ \E p \in People : RequestArtifact(t, p)
        \/ \E p \in People, a \in Artifacts : RejectArtifact(t, a, p)
        \/ \E p \in People, a \in Artifacts : ClaimActivation(t, a, p)
        \/ Snapshot(t) \/ Materialize(t) \/ MaterializeFails(t)
        \/ Complete(t) \/ Unheard(t) \/ (CompleteFails(t) /\ UNCHANGED <<artifact, lost>>)
        \/ Undo(t) \/ Abandon(t) \/ ActivationRaises(t)
    BY <2>3, <2>4, <2>5 DEF ArtifactStep
  <2>7. CASE \/ \E p \in People : RequestArtifact(t, p)
             \/ \E p \in People, a \in Artifacts : RejectArtifact(t, a, p)
    BY <1>1, <2>2, <2>7, AskingCarries, CarriedOn
  <2>8. CASE \E p \in People, a \in Artifacts : ClaimActivation(t, a, p)
    BY <1>1, <1>3, <2>2, <2>8, ClaimCarries, CarriedOn
  <2>9. CASE Snapshot(t)
    BY <2>2, <2>9, SnapshotCarries, CarriedOn
  <2>10. CASE Materialize(t)
    BY <2>2, <2>10, MaterializeCarries, CarriedOn
  <2>11. CASE MaterializeFails(t) \/ (CompleteFails(t) /\ UNCHANGED <<artifact, lost>>)
    BY <2>2, <2>11, FailureCarries, CarriedOn
  <2>12. CASE Complete(t) \/ Unheard(t)
    BY <1>1, <2>2, <2>12, CompletionCarries, CarriedOn
  <2>13. CASE Undo(t)
    BY <2>2, <2>13, UndoCarries, CarriedOn
  <2>14. CASE Abandon(t) \/ ActivationRaises(t)
    BY <1>1, <2>2, <2>14, EndCarries, CarriedOn
  <2>15. QED
    BY <2>6, <2>7, <2>8, <2>9, <2>10, <2>11, <2>12, <2>13, <2>14
<1>4. QED
  BY <1>1, <1>2, <1>3 DEF ServeInv

\* The other services neither start nor end an approval.
WorkersStay == \A u \in Threads : Works(u) \/ Works(u)' => Stage(u)' = Stage(u)

LEMMA OthersLeaveWorkers ==
  ASSUME CallShape, NEW t \in Threads, ControlStep(t) \/ LedgerStep(t) \/ OutcomeStep(t)
  PROVE  WorkersStay /\ home' = home
<1>1. Stage(t) \notin Activating /\ home' = home
  BY DEF ControlStep, Request, Decide, EmergencyDisable, LedgerStep, ReadHead, Insert, AppendFails,
     OutcomeStep, LookUp, RecordOutcome, RefuseOutcome, Begin, Activating
<1>2. OthersStay(t)
  <2>1. CASE ControlStep(t)
    BY <2>1 DEF ControlStep, Request, Decide, EmergencyDisable, ToRecord, OthersStay, CallShape
  <2>2. CASE LedgerStep(t)
    BY <2>2 DEF LedgerStep, ReadHead, Insert, AppendFails, Drop, OthersStay, CallShape
  <2>3. CASE OutcomeStep(t)
    BY <2>3 DEF OutcomeStep, LookUp, RecordOutcome, RefuseOutcome, ToRecord, OthersStay, CallShape
  <2>4. QED
    BY <2>1, <2>2, <2>3
<1>3. NobodyActivates
  BY ControlElsewhereInCalls, LedgerElsewhereInCalls, OutcomeElsewhereInCalls
<1>4. QED
  BY <1>1, <1>2, <1>3 DEF WorkersStay, Works, NobodyActivates, OthersStay, Stage

LEMMA ElsewhereServes ==
  ASSUME ServeInv, WorkersStay, home' = home, UNCHANGED artifactVars
  PROVE  ServeInv'
<1>1. /\ artifact' = artifact /\ runtime' = runtime
      /\ activation' = activation /\ disturbed' = disturbed
  BY DEF artifactVars
<1>2. \A u \in Threads :
        /\ Works(u)' <=> Works(u)
        /\ Works(u) => Stage(u)' = Stage(u)
  BY DEF WorkersStay, Works
<1>3. OneProposal' /\ Serving'
  BY <1>1, <1>2 DEF ServeInv, OneProposal, Serving, Works
<1>4. ASSUME Undisturbed
      PROVE  Undisturbed'
  <2>1. \A u \in Threads : Holds(u) /\ Works(u) => Holds(u)'
    BY <1>1, <1>2 DEF Holds, Owns, Good
  <2>2. \A u \in Threads, p \in Processes : Answers(u, p) => Answers(u, p)'
    BY <1>1, <1>2 DEF Answers, Works, Activating
  <2>3. \A u \in Threads : Stage(u)' \in {"snapshotted", "applied", "undo"} => Stage(u)' = Stage(u)
    BY <1>2 DEF Works, Activating
  <2>4. \A version : Good(version) => Good(version)'
    BY <1>1 DEF Good
  <2>5. \A p \in Processes : Good(runtime[p])' \/ \E u \in Threads : Answers(u, p)'
    BY <1>1, <1>4, <2>2, <2>4 DEF Undisturbed, Good
  <2>6. QED
    BY <1>1, <1>2, <1>4, <2>1, <2>3, <2>5 DEF Undisturbed, Good
<1>5. QED
  BY <1>1, <1>3, <1>4 DEF ServeInv

LEMMA ElapseServes ==
  ASSUME RowsInv, ServeInv, NEW a \in Artifacts, Elapse(a)
  PROVE  ServeInv'
<1>1. /\ call' = call /\ home' = home /\ runtime' = runtime
      /\ activation' = activation /\ disturbed' = disturbed
  BY DEF Elapse, ledgerVars
<1>2. \A b \in Artifacts :
        /\ artifact'[b].status = artifact[b].status /\ artifact'[b].decider = artifact[b].decider
        /\ artifact'[b].effective = artifact[b].effective
  BY DEF Elapse, RowsInv, ArtifactInv, ArtifactShape, ArtifactRow
<1>3. \A u \in Threads :
        /\ Stage(u)' = Stage(u)
        /\ Works(u)' <=> Works(u)
        /\ Works(u) => activation[u].artifact \in Artifacts
  BY <1>1 DEF Stage, Works, RowsInv, ArtifactInv, ActivationShape
<1>4. OneProposal' /\ Serving'
  BY <1>1, <1>2, <1>3 DEF ServeInv, OneProposal, Serving
<1>5. ASSUME Undisturbed
      PROVE  Undisturbed'
  <2>1. \A version : Good(version) => Good(version)'
    BY <1>2 DEF Good
  <2>2. \A u \in Threads : Works(u) /\ Holds(u) => Holds(u)'
    BY <1>1, <1>2, <1>3 DEF Holds, Owns, Good
  <2>3. \A p \in Processes : Good(runtime[p])' \/ \E u \in Threads : Answers(u, p)'
    BY <1>1, <1>3, <1>5, <2>1 DEF Undisturbed, Good, Answers
  <2>4. QED
    BY <1>1, <1>3, <1>5, <2>1, <2>2, <2>3 DEF Undisturbed, Good
<1>6. QED
  BY <1>1, <1>4, <1>5 DEF ServeInv

\* A process that comes back serves the active version, or the built-in one.
LEMMA RestartServes ==
  ASSUME RowsInv, ServeInv, NEW p \in Processes, Restart(p)
  PROVE  ServeInv'
<1>1. /\ UNCHANGED <<home, artifact, disturbed>>
      /\ \A u \in Threads : IF home[u] = p
                            THEN Stage(u)' = "idle" /\ activation'[u] = NoActivation
                            ELSE Stage(u)' = Stage(u) /\ activation'[u] = activation[u]
  BY DEF Restart, Drop, Idle, Stage
<1>2. /\ runtime'[p] = ActiveOr(BuiltIn)
      /\ \A q \in Processes \ {p} : runtime'[q] = runtime[q]
      /\ ActiveOr(BuiltIn) \in Artifacts \cup {BuiltIn}
  BY ActiveIsAVersion DEF Restart, Serve, ServeInv, Serving
<1>3. OneProposal'
  BY <1>1 DEF ServeInv, OneProposal
<1>4. Serving'
  <2>1. runtime' \in [Processes -> Artifacts \cup {BuiltIn}]
    BY <1>2 DEF Restart, Serve, ServeInv, Serving
  <2>2. QED
    BY <1>1, <2>1 DEF ServeInv, Serving, NoActivation, Activation, Activating
<1>5. Good(ActiveOr(BuiltIn))
  <2>1. CASE Versions({"active"}) = {}
    BY <2>1 DEF ActiveOr, Good
  <2>2. CASE Versions({"active"}) # {}
    <3>1. ActiveOr(BuiltIn) \in Versions({"active"})
      BY <2>2 DEF ActiveOr
    <3>2. QED
      BY <3>1 DEF Versions, RowsInv, ArtifactSettled, Good
  <2>3. QED
    BY <2>1, <2>2
<1>6. ASSUME Undisturbed
      PROVE  Undisturbed'
  <2>1. \A version : Good(version) => Good(version)'
    BY <1>1 DEF Good
  <2>2. \A u \in Threads : Works(u)' => home[u] # p /\ Works(u) /\ Stage(u)' = Stage(u)
                                       /\ activation'[u] = activation[u]
    BY <1>1 DEF Works, Activating
  <2>3. \A q \in Processes : Good(runtime[q])' \/ \E u \in Threads : Answers(u, q)'
    <3>1. SUFFICES ASSUME NEW q \in Processes
                   PROVE  Good(runtime[q])' \/ \E u \in Threads : Answers(u, q)'
      OBVIOUS
    <3>2. CASE q = p
      BY <1>1, <1>2, <1>5, <3>2 DEF Good
    <3>3. CASE q # p
      BY <1>1, <1>2, <1>6, <2>1, <3>3 DEF Undisturbed, Good, Answers
    <3>4. QED
      BY <3>2, <3>3
  <2>4. \A u \in Threads : Works(u)' => Holds(u)'
    BY <1>1, <1>6, <2>2 DEF Undisturbed, Holds, Owns, Good
  <2>5. \A u \in Threads : Stage(u)' \in {"snapshotted", "applied", "undo"} =>
          Good(activation[u].restore)'
    BY <1>6, <2>1, <2>2 DEF Undisturbed, Works, Activating, Good
  <2>6. QED
    BY <1>6, <2>2, <2>3, <2>4, <2>5 DEF Undisturbed
<1>7. QED
  BY <1>1, <1>3, <1>4, <1>6 DEF ServeInv

LEMMA ServeStarts == Init => ServeInv
<1> SUFFICES ASSUME Init
             PROVE  ServeInv
  OBVIOUS
<1>1. /\ artifact = [a \in Artifacts |-> NoArtifact]
      /\ runtime = [p \in Processes |-> BuiltIn]
      /\ activation = [t \in Threads |-> NoActivation]
      /\ home \in [Threads -> Processes]
      /\ \A t \in Threads : Stage(t) = "idle"
  BY DEF Init, LedgerInit, ArtifactInit, Idle, Stage
<1>2. OneProposal
  BY <1>1 DEF OneProposal, NoArtifact
<1>3. Serving
  BY <1>1 DEF Serving, NoActivation, Activation, Activating
<1>4. Undisturbed
  BY <1>1 DEF Undisturbed, Works, Activating, Good
<1>5. QED
  BY <1>2, <1>3, <1>4 DEF ServeInv

LEMMA ServeInductive ==
  ASSUME RowsInv, ServeInv, [Next]_vars
  PROVE  ServeInv'
<1> USE DEF RowsInv
<1>1. CASE Ledger \/ Control
  <2>1. WorkersStay /\ home' = home
    BY <1>1, OthersLeaveWorkers DEF Ledger, Control
  <2>2. UNCHANGED artifactVars
    BY <1>1 DEF Ledger, Control
  <2>3. QED
    BY <2>1, <2>2, ElsewhereServes
<1>2. CASE Outcome
  <2>1. UNCHANGED artifactVars
    BY <1>2 DEF Outcome
  <2>2. WorkersStay /\ home' = home
    <3>1. CASE EraseCustomer
      BY <3>1 DEF EraseCustomer, ledgerVars, WorkersStay, Stage
    <3>2. CASE \E t \in Threads : OutcomeStep(t)
      BY <3>2, OthersLeaveWorkers
    <3>3. QED
      BY <1>2, <3>1, <3>2 DEF Outcome
  <2>3. QED
    BY <2>1, <2>2, ElsewhereServes
<1>3. CASE Artifact
  BY <1>3, ArtifactServes, ElapseServes, RestartServes DEF Artifact
<1>4. CASE UNCHANGED vars
  <2>1. WorkersStay /\ home' = home /\ UNCHANGED artifactVars
    BY <1>4 DEF vars, ledgerVars, WorkersStay, Stage
  <2>2. QED
    BY <2>1, ElsewhereServes
<1>5. QED
  BY <1>1, <1>2, <1>3, <1>4 DEF Next

\* Wherever an approval fails, is claimed again or dies with its process, and however many
\* are at work in however many processes: a process none of whose threads is at work serves
\* the built-in catalogue or a version that two people stood behind, as long as no claim was
\* taken over from a live thread and no rollback raised (GovernedArtifactService.decide,
\* materialize_active).
THEOREM ApprovedIsServed == Spec => []ServesApproved
<1> DEFINE Inv == LedgerInv /\ ControlInv /\ RowsInv /\ ServeInv
<1>1. Init => Inv
  BY LedgerStarts, ControlStarts, RowsStart, ServeStarts
<1>2. Inv /\ [Next]_vars => Inv'
  BY LedgerInductive, ControlInductive, RowsInductive, ServeInductive
<1>3. Inv => ServesApproved
  <2>1. SUFFICES ASSUME ServeInv, ~disturbed, NEW p \in Processes,
                        \A t \in Threads : home[t] = p => Stage(t) \notin Activating
                 PROVE  runtime[p] = BuiltIn \/ artifact[runtime[p]].effective
    BY DEF ServesApproved
  <2>2. \A t \in Threads : ~Answers(t, p)
    BY <2>1 DEF Answers, Activating
  <2>3. QED
    BY <2>1, <2>2 DEF ServeInv, Undisturbed, Good
<1>4. QED
  BY <1>1, <1>2, <1>3, PTL DEF Spec

-----------------------------------------------------------------------------
(* The type of the state.                                                  *)

StagesKnown == \A t \in Threads : Stage(t) \in {"idle", "report", "append", "insert"} \cup Activating

LEMMA StagesStayKnown ==
  ASSUME CallShape, StagesKnown, [Next]_vars
  PROVE  StagesKnown'
<1> DEFINE Known == {"idle", "report", "append", "insert"} \cup Activating
<1>1. ASSUME NEW t \in Threads,
             \/ \E stage \in Known : \E record, head :
                  call' = [call EXCEPT ![t] = [stage |-> stage, record |-> record, head |-> head]]
             \/ \E stage \in Known : GotoStage(t, stage)
      PROVE  StagesKnown'
  <2>1. Stage(t)' \in Known /\ \A u \in Threads \ {t} : Stage(u)' = Stage(u)
    BY <1>1 DEF GotoStage, CallShape, Stage
  <2>2. QED
    BY <2>1 DEF StagesKnown
<1>2. ASSUME NEW threads, Drop(threads)
      PROVE  StagesKnown'
  BY <1>2 DEF Drop, Idle, StagesKnown, Stage
<1>3. CASE call' = call
  BY <1>3 DEF StagesKnown, Stage
<1>4. ASSUME NEW t \in Threads, (\E record : ToRecord(t, record)) \/ call' = [call EXCEPT ![t] = Idle]
      PROVE  StagesKnown'
  BY <1>1, <1>4 DEF ToRecord, Idle
<1>5. CASE Ledger
  <2>1. PICK t \in Threads : LedgerStep(t)
    BY <1>5 DEF Ledger
  <2>2. CASE ReadHead(t)
    BY <1>1, <2>2 DEF ReadHead
  <2>3. CASE Insert(t)
    BY <1>4, <2>3 DEF Insert
  <2>4. CASE AppendFails(t)
    BY <1>2, <2>4 DEF AppendFails
  <2>5. QED
    BY <2>1, <2>2, <2>3, <2>4 DEF LedgerStep
<1>6. CASE Control
  BY <1>4, <1>6 DEF Control, ControlStep, Request, Decide, EmergencyDisable
<1>7. CASE Artifact
  <2>1. CASE \E a \in Artifacts : Elapse(a)
    BY <1>3, <2>1 DEF Elapse, ledgerVars
  <2>2. CASE \E p \in Processes : Restart(p)
    BY <1>2, <2>2 DEF Restart
  <2>3. CASE \E t \in Threads : ArtifactStep(t)
    <3>1. PICK t \in Threads : ArtifactStep(t)
      BY <2>3
    <3>2. CASE \/ \E p \in People : RequestArtifact(t, p)
               \/ \E p \in People, a \in Artifacts : RejectArtifact(t, a, p)
               \/ Complete(t) \/ UndoFails(t) \/ Abandon(t) \/ ActivationRaises(t)
      BY <1>4, <3>2 DEF RequestArtifact, RejectArtifact, Complete, UndoFails, Abandon,
         ActivationRaises, Finished
    <3>3. CASE \/ \E p \in People, a \in Artifacts : ClaimActivation(t, a, p)
               \/ Snapshot(t) \/ Materialize(t) \/ MaterializeFails(t) \/ LoseClaim(t)
               \/ CompleteFails(t) \/ Undo(t)
      <4>1. \E stage \in Known : GotoStage(t, stage)
        BY <3>3 DEF ClaimActivation, Snapshot, Materialize, MaterializeFails, LoseClaim,
           CompleteFails, Undo, Activating
      <4>2. QED
        BY <1>1, <4>1
    <3>4. QED
      BY <3>1, <3>2, <3>3 DEF ArtifactStep
  <2>4. QED
    BY <1>7, <2>1, <2>2, <2>3 DEF Artifact
<1>8. CASE Outcome
  <2>1. CASE EraseCustomer
    BY <1>3, <2>1 DEF EraseCustomer, ledgerVars
  <2>2. CASE \E t \in Threads : OutcomeStep(t)
    <3>1. PICK t \in Threads : OutcomeStep(t)
      BY <2>2
    <3>2. CASE \E e \in Events, content \in Contents : LookUp(t, e, content)
      BY <1>1, <3>2 DEF LookUp
    <3>3. CASE RecordOutcome(t) \/ RefuseOutcome(t)
      BY <1>4, <3>3 DEF RecordOutcome, RefuseOutcome
    <3>4. QED
      BY <3>1, <3>2, <3>3 DEF OutcomeStep
  <2>3. QED
    BY <1>8, <2>1, <2>2 DEF Outcome
<1>9. CASE UNCHANGED vars
  BY <1>3, <1>9 DEF vars, ledgerVars
<1>10. QED
  BY <1>5, <1>6, <1>7, <1>8, <1>9 DEF Next

\* The rows, the calls of the threads, what the processes serve and what was reported are
\* of their types, and a thread has a version in hand exactly while it is at an approval
\* (the tables of governance, GovernedArtifactService.decide).
THEOREM GovernanceTyped == Spec => []TypeOK
<1> DEFINE Inv == LedgerInv /\ ControlInv /\ RowsInv /\ ServeInv /\ StagesKnown
<1>1. Init => StagesKnown
  BY DEF Init, LedgerInit, StagesKnown, Stage, Idle
<1>2. Init => Inv
  BY <1>1, LedgerStarts, ControlStarts, RowsStart, ServeStarts
<1>3. Inv /\ [Next]_vars => Inv'
  BY LedgerInductive, ControlInductive, RowsInductive, ServeInductive, StagesStayKnown DEF LedgerInv
<1>4. Inv => TypeOK
  <2>1. SUFFICES ASSUME Inv
                 PROVE  TypeOK
    OBVIOUS
  <2>2. control \in [Controls -> ControlRow] /\ artifact \in [Artifacts -> ArtifactRow]
    BY <2>1 DEF RowsInv, ControlShape, ArtifactInv, ArtifactShape
  <2>3. ASSUME NEW t \in Threads
        PROVE  /\ Stage(t) \in {"idle", "report", "append", "insert"} \cup Activating
               /\ activation[t].artifact \in Artifacts <=> Stage(t) \in Activating
               /\ Stage(t) = "insert" => call[t].head <= LastHash
    <3>1. Stage(t) \in {"idle", "report", "append", "insert"} \cup Activating
      BY <2>1 DEF StagesKnown
    <3>2. Stage(t) \in Activating => activation[t].artifact \in Artifacts
      BY <2>1 DEF RowsInv, ArtifactInv, ActivationShape
    <3>3. Stage(t) \notin Activating => activation[t].artifact \notin Artifacts
      BY <2>1, GovernedArtifactAssumption DEF ServeInv, Serving, Artifacts
    <3>4. Stage(t) = "insert" => call[t].head = LastHash
      BY <2>1 DEF LedgerInv, HeadIsLast
    <3>5. LastHash \in Nat
      BY <2>1, LenProperties DEF LedgerInv, LastHash
    <3>6. QED
      BY <3>1, <3>2, <3>3, <3>4, <3>5
  <2>4. observation \in [Events -> Contents \cup {Unreported}]
    BY <2>1 DEF RowsInv, OutcomeShape
  <2>5. runtime \in [Processes -> Artifacts \cup {BuiltIn}] /\ home \in [Threads -> Processes]
    BY <2>1 DEF ServeInv, Serving
  <2>6. QED
    BY <2>2, <2>3, <2>4, <2>5 DEF TypeOK, ControlRow, ArtifactRow
<1>5. QED
  BY <1>2, <1>3, <1>4, PTL DEF Spec
=============================================================================

------------------------ MODULE EventDelivery_proofs ------------------------
(***************************************************************************)
(* The event stream, for any number of workers, events, attempts and       *)
(* faults.  What the group was given and nobody acknowledged is pending,   *)
(* and a worker that reports a failure has met one: from these two facts,  *)
(* kept by every step, it follows that no event is dropped and none is     *)
(* dead-lettered before its attempts are used up.                          *)
(***************************************************************************)
EXTENDS EventDelivery, FiniteSetTheorems, SequenceTheorems, TLAPS

-----------------------------------------------------------------------------
(* What the batch of the lowest members of a set holds.                     *)

\* How many members of a set of identifiers come before one of them.
Rank(x, S) == Cardinality({y \in S : y < x})

LEMMA RankGrows ==
  ASSUME NEW S \in SUBSET Nat, IsFiniteSet(S), NEW x \in S
  PROVE  /\ Rank(x, S) \in Nat /\ Rank(x, S) < Cardinality(S)
         /\ \A y \in S : x < y => Rank(x, S) < Rank(y, S)
<1> DEFINE below(z) == {y \in S : y < z}
<1>1. \A z : IsFiniteSet(below(z)) /\ Rank(z, S) = Cardinality(below(z)) /\ Rank(z, S) \in Nat
  BY FS_Subset, FS_CardinalityType DEF Rank
<1>2. ASSUME NEW T, IsFiniteSet(T), x \in T, below(x) \subseteq T \ {x}
      PROVE  Rank(x, S) < Cardinality(T)
  <2>1. /\ IsFiniteSet(T \ {x}) /\ Cardinality(T \ {x}) = Cardinality(T) - 1
        /\ Cardinality(T) \in Nat
    BY <1>2, FS_RemoveElement, FS_CardinalityType
  <2>2. Cardinality(below(x)) <= Cardinality(T \ {x})
    BY <1>2, <2>1, FS_Subset
  <2>3. QED
    BY <1>1, <2>1, <2>2
<1>3. Rank(x, S) < Cardinality(S)
  <2>1. below(x) \subseteq S \ {x}
    OBVIOUS
  <2>2. QED
    BY <1>2, <2>1
<1>4. ASSUME NEW y \in S, x < y
      PROVE  Rank(x, S) < Rank(y, S)
  <2>1. x \in below(y) /\ below(x) \subseteq below(y) \ {x}
    <3>1. ASSUME NEW z \in S, z < x
          PROVE  z < y /\ z # x
      <4>1. x \in Nat /\ y \in Nat /\ z \in Nat
        OBVIOUS
      <4>2. QED
        BY <1>4, <3>1, <4>1
    <3>2. QED
      BY <1>4, <3>1
  <2> HIDE DEF below
  <2>2. QED
    BY <1>1, <1>2, <2>1
<1>5. QED
  BY <1>1, <1>3, <1>4

\* Ranks are different, and every rank below the cardinality is taken.
LEMMA RankIsOnto ==
  ASSUME NEW S \in SUBSET Nat, IsFiniteSet(S)
  PROVE  /\ Cardinality(S) \in Nat
         /\ \A x, y \in S : Rank(x, S) = Rank(y, S) => x = y
         /\ \A i \in 1 .. Cardinality(S) : \E x \in S : Rank(x, S) = i - 1
<1> DEFINE n == Cardinality(S)
           rank == [x \in S |-> Rank(x, S)]
<1>1. n \in Nat
  BY FS_CardinalityType
<1>2. ASSUME NEW x \in S, NEW y \in S, Rank(x, S) = Rank(y, S)
      PROVE  x = y
  <2>1. /\ x < y => Rank(x, S) < Rank(y, S)
        /\ y < x => Rank(y, S) < Rank(x, S)
        /\ Rank(x, S) \in Nat
    BY RankGrows
  <2>2. x \in Nat /\ y \in Nat
    OBVIOUS
  <2>3. QED
    BY <1>2, <2>1, <2>2
<1>3. rank \in [S -> 0 .. n - 1]
  <2>1. ASSUME NEW x \in S PROVE Rank(x, S) \in 0 .. n - 1
    <3>1. Rank(x, S) \in Nat /\ Rank(x, S) < n
      BY RankGrows
    <3> HIDE DEF n
    <3>2. QED
      BY <1>1, <3>1
  <2>2. QED
    BY <2>1
<1>4. rank \in Injection(S, 0 .. n - 1)
  BY <1>2, <1>3 DEF Injection, IsInjective
<1>5. IsFiniteSet(0 .. n - 1) /\ Cardinality(0 .. n - 1) = n
  <2> HIDE DEF n
  <2>1. QED
    BY <1>1, FS_Interval
<1>6. rank \in Surjection(S, 0 .. n - 1)
  BY <1>4, <1>5, FS_Injection
<1>7. ASSUME NEW i \in 1 .. n
      PROVE  \E x \in S : Rank(x, S) = i - 1
  <2>1. i - 1 \in 0 .. n - 1
    BY <1>1
  <2>2. PICK x \in S : rank[x] = i - 1
    <3> HIDE DEF rank
    <3>1. QED
      BY <1>6, <2>1 DEF Surjection
  <2>3. QED
    BY <2>2
<1>8. QED
  BY <1>1, <1>2, <1>7

Taken(n, ids) == {e \in ids : Rank(e, ids) < n}

\* Lowest takes n members at most, each once, the last one is the highest, and it leaves out
\* none that is lower.
LEMMA LowestIsTaken ==
  ASSUME NEW n \in Nat, NEW ids \in SUBSET Nat, IsFiniteSet(ids)
  PROVE  LET s == Lowest(n, ids) IN
         /\ s \in Seq(ids) /\ Len(s) <= n
         /\ \A i, j \in DOMAIN s : s[i] = s[j] => i = j
         /\ s # <<>> => /\ s[Len(s)] \in ids
                        /\ \A i \in DOMAIN s : s[i] <= s[Len(s)]
                        /\ \A x \in ids : x <= s[Len(s)] => Among(x, s)
<1> DEFINE taken == Taken(n, ids)
           m == Cardinality(taken)
           s == [i \in 1 .. m |-> CHOOSE e \in taken : Rank(e, taken) = i - 1]
<1>1. Lowest(n, ids) = s
  BY DEF Lowest, Taken, Rank
<1>2. taken \in SUBSET Nat /\ taken \subseteq ids /\ IsFiniteSet(taken)
  BY FS_Subset DEF Taken
<1>3. /\ m \in Nat
      /\ \A x, y \in taken : Rank(x, taken) = Rank(y, taken) => x = y
      /\ \A i \in 1 .. m : \E x \in taken : Rank(x, taken) = i - 1
  BY <1>2, RankIsOnto
<1>4. m <= n
  <2> DEFINE rank == [x \in taken |-> Rank(x, ids)]
  <2>1. ASSUME NEW x \in taken
        PROVE  Rank(x, ids) \in 0 .. n - 1
    <3>1. Rank(x, ids) \in Nat /\ Rank(x, ids) < n
      BY <1>2, RankGrows DEF Taken
    <3>2. QED
      BY <3>1
  <2>2. rank \in Injection(taken, 0 .. n - 1)
    <3>1. \A x, y \in taken : Rank(x, ids) = Rank(y, ids) => x = y
      BY <1>2, RankIsOnto
    <3>2. rank \in [taken -> 0 .. n - 1]
      BY <2>1
    <3>3. QED
      BY <3>1, <3>2 DEF Injection, IsInjective
  <2>3. IsFiniteSet(0 .. n - 1) /\ Cardinality(0 .. n - 1) = n
    BY FS_Interval
  <2> HIDE DEF rank, taken
  <2>4. QED
    BY <2>2, <2>3, FS_Injection
<1> HIDE DEF taken, m
<1>5. ASSUME NEW i \in 1 .. m
      PROVE  s[i] \in taken /\ Rank(s[i], taken) = i - 1
  <2>1. \E x \in taken : Rank(x, taken) = i - 1
    BY <1>3
  <2>2. s[i] = CHOOSE e \in taken : Rank(e, taken) = i - 1
    OBVIOUS
  <2>3. QED
    BY <2>1, <2>2
<1>6. s \in Seq(ids) /\ Len(s) = m /\ DOMAIN s = 1 .. m
  <2>1. DOMAIN s = 1 .. m /\ s \in [1 .. m -> ids]
    BY <1>2, <1>5
  <2> HIDE DEF s
  <2>2. QED
    BY <1>3, <2>1
<1> HIDE DEF s
<1>7. \A i, j \in DOMAIN s : s[i] = s[j] => i = j
  <2> SUFFICES ASSUME NEW i \in 1 .. m, NEW j \in 1 .. m, s[i] = s[j]
               PROVE  i = j
    BY <1>6
  <2>1. i - 1 = j - 1
    BY <1>5
  <2>2. QED
    BY <1>3, <2>1
<1>8. ASSUME NEW x \in taken
      PROVE  Among(x, s)
  <2>1. Rank(x, taken) \in Nat /\ Rank(x, taken) < m
    BY <1>2, RankGrows DEF m
  <2>2. Rank(x, taken) + 1 \in 1 .. m
    BY <1>3, <2>1
  <2>3. Rank(s[Rank(x, taken) + 1], taken) = Rank(x, taken) /\ s[Rank(x, taken) + 1] \in taken
    BY <1>5, <2>1, <2>2
  <2>4. s[Rank(x, taken) + 1] = x
    BY <1>3, <2>3
  <2>5. QED
    BY <1>6, <2>2, <2>4 DEF Among
<1>9. ASSUME s # <<>>
      PROVE  /\ s[m] \in taken
             /\ \A i \in 1 .. m : s[i] <= s[m]
             /\ \A x \in ids : x <= s[m] => Among(x, s)
  <2>1. m \in 1 .. m
    BY <1>3, <1>6, <1>9, EmptySeq
  <2>2. s[m] \in taken /\ Rank(s[m], taken) = m - 1
    BY <1>5, <2>1
  <2>3. ASSUME NEW i \in 1 .. m
        PROVE  s[i] <= s[m]
    <3>1. s[i] \in taken /\ Rank(s[i], taken) = i - 1
      BY <1>5
    <3>2. s[m] < s[i] => m - 1 < i - 1
      BY <1>2, <2>2, <3>1, RankGrows
    <3>3. s[i] \in Nat /\ s[m] \in Nat
      BY <1>2, <2>2, <3>1
    <3>4. QED
      BY <1>3, <3>2, <3>3
  <2>4. ASSUME NEW x \in ids, x <= s[m]
        PROVE  Among(x, s)
    <3>1. Rank(s[m], ids) < n /\ s[m] \in ids
      BY <2>2 DEF taken, Taken
    <3>2. /\ Rank(x, ids) \in Nat /\ Rank(s[m], ids) \in Nat
          /\ x < s[m] => Rank(x, ids) < Rank(s[m], ids)
      BY <3>1, RankGrows
    <3>3. x \in Nat /\ s[m] \in Nat
      BY <3>1
    <3>4. Rank(x, ids) < n
      <4>1. x = s[m] \/ x < s[m]
        BY <2>4, <3>3
      <4>2. QED
        BY <3>1, <3>2, <4>1
    <3>5. QED
      BY <1>8, <3>4 DEF taken, Taken
  <2>5. QED
    BY <2>2, <2>3, <2>4
<1>10. QED
  BY <1>1, <1>2, <1>4, <1>6, <1>7, <1>9 DEF taken, Taken

-----------------------------------------------------------------------------
(* The invariant.                                                           *)

Ats == {"poll", "count", "read", "handle", "ack", "failed"}
Endings == {"none", "moved", "interrupted", "answered"}

Tables ==
  /\ last \in 0 .. MaxEvents /\ cursor \in 0 .. last
  /\ stream \subseteq 1 .. last
  /\ pending \subseteq 1 .. cursor /\ idle \subseteq pending
  /\ deliveries \in [Ids -> 0 .. MaxAttempts]
  /\ poison \subseteq 1 .. last
  /\ receipts \subseteq 1 .. cursor /\ deadLetters \subseteq 1 .. cursor /\ recorded \subseteq 1 .. cursor
  /\ replay \in [Ids -> Endings]
  /\ \A e \in Ids : replay[e] # "none" => e <= cursor
  /\ faults \in 0 .. MaxFaults

\* Redis counts a delivery of everything it gives to the group, and of nothing else.
Delivered ==
  /\ \A e \in Ids : e > cursor => deliveries[e] = 0
  /\ \A e \in pending : deliveries[e] >= 1

\* A batch names each of its events once, and no more deliveries than there have been.
GoodBatch(batch, given, counts) ==
  /\ batch \in Seq(Deliveries) /\ Len(batch) <= BatchSize
  /\ \A i, j \in DOMAIN batch : batch[i].event = batch[j].event => i = j
  /\ \A i \in DOMAIN batch : /\ batch[i].event <= given
                             /\ 1 <= counts[batch[i].event]
                             /\ batch[i].count <= counts[batch[i].event]

\* What a worker is about to acknowledge has its receipt; what it reports as failed is poison,
\* unless there has been a fault.
Doing(w) ==
  /\ GoodBatch(work[w].batch, cursor, deliveries)
  /\ work[w].at \in {"handle", "ack", "failed"} => work[w].batch # <<>>
  /\ work[w].at = "ack" => Current(w).event \in receipts
  /\ work[w].at = "failed" => Current(w).event \in poison \/ faults > 0

Working == work \in [Workers -> [at : Ats, batch : Seq(Deliveries)]] /\ \A w \in Workers : Doing(w)

DeliveryInv == Tables /\ Delivered /\ Working /\ NothingIsDropped /\ DeadLetterIsEarned

LEMMA Numbers ==
  /\ BatchSize \in Nat /\ BatchSize > 0 /\ MaxAttempts \in Nat /\ MaxAttempts > 0
  /\ MaxEvents \in Nat /\ MaxFaults \in Nat
BY DeliveryAssumption

\* Nothing that a worker relies on is taken back.
Grows ==
  /\ cursor \in Nat /\ cursor' \in Nat /\ cursor <= cursor'
  /\ deliveries \in [Ids -> 0 .. MaxAttempts] /\ deliveries' \in [Ids -> 0 .. MaxAttempts]
  /\ \A e \in Ids : deliveries[e] <= deliveries'[e]
  /\ receipts \subseteq receipts' /\ poison \subseteq poison'
  /\ faults \in Nat /\ faults' \in Nat /\ faults <= faults'

LEMMA BatchStays ==
  ASSUME NEW batch, NEW given \in Nat, NEW counts \in [Ids -> 0 .. MaxAttempts],
         NEW more \in Nat, NEW after \in [Ids -> 0 .. MaxAttempts],
         given <= more, \A e \in Ids : counts[e] <= after[e], GoodBatch(batch, given, counts)
  PROVE  GoodBatch(batch, more, after)
<1>1. ASSUME NEW i \in DOMAIN batch
      PROVE  /\ batch[i].event <= more /\ 1 <= after[batch[i].event]
             /\ batch[i].count <= after[batch[i].event]
  <2>1. batch[i] \in Deliveries
    BY DEF GoodBatch
  <2>2. /\ batch[i].event \in Nat /\ batch[i].event \in Ids /\ batch[i].count \in Nat
        /\ counts[batch[i].event] \in Nat /\ after[batch[i].event] \in Nat
    BY <2>1, Numbers DEF Deliveries, Ids
  <2>3. /\ batch[i].event <= given /\ 1 <= counts[batch[i].event]
        /\ batch[i].count <= counts[batch[i].event]
        /\ counts[batch[i].event] <= after[batch[i].event]
    BY <2>2 DEF GoodBatch
  <2>4. QED
    BY <2>2, <2>3
<1>2. QED
  BY <1>1 DEF GoodBatch

\* The others go on as they were.
LEMMA OthersGoOn ==
  ASSUME Working, Grows, NEW w \in Workers, work'[w] = work[w]
  PROVE  Doing(w)'
<1>1. GoodBatch(work'[w].batch, cursor', deliveries')
  BY BatchStays DEF Grows, Working, Doing
<1>2. Current(w)' = Current(w)
  BY DEF Current
<1>3. QED
  BY <1>1, <1>2 DEF Working, Doing, Grows

\* The step of one worker.
LEMMA OneWorker ==
  ASSUME Working, Grows, NEW w \in Workers, NEW at \in Ats, NEW batch,
         Become(w, at, batch), GoodBatch(batch, cursor', deliveries'),
         at \in {"handle", "ack", "failed"} => batch # <<>>,
         at = "ack" => Head(batch).event \in receipts',
         at = "failed" => Head(batch).event \in poison' \/ faults' > 0
  PROVE  Working'
<1>1. batch \in Seq(Deliveries)
  BY DEF GoodBatch
<1>2. /\ work' \in [Workers -> [at : Ats, batch : Seq(Deliveries)]]
      /\ work'[w].at = at /\ work'[w].batch = batch
      /\ \A x \in Workers \ {w} : work'[x] = work[x]
  BY <1>1 DEF Become, Working
<1>3. Doing(w)'
  BY <1>2 DEF Doing, Current
<1>4. QED
  BY <1>2, <1>3, OthersGoOn DEF Working

LEMMA NobodyMoves ==
  ASSUME Working, Grows, work' = work
  PROVE  Working'
BY OthersGoOn DEF Working

LEMMA RestIsGood ==
  ASSUME NEW batch, NEW given, NEW counts, GoodBatch(batch, given, counts), batch # <<>>
  PROVE  GoodBatch(Tail(batch), given, counts) /\ Head(batch) \in Deliveries /\ 1 \in DOMAIN batch
         /\ Head(batch) = batch[1]
<1>1. batch \in Seq(Deliveries) /\ Len(batch) \in Nat /\ Len(batch) > 0 /\ DOMAIN batch = 1 .. Len(batch)
  BY EmptySeq DEF GoodBatch
<1>2. /\ Tail(batch) \in Seq(Deliveries) /\ Len(Tail(batch)) = Len(batch) - 1
      /\ DOMAIN Tail(batch) = 1 .. Len(batch) - 1
      /\ \A i \in 1 .. Len(batch) - 1 : i + 1 \in 1 .. Len(batch) /\ Tail(batch)[i] = batch[i + 1]
      /\ Head(batch) \in Deliveries
  BY <1>1, HeadTailProperties
<1>3. Len(Tail(batch)) <= BatchSize
  BY <1>1, <1>2, Numbers DEF GoodBatch
<1>4. ASSUME NEW i \in 1 .. Len(batch) - 1, NEW j \in 1 .. Len(batch) - 1,
             Tail(batch)[i].event = Tail(batch)[j].event
      PROVE  i = j
  <2>1. i + 1 = j + 1
    BY <1>1, <1>2, <1>4 DEF GoodBatch
  <2>2. QED
    BY <1>1, <2>1
<1>5. GoodBatch(Tail(batch), given, counts)
  BY <1>1, <1>2, <1>3, <1>4 DEF GoodBatch
<1>6. QED
  BY <1>1, <1>2, <1>5

\* What was given up on stays rightly so.
LEMMA EarnedStays ==
  ASSUME DeadLetterIsEarned, Grows,
         \A e \in Ids : e \in deadLetters' \/ replay'[e] # "none" => e \in deadLetters \/ replay[e] # "none"
  PROVE  DeadLetterIsEarned'
<1> SUFFICES ASSUME NEW e \in Ids, e \in deadLetters' \/ replay'[e] # "none"
             PROVE  deliveries'[e] = MaxAttempts /\ (e \in poison' \/ faults' > 0)
  BY DEF DeadLetterIsEarned
<1>1. deliveries[e] = MaxAttempts /\ (e \in poison \/ faults > 0)
  BY DEF DeadLetterIsEarned
<1>2. deliveries'[e] \in 0 .. MaxAttempts /\ deliveries[e] <= deliveries'[e]
  BY DEF Grows
<1>3. deliveries'[e] = MaxAttempts
  BY <1>1, <1>2, Numbers
<1>4. QED
  BY <1>1, <1>3 DEF Grows

\* An event is as safe as it was: still pending, settled, or trimmed.
Safe == \A e \in 1 .. cursor :
          /\ e \in stream' => e \in stream
          /\ e \in pending => e \in pending' \/ Settled(e)' \/ e \notin stream'
          /\ Settled(e) => Settled(e)'
LEMMA SafetyStays ==
  ASSUME NothingIsDropped, cursor' = cursor, Safe
  PROVE  NothingIsDropped'
BY DEF NothingIsDropped, Safe

LEMMA Published ==
  ASSUME DeliveryInv, NEW bad \in BOOLEAN, Publish(bad)
  PROVE  DeliveryInv'
<1> DEFINE e == last + 1
<1>1. /\ e \in Ids /\ last' = e
      /\ cursor' = cursor /\ pending' = pending /\ idle' = idle /\ deliveries' = deliveries
      /\ receipts' = receipts /\ deadLetters' = deadLetters /\ replay' = replay
      /\ recorded' = recorded /\ work' = work /\ faults' = faults
      /\ stream' \subseteq stream \cup {e}
      /\ poison \subseteq poison' /\ poison' \subseteq poison \cup {e}
  BY DEF Publish, letters
<1>2. last \in Nat /\ cursor \in Nat /\ cursor <= last /\ last + 1 <= MaxEvents
  BY <1>1, Numbers DEF DeliveryInv, Tables, Ids
<1>3. Tables'
  <2>1. last' \in 0 .. MaxEvents /\ cursor' \in 0 .. last'
    BY <1>1, <1>2, Numbers
  <2>2. stream' \subseteq 1 .. last' /\ poison' \subseteq 1 .. last'
    BY <1>1, <1>2 DEF DeliveryInv, Tables
  <2>3. QED
    BY <1>1, <2>1, <2>2 DEF DeliveryInv, Tables
<1>4. Grows
  BY <1>1, <1>2, Numbers DEF Grows, DeliveryInv, Tables
<1>5. Delivered' /\ Working' /\ DeadLetterIsEarned'
  BY <1>1, <1>4, NobodyMoves, EarnedStays DEF DeliveryInv, Delivered
<1>6. Safe
  BY <1>1, <1>2 DEF Safe, Settled
<1>7. QED
  BY <1>1, <1>3, <1>5, <1>6, SafetyStays DEF DeliveryInv

LEMMA TimePasses ==
  ASSUME DeliveryInv, NEW e \in Ids, BecomesIdle(e)
  PROVE  DeliveryInv'
<1>1. /\ last' = last /\ stream' = stream /\ cursor' = cursor /\ pending' = pending
      /\ idle' \subseteq pending' /\ deliveries' = deliveries /\ poison' = poison
      /\ receipts' = receipts /\ deadLetters' = deadLetters /\ replay' = replay
      /\ recorded' = recorded /\ work' = work /\ faults' = faults
  BY DEF BecomesIdle, letters, DeliveryInv, Tables
<1>2. Tables' /\ Grows
  BY <1>1, Numbers DEF DeliveryInv, Tables, Grows
<1>3. Delivered' /\ Working' /\ DeadLetterIsEarned'
  BY <1>1, <1>2, NobodyMoves, EarnedStays DEF DeliveryInv, Delivered
<1>4. Safe
  BY <1>1 DEF Safe, Settled
<1>5. QED
  BY <1>1, <1>2, <1>3, <1>4, SafetyStays DEF DeliveryInv

-----------------------------------------------------------------------------
(* The administrator's replays.                                             *)

LEMMA LetterReplayed ==
  ASSUME DeliveryInv, NEW d \in Ids, ReplayDeadLetter(d)
  PROVE  DeliveryInv'
<1> DEFINE e == last + 1
<1>1. /\ d \in deadLetters /\ e \in Ids /\ last' = e /\ stream' = stream \cup {e}
      /\ cursor' = cursor /\ pending' = pending /\ idle' = idle /\ deliveries' = deliveries
      /\ receipts' = receipts /\ deadLetters' = deadLetters \ {d}
      /\ replay' = [replay EXCEPT ![d] = "moved"]
      /\ recorded' = recorded /\ work' = work /\ faults' = faults
      /\ poison \subseteq poison' /\ poison' \subseteq poison \cup {e}
  BY DEF ReplayDeadLetter
<1>2. last \in Nat /\ cursor \in Nat /\ cursor <= last /\ last + 1 <= MaxEvents
  BY <1>1, Numbers DEF DeliveryInv, Tables, Ids
<1>3. /\ replay' \in [Ids -> Endings] /\ replay'[d] = "moved" /\ d <= cursor
      /\ \A x \in Ids \ {d} : replay'[x] = replay[x]
  BY <1>1, <1>2 DEF DeliveryInv, Tables, Endings
<1>4. Tables'
  <2>1. last' \in 0 .. MaxEvents /\ cursor' \in 0 .. last'
    BY <1>1, <1>2, Numbers
  <2>2. stream' \subseteq 1 .. last' /\ poison' \subseteq 1 .. last'
    BY <1>1, <1>2 DEF DeliveryInv, Tables
  <2>3. \A x \in Ids : replay'[x] # "none" => x <= cursor'
    BY <1>1, <1>3 DEF DeliveryInv, Tables
  <2>4. QED
    BY <1>1, <1>3, <2>1, <2>2, <2>3 DEF DeliveryInv, Tables
<1>5. Grows
  BY <1>1, <1>2, Numbers DEF Grows, DeliveryInv, Tables
<1>6. Delivered' /\ Working' /\ DeadLetterIsEarned'
  BY <1>1, <1>3, <1>5, NobodyMoves, EarnedStays DEF DeliveryInv, Delivered
<1>7. Safe
  <2>1. \A x \in 1 .. cursor : x \in Ids
    BY <1>1, <1>2, Numbers DEF Ids
  <2>2. \A x \in 1 .. cursor : Settled(x) => Settled(x)'
    BY <1>1, <1>3, <2>1 DEF Settled
  <2>3. \A x \in 1 .. cursor : x \in stream' => x \in stream
    BY <1>1, <1>2
  <2>4. QED
    BY <1>1, <2>2, <2>3 DEF Safe
<1>8. QED
  BY <1>1, <1>4, <1>6, <1>7, SafetyStays DEF DeliveryInv

\* Afterwards only the request and its record change.
LEMMA ReplayGoesOn ==
  ASSUME DeliveryInv, NEW d \in Ids, RecordReplay(d) \/ ReplayInterrupted(d) \/ RetryReplay(d)
  PROVE  DeliveryInv'
<1>1. /\ last' = last /\ stream' = stream /\ cursor' = cursor /\ pending' = pending /\ idle' = idle
      /\ deliveries' = deliveries /\ poison' = poison /\ receipts' = receipts
      /\ deadLetters' = deadLetters /\ recorded' \subseteq recorded \cup {d} /\ work' = work
      /\ replay[d] # "none"
      /\ \E ending \in Endings \ {"none"} : replay' = [replay EXCEPT ![d] = ending]
  BY DEF RecordReplay, ReplayInterrupted, RetryReplay, queue, Endings
<1>2. /\ replay' \in [Ids -> Endings] /\ replay'[d] # "none"
      /\ \A x \in Ids \ {d} : replay'[x] = replay[x]
  BY <1>1 DEF DeliveryInv, Tables
<1>3. faults \in Nat /\ faults' \in 0 .. MaxFaults /\ faults <= faults'
  BY Numbers DEF RecordReplay, ReplayInterrupted, RetryReplay, Fault, DeliveryInv, Tables
<1>4. recorded' \subseteq 1 .. cursor'
  BY <1>1, Numbers DEF DeliveryInv, Tables, Ids
<1>5. Tables' /\ Grows
  BY <1>1, <1>2, <1>3, <1>4, Numbers DEF DeliveryInv, Tables, Grows
<1>6. Delivered' /\ Working' /\ DeadLetterIsEarned'
  BY <1>1, <1>2, <1>5, NobodyMoves, EarnedStays DEF DeliveryInv, Delivered
<1>7. Safe
  <2>1. \A x \in 1 .. cursor : x \in Ids
    BY Numbers DEF DeliveryInv, Tables, Ids
  <2>2. \A x \in 1 .. cursor : Settled(x) => Settled(x)'
    BY <1>1, <1>2, <2>1 DEF Settled
  <2>3. QED
    BY <1>1, <2>2 DEF Safe
<1>8. QED
  BY <1>1, <1>5, <1>6, <1>7, SafetyStays DEF DeliveryInv

-----------------------------------------------------------------------------
(* The batch.                                                               *)

LEMMA IdentifiersAreNumbers ==
  ASSUME Tables
  PROVE  /\ last \in Nat /\ cursor \in Nat /\ cursor <= last /\ faults \in Nat
         /\ 1 .. cursor \subseteq Ids /\ 1 .. last \subseteq Ids
         /\ \A S \in SUBSET (1 .. last) : S \in SUBSET Nat /\ IsFiniteSet(S)
<1>1. /\ last \in Nat /\ cursor \in Nat /\ cursor <= last /\ faults \in Nat /\ last <= MaxEvents
  BY Numbers DEF Tables
<1>2. IsFiniteSet(1 .. last)
  BY <1>1, FS_Interval
<1>3. 1 .. cursor \subseteq Ids /\ 1 .. last \subseteq Ids
  BY <1>1, Numbers DEF Ids
<1>4. ASSUME NEW S \in SUBSET (1 .. last)
      PROVE  S \in SUBSET Nat /\ IsFiniteSet(S)
  <2>1. IsFiniteSet(S)
    BY <1>2, FS_Subset
  <2>2. 1 .. last \subseteq Nat
    BY <1>1
  <2>3. QED
    BY <2>1, <2>2
<1>5. QED
  BY <1>1, <1>3, <1>4

LEMMA StaleClaimed ==
  ASSUME DeliveryInv, NEW w \in Workers, ClaimStale(w)
  PROVE  DeliveryInv'
<1> DEFINE claimed == Lowest(BatchSize, Stale \cap stream)
           batch == [i \in DOMAIN claimed |-> [event |-> claimed[i], count |-> 0]]
<1>1. /\ pending' = pending \ (pending \ stream)
      /\ idle' = {e \in idle \ (pending \ stream) : ~Among(e, claimed)}
      /\ deliveries' = [e \in Ids |-> IF Among(e, claimed) /\ deliveries[e] < MaxAttempts
                                      THEN deliveries[e] + 1 ELSE deliveries[e]]
      /\ Become(w, "count", batch)
  BY DEF ClaimStale
<1>2. /\ stream' = stream /\ last' = last /\ cursor' = cursor /\ poison' = poison
      /\ receipts' = receipts /\ deadLetters' = deadLetters /\ replay' = replay
      /\ recorded' = recorded /\ faults' = faults
  BY DEF ClaimStale, letters
<1>3. /\ Stale \cap stream \subseteq pending /\ Stale \cap stream \in SUBSET Nat
      /\ Stale \cap stream \subseteq 1 .. cursor
      /\ IsFiniteSet(Stale \cap stream)
  BY IdentifiersAreNumbers DEF Stale, DeliveryInv, Tables
<1>4. /\ claimed \in Seq(Stale \cap stream) /\ Len(claimed) <= BatchSize
      /\ \A i, j \in DOMAIN claimed : claimed[i] = claimed[j] => i = j
  BY <1>3, LowestIsTaken, Numbers
<1> HIDE DEF claimed
<1>5. /\ Len(claimed) \in Nat /\ DOMAIN claimed = 1 .. Len(claimed)
      /\ \A i \in 1 .. Len(claimed) : claimed[i] \in Stale \cap stream
  BY <1>4
<1>6. \A i \in 1 .. Len(claimed) :
        claimed[i] \in pending /\ claimed[i] \in 1 .. cursor /\ claimed[i] \in Ids
  BY <1>3, <1>5, IdentifiersAreNumbers DEF DeliveryInv
<1>7. /\ batch \in Seq(Deliveries) /\ Len(batch) = Len(claimed) /\ DOMAIN batch = DOMAIN claimed
      /\ \A i \in 1 .. Len(claimed) : batch[i].event = claimed[i] /\ batch[i].count = 0
  <2>1. /\ DOMAIN batch = 1 .. Len(claimed) /\ batch \in [1 .. Len(claimed) -> Deliveries]
        /\ \A i \in 1 .. Len(claimed) : batch[i].event = claimed[i] /\ batch[i].count = 0
    BY <1>5, <1>6, Numbers DEF Deliveries
  <2> HIDE DEF batch
  <2>2. QED
    BY <1>5, <2>1
<1> HIDE DEF batch
<1>8. /\ deliveries \in [Ids -> 0 .. MaxAttempts] /\ deliveries' \in [Ids -> 0 .. MaxAttempts]
      /\ \A e \in Ids : deliveries[e] <= deliveries'[e]
      /\ \A e \in Ids : e > cursor => deliveries'[e] = 0
  <2>1. deliveries \in [Ids -> 0 .. MaxAttempts]
    BY DEF DeliveryInv, Tables
  <2>2. ASSUME NEW e \in Ids
        PROVE  /\ deliveries'[e] \in 0 .. MaxAttempts /\ deliveries[e] <= deliveries'[e]
               /\ e > cursor => deliveries'[e] = 0
    <3>1. e > cursor => ~Among(e, claimed) /\ deliveries[e] = 0
      BY <1>5, <1>6, IdentifiersAreNumbers DEF Among, DeliveryInv, Delivered
    <3>2. deliveries'[e] = IF Among(e, claimed) /\ deliveries[e] < MaxAttempts
                           THEN deliveries[e] + 1 ELSE deliveries[e]
      BY <1>1
    <3>3. deliveries[e] \in 0 .. MaxAttempts
      BY <2>1
    <3>4. QED
      BY <3>1, <3>2, <3>3, Numbers
  <2>3. QED
    BY <1>1, <2>1, <2>2
<1>9. Tables' /\ Grows
  <2>1. pending' \subseteq pending /\ idle' \subseteq pending'
    BY <1>1 DEF DeliveryInv, Tables
  <2>2. Tables'
    BY <1>2, <1>8, <2>1 DEF DeliveryInv, Tables
  <2>3. Grows
    BY <1>2, <1>8, IdentifiersAreNumbers DEF DeliveryInv, Grows
  <2>4. QED
    BY <2>2, <2>3
<1>10. Delivered'
  <2>1. ASSUME NEW e \in pending'
        PROVE  deliveries'[e] >= 1
    <3>1. e \in pending /\ e \in Ids
      BY <1>1, IdentifiersAreNumbers DEF DeliveryInv, Tables
    <3>2. deliveries[e] >= 1 /\ deliveries[e] \in 0 .. MaxAttempts /\ deliveries'[e] \in 0 .. MaxAttempts
          /\ deliveries[e] <= deliveries'[e]
      BY <1>8, <3>1 DEF DeliveryInv, Delivered
    <3>3. QED
      BY <3>2, Numbers
  <2>2. QED
    BY <1>2, <1>8, <2>1 DEF Delivered
<1>11. GoodBatch(batch, cursor', deliveries')
  <2>1. ASSUME NEW i \in DOMAIN batch
        PROVE  /\ batch[i].event <= cursor' /\ 1 <= deliveries'[batch[i].event]
               /\ batch[i].count <= deliveries'[batch[i].event]
    <3>1. batch[i].event = claimed[i] /\ batch[i].count = 0 /\ claimed[i] \in pending
          /\ claimed[i] \in 1 .. cursor /\ claimed[i] \in Ids
      BY <1>5, <1>6, <1>7
    <3>2. deliveries[claimed[i]] >= 1 /\ deliveries[claimed[i]] <= deliveries'[claimed[i]]
          /\ deliveries[claimed[i]] \in 0 .. MaxAttempts /\ deliveries'[claimed[i]] \in 0 .. MaxAttempts
      BY <1>8, <3>1 DEF DeliveryInv, Delivered
    <3>3. QED
      BY <1>2, <3>1, <3>2, Numbers, IdentifiersAreNumbers DEF DeliveryInv
  <2>2. QED
    BY <1>4, <1>5, <1>7, <2>1 DEF GoodBatch
<1>12. Working'
  BY <1>1, <1>9, <1>11, OneWorker DEF DeliveryInv, Ats
<1>13. DeadLetterIsEarned'
  BY <1>2, <1>9, EarnedStays DEF DeliveryInv
<1>14. Safe
  BY <1>1, <1>2 DEF Safe, Settled
<1>15. QED
  BY <1>2, <1>9, <1>10, <1>12, <1>13, <1>14, SafetyStays DEF DeliveryInv

LEMMA DeliveriesCounted ==
  ASSUME DeliveryInv, NEW w \in Workers, CountDeliveries(w)
  PROVE  DeliveryInv'
<1> DEFINE old == work[w].batch
           event == [i \in DOMAIN old |-> old[i].event]
           count == [i \in DOMAIN old |-> IF event[i] \in pending THEN deliveries[event[i]] ELSE 1]
           batch == [i \in DOMAIN old |->
                       LET e == old[i].event IN
                       [event |-> e, count |-> IF e \in pending THEN deliveries[e] ELSE 1]]
<1>1. Become(w, "read", batch)
  BY DEF CountDeliveries
<1>2. /\ stream' = stream /\ last' = last /\ cursor' = cursor /\ pending' = pending
      /\ idle' = idle /\ deliveries' = deliveries /\ poison' = poison
      /\ receipts' = receipts /\ deadLetters' = deadLetters /\ replay' = replay
      /\ recorded' = recorded /\ faults' = faults
  BY DEF CountDeliveries, letters, queue
<1>3. GoodBatch(old, cursor, deliveries)
  BY DEF DeliveryInv, Working, Doing
<1> HIDE DEF old
<1>4. /\ Len(old) \in Nat /\ Len(old) <= BatchSize /\ DOMAIN old = 1 .. Len(old)
      /\ \A i \in DOMAIN old : old[i] \in Deliveries
  BY <1>3 DEF GoodBatch
<1>5. ASSUME NEW i \in DOMAIN old
      PROVE  /\ event[i] \in Ids /\ event[i] = old[i].event /\ count[i] \in 0 .. MaxAttempts
             /\ event[i] <= cursor /\ 1 <= deliveries[event[i]] /\ count[i] <= deliveries[event[i]]
  <2>1. event[i] = old[i].event /\ event[i] \in Ids
    BY <1>4 DEF Deliveries
  <2>2. /\ event[i] <= cursor /\ 1 <= deliveries[event[i]]
        /\ deliveries[event[i]] \in 0 .. MaxAttempts
    BY <1>3, <2>1 DEF GoodBatch, DeliveryInv, Tables
  <2>3. count[i] = IF event[i] \in pending THEN deliveries[event[i]] ELSE 1
    OBVIOUS
  <2> HIDE DEF event, count
  <2>4. QED
    BY <2>1, <2>2, <2>3, Numbers
<1>6. /\ DOMAIN batch = 1 .. Len(old)
      /\ \A i \in DOMAIN old : batch[i] = [event |-> event[i], count |-> count[i]]
  BY <1>4
<1>7. /\ batch \in Seq(Deliveries) /\ Len(batch) = Len(old) /\ DOMAIN batch = DOMAIN old
      /\ \A i \in DOMAIN old : batch[i].event = event[i] /\ batch[i].count = count[i]
  <2> HIDE DEF event, count
  <2>1. \A i \in DOMAIN old : batch[i] \in Deliveries
    BY <1>5, <1>6 DEF Deliveries
  <2>2. batch \in [1 .. Len(old) -> Deliveries]
    BY <1>4, <2>1
  <2> HIDE DEF batch
  <2>3. QED
    BY <1>4, <1>6, <2>2
<1> HIDE DEF event, count, batch
<1>8. GoodBatch(batch, cursor', deliveries')
  <2>1. \A i, j \in DOMAIN old : event[i] = event[j] => i = j
    BY <1>3, <1>5 DEF GoodBatch
  <2>2. QED
    BY <1>2, <1>4, <1>5, <1>7, <2>1 DEF GoodBatch
<1>9. Tables' /\ Grows
  BY <1>2, Numbers, IdentifiersAreNumbers DEF DeliveryInv, Tables, Grows
<1>10. Working'
  BY <1>1, <1>8, <1>9, OneWorker DEF DeliveryInv, Ats
<1>11. Delivered' /\ DeadLetterIsEarned'
  BY <1>2, <1>9, EarnedStays DEF DeliveryInv, Delivered
<1>12. Safe
  BY <1>2 DEF Safe, Settled
<1>13. QED
  BY <1>2, <1>9, <1>10, <1>11, <1>12, SafetyStays DEF DeliveryInv

LEMMA GroupRead ==
  ASSUME DeliveryInv, NEW w \in Workers, ReadGroup(w)
  PROVE  DeliveryInv'
<1> DEFINE old == work[w].batch
           new == Lowest(Room(w), Undelivered)
           more == [i \in DOMAIN new |-> [event |-> new[i], count |-> 1]]
           batch == old \o more
<1>1. /\ cursor' = IF new = <<>> THEN cursor ELSE new[Len(new)]
      /\ pending' = pending \cup {new[i] : i \in DOMAIN new}
      /\ deliveries' = [e \in Ids |-> IF Among(e, new) THEN 1 ELSE deliveries[e]]
      /\ Become(w, IF batch = <<>> THEN "poll" ELSE "handle", batch)
  BY DEF ReadGroup
<1>2. /\ stream' = stream /\ last' = last /\ idle' = idle /\ poison' = poison
      /\ receipts' = receipts /\ deadLetters' = deadLetters /\ replay' = replay
      /\ recorded' = recorded /\ faults' = faults
  BY DEF ReadGroup, letters
<1>3. GoodBatch(old, cursor, deliveries) /\ Room(w) = BatchSize - Len(old)
  BY DEF DeliveryInv, Working, Doing, Room
<1> HIDE DEF old
<1>4. /\ Len(old) \in Nat /\ Len(old) <= BatchSize /\ DOMAIN old = 1 .. Len(old)
      /\ old \in Seq(Deliveries) /\ \A i \in DOMAIN old : old[i] \in Deliveries
      /\ Room(w) \in Nat
  BY <1>3, Numbers DEF GoodBatch
<1>5. /\ last \in Nat /\ cursor \in Nat /\ cursor <= last /\ 1 .. last \subseteq Ids
      /\ Undelivered \in SUBSET Nat /\ IsFiniteSet(Undelivered)
      /\ \A e \in Undelivered : e \in 1 .. last /\ cursor < e
  <2>1. Undelivered \subseteq 1 .. last
    BY DEF Undelivered, DeliveryInv, Tables
  <2>2. \A e \in Undelivered : cursor < e
    BY <2>1, IdentifiersAreNumbers DEF Undelivered, DeliveryInv
  <2>3. QED
    BY <2>1, <2>2, IdentifiersAreNumbers DEF DeliveryInv
<1>6. /\ new \in Seq(Undelivered) /\ Len(new) <= Room(w)
      /\ \A i, j \in DOMAIN new : new[i] = new[j] => i = j
      /\ new # <<>> => /\ new[Len(new)] \in Undelivered
                       /\ \A i \in DOMAIN new : new[i] <= new[Len(new)]
                       /\ \A e \in Undelivered : e <= new[Len(new)] => Among(e, new)
  BY <1>4, <1>5, LowestIsTaken
<1> HIDE DEF new
<1>7. /\ Len(new) \in Nat /\ DOMAIN new = 1 .. Len(new)
      /\ \A i \in DOMAIN new : new[i] \in Undelivered
  BY <1>6
<1>8. /\ cursor' \in Nat /\ cursor <= cursor' /\ cursor' <= last
      /\ \A i \in DOMAIN new : new[i] \in 1 .. cursor' /\ cursor < new[i] /\ new[i] \in Ids
      /\ \A e \in Undelivered : e <= cursor' => Among(e, new)
  <2>1. CASE new = <<>>
    <3>1. DOMAIN new = {} /\ cursor' = cursor
      BY <1>1, <2>1
    <3>2. QED
      BY <1>5, <3>1
  <2>2. CASE new # <<>>
    <3>1. cursor' = new[Len(new)] /\ cursor' \in Undelivered
      BY <1>1, <1>6, <2>2
    <3>2. cursor' \in 1 .. last /\ cursor < cursor'
      BY <1>5, <3>1
    <3>3. ASSUME NEW i \in DOMAIN new
          PROVE  new[i] \in 1 .. cursor' /\ cursor < new[i] /\ new[i] \in Ids
      <4>1. new[i] \in 1 .. last /\ cursor < new[i] /\ new[i] <= cursor'
        BY <1>5, <1>6, <1>7, <2>2, <3>1
      <4>2. QED
        BY <1>5, <3>2, <4>1
    <3>4. QED
      BY <1>5, <1>6, <2>2, <3>1, <3>2, <3>3
  <2>3. QED
    BY <2>1, <2>2
<1>9. /\ deliveries \in [Ids -> 0 .. MaxAttempts] /\ deliveries' \in [Ids -> 0 .. MaxAttempts]
      /\ \A e \in Ids : deliveries[e] <= deliveries'[e]
      /\ \A e \in Ids : e > cursor' => deliveries'[e] = 0
      /\ \A i \in DOMAIN new : deliveries'[new[i]] = 1
  <2>1. deliveries \in [Ids -> 0 .. MaxAttempts] /\ \A e \in Ids : e > cursor => deliveries[e] = 0
    BY DEF DeliveryInv, Tables, Delivered
  <2>2. \A e \in Ids : deliveries'[e] = IF Among(e, new) THEN 1 ELSE deliveries[e]
    BY <1>1
  <2>3. ASSUME NEW e \in Ids, Among(e, new)
        PROVE  e <= cursor' /\ deliveries[e] = 0
    <3>1. e \in 1 .. cursor' /\ cursor < e
      BY <1>8, <2>3 DEF Among
    <3>2. QED
      BY <1>5, <1>8, <2>1, <3>1
  <2>4. ASSUME NEW e \in Ids
        PROVE  /\ deliveries'[e] \in 0 .. MaxAttempts /\ deliveries[e] <= deliveries'[e]
               /\ e > cursor' => deliveries'[e] = 0
    <3>1. deliveries[e] \in 0 .. MaxAttempts /\ e \in Nat
      BY <2>1, Numbers DEF Ids
    <3>2. CASE Among(e, new)
      BY <1>8, <2>2, <2>3, <3>1, <3>2, Numbers
    <3>3. CASE ~Among(e, new)
      BY <1>5, <1>8, <2>1, <2>2, <3>1, <3>3
    <3>4. QED
      BY <3>2, <3>3
  <2>5. \A i \in DOMAIN new : deliveries'[new[i]] = 1
    BY <1>8, <2>2 DEF Among
  <2>6. deliveries' \in [Ids -> 0 .. MaxAttempts]
    BY <1>1, <2>4
  <2>7. QED
    BY <2>1, <2>4, <2>5, <2>6
<1>10. /\ pending' \subseteq 1 .. cursor' /\ idle' \subseteq pending'
       /\ \A e \in pending' : e \in pending \/ \E i \in DOMAIN new : e = new[i]
  <2>1. 1 .. cursor \subseteq 1 .. cursor'
    BY <1>5, <1>8
  <2>2. QED
    BY <1>1, <1>2, <1>8, <2>1 DEF DeliveryInv, Tables
<1>11. Tables' /\ Grows
  <2>1. cursor' \in 0 .. last'
    BY <1>2, <1>5, <1>8
  <2>2. 1 .. cursor \subseteq 1 .. cursor' /\ \A e \in Ids : e <= cursor => e <= cursor'
    BY <1>5, <1>8, Numbers DEF Ids
  <2>3. Tables'
    BY <1>2, <1>9, <1>10, <2>1, <2>2 DEF DeliveryInv, Tables
  <2>4. Grows
    BY <1>2, <1>5, <1>8, <1>9, IdentifiersAreNumbers DEF DeliveryInv, Grows
  <2>5. QED
    BY <2>3, <2>4
<1>12. Delivered'
  <2>1. ASSUME NEW e \in pending'
        PROVE  deliveries'[e] >= 1
    <3>1. CASE e \in pending
      <4>1. e \in Ids
        BY <3>1, IdentifiersAreNumbers DEF DeliveryInv, Tables
      <4>2. deliveries[e] >= 1 /\ deliveries[e] \in 0 .. MaxAttempts
            /\ deliveries'[e] \in 0 .. MaxAttempts /\ deliveries[e] <= deliveries'[e]
        BY <1>9, <3>1, <4>1 DEF DeliveryInv, Delivered
      <4>3. QED
        BY <4>2, Numbers
    <3>2. CASE \E i \in DOMAIN new : e = new[i]
      BY <1>9, <3>2
    <3>3. QED
      BY <1>10, <3>1, <3>2
  <2>2. QED
    BY <1>9, <2>1 DEF Delivered
<1>13. /\ more \in Seq(Deliveries) /\ Len(more) = Len(new) /\ DOMAIN more = DOMAIN new
       /\ \A i \in DOMAIN new : more[i].event = new[i] /\ more[i].count = 1
  <2>1. 1 \in 0 .. MaxAttempts
    BY Numbers
  <2>2. /\ DOMAIN more = 1 .. Len(new) /\ more \in [1 .. Len(new) -> Deliveries]
        /\ \A i \in 1 .. Len(new) : more[i].event = new[i] /\ more[i].count = 1
    BY <1>7, <1>8, <2>1 DEF Deliveries
  <2> HIDE DEF more
  <2>3. QED
    BY <1>7, <2>2
<1> HIDE DEF more
<1>14. /\ batch \in Seq(Deliveries) /\ Len(batch) = Len(old) + Len(new)
       /\ DOMAIN batch = 1 .. Len(old) + Len(new)
       /\ \A i \in DOMAIN batch :
            batch[i] = IF i <= Len(old) THEN old[i] ELSE more[i - Len(old)]
  <2>1. /\ batch \in Seq(Deliveries) /\ Len(batch) = Len(old) + Len(more)
        /\ \A i \in 1 .. Len(old) + Len(more) :
             batch[i] = IF i <= Len(old) THEN old[i] ELSE more[i - Len(old)]
    BY <1>4, <1>13, ConcatProperties
  <2> HIDE DEF batch
  <2>2. DOMAIN batch = 1 .. Len(old) + Len(new)
    BY <1>13, <2>1
  <2>3. QED
    BY <1>13, <2>1, <2>2
<1> HIDE DEF batch
<1>15. ASSUME NEW i \in DOMAIN batch
       PROVE  \/ i \in DOMAIN old /\ batch[i] = old[i] /\ batch[i].event <= cursor
              \/ /\ i - Len(old) \in DOMAIN new /\ batch[i].event = new[i - Len(old)]
                 /\ batch[i].count = 1 /\ cursor < batch[i].event
  <2>1. CASE i <= Len(old)
    <3>1. i \in DOMAIN old /\ batch[i] = old[i]
      BY <1>4, <1>14, <2>1
    <3>2. QED
      BY <1>3, <3>1 DEF GoodBatch
  <2>2. CASE ~(i <= Len(old))
    <3>1. i - Len(old) \in DOMAIN new /\ batch[i] = more[i - Len(old)]
      BY <1>4, <1>7, <1>14, <2>2
    <3>2. QED
      BY <1>8, <1>13, <3>1
  <2>3. QED
    BY <2>1, <2>2
<1>16. GoodBatch(old, cursor', deliveries')
  BY <1>3, <1>11, BatchStays DEF Grows
<1>17. GoodBatch(batch, cursor', deliveries')
  <2>1. ASSUME NEW i \in DOMAIN batch
        PROVE  /\ batch[i].event <= cursor' /\ 1 <= deliveries'[batch[i].event]
               /\ batch[i].count <= deliveries'[batch[i].event]
    <3>1. CASE i \in DOMAIN old /\ batch[i] = old[i]
      BY <1>16, <3>1 DEF GoodBatch
    <3>2. CASE /\ i - Len(old) \in DOMAIN new /\ batch[i].event = new[i - Len(old)]
               /\ batch[i].count = 1
      BY <1>8, <1>9, <3>2
    <3>3. QED
      BY <1>15, <3>1, <3>2
  <2>2. ASSUME NEW i \in DOMAIN batch, NEW j \in DOMAIN batch, batch[i].event = batch[j].event
        PROVE  i = j
    <3>1. i \in Nat /\ j \in Nat /\ batch[i].event \in Nat
      <4>1. batch[i] \in Deliveries
        BY <1>14
      <4>2. QED
        BY <1>4, <1>7, <1>14, <4>1, Numbers DEF Deliveries, Ids
    <3>2. CASE i \in DOMAIN old /\ j \in DOMAIN old /\ batch[i] = old[i] /\ batch[j] = old[j]
      BY <1>3, <2>2, <3>2 DEF GoodBatch
    <3>3. CASE /\ i - Len(old) \in DOMAIN new /\ batch[i].event = new[i - Len(old)]
               /\ j - Len(old) \in DOMAIN new /\ batch[j].event = new[j - Len(old)]
      <4>1. i - Len(old) = j - Len(old)
        BY <1>6, <2>2, <3>3
      <4>2. QED
        BY <1>4, <3>1, <4>1
    <3>4. ~(batch[i].event <= cursor /\ cursor < batch[i].event)
      BY <1>5, <3>1
    <3>5. QED
      BY <1>15, <2>2, <3>2, <3>3, <3>4
  <2>3. Len(batch) <= BatchSize
    BY <1>3, <1>4, <1>6, <1>7, <1>14, Numbers
  <2>4. QED
    BY <1>14, <2>1, <2>2, <2>3 DEF GoodBatch
<1>18. Working'
  BY <1>1, <1>11, <1>17, OneWorker DEF DeliveryInv, Ats
<1>19. DeadLetterIsEarned'
  BY <1>2, <1>11, EarnedStays DEF DeliveryInv
<1>20. NothingIsDropped'
  <2> SUFFICES ASSUME NEW e \in 1 .. cursor', e \in stream
               PROVE  e \in pending' \/ Settled(e)'
    BY <1>2 DEF NothingIsDropped
  <2>1. CASE e <= cursor
    <3>1. e \in 1 .. cursor
      BY <1>5, <1>8, <2>1
    <3>2. e \in pending \/ Settled(e)
      BY <3>1 DEF DeliveryInv, NothingIsDropped
    <3>3. QED
      BY <1>1, <1>2, <3>2 DEF Settled
  <2>2. CASE ~(e <= cursor)
    <3>1. e \in Undelivered /\ e <= cursor'
      BY <1>5, <1>8, <2>2 DEF Undelivered
    <3>2. QED
      BY <1>1, <1>8, <3>1 DEF Among
  <2>3. QED
    BY <2>1, <2>2
<1>21. QED
  BY <1>11, <1>12, <1>18, <1>19, <1>20 DEF DeliveryInv

-----------------------------------------------------------------------------
(* The events of the batch, one after the other.                            *)

LEMMA CurrentEvent ==
  ASSUME DeliveryInv, NEW w \in Workers, work[w].at \in {"handle", "ack", "failed"}
  PROVE  /\ work[w].batch # <<>> /\ GoodBatch(work[w].batch, cursor, deliveries)
         /\ GoodBatch(Tail(work[w].batch), cursor, deliveries)
         /\ Current(w).event \in 1 .. cursor /\ Current(w).event \in Ids
         /\ Current(w).count \in Nat /\ Current(w).count <= deliveries[Current(w).event]
<1>1. GoodBatch(work[w].batch, cursor, deliveries) /\ work[w].batch # <<>>
  BY DEF DeliveryInv, Working, Doing
<1>2. /\ GoodBatch(Tail(work[w].batch), cursor, deliveries)
      /\ Current(w) \in Deliveries /\ 1 \in DOMAIN work[w].batch /\ Current(w) = work[w].batch[1]
  BY <1>1, RestIsGood DEF Current
<1>3. /\ Current(w).event \in Ids /\ Current(w).event \in Nat /\ Current(w).event >= 1
      /\ Current(w).count \in Nat
  BY <1>2, Numbers DEF Deliveries, Ids
<1>4. Current(w).event <= cursor /\ Current(w).count <= deliveries[Current(w).event]
  BY <1>1, <1>2 DEF GoodBatch
<1>5. QED
  BY <1>1, <1>2, <1>3, <1>4, IdentifiersAreNumbers DEF DeliveryInv

\* What a worker's step on its own batch leaves alone.
Steady ==
  /\ last' = last /\ stream' = stream /\ cursor' = cursor /\ deliveries' = deliveries
  /\ poison' = poison /\ replay' = replay /\ recorded' = recorded

LEMMA SteadyGrows ==
  ASSUME DeliveryInv, Steady, pending' \subseteq pending, idle' \subseteq pending',
         receipts' \subseteq 1 .. cursor, deadLetters' \subseteq 1 .. cursor,
         receipts \subseteq receipts', faults' \in 0 .. MaxFaults, faults <= faults'
  PROVE  Tables' /\ Grows /\ Delivered'
<1>1. Tables'
  BY DEF Steady, DeliveryInv, Tables
<1>2. Grows
  BY Numbers, IdentifiersAreNumbers DEF Steady, DeliveryInv, Tables, Grows
<1>3. QED
  BY <1>1, <1>2 DEF Steady, DeliveryInv, Delivered

LEMMA FaultCounts ==
  ASSUME DeliveryInv, Fault
  PROVE  faults' \in 0 .. MaxFaults /\ faults <= faults' /\ faults' > 0
BY Numbers DEF DeliveryInv, Tables, Fault

LEMMA BatchAdvances ==
  ASSUME DeliveryInv, Grows, NEW w \in Workers, work[w].at \in {"ack", "failed"}, Advance(w),
         cursor' = cursor, deliveries' = deliveries
  PROVE  Working'
<1> DEFINE rest == Tail(work[w].batch)
           at == IF rest = <<>> THEN "poll" ELSE "handle"
<1>1. Become(w, at, rest)
  BY DEF Advance
<1>2. GoodBatch(rest, cursor', deliveries')
  BY CurrentEvent
<1>3. at \in Ats /\ at # "ack" /\ at # "failed" /\ (at = "handle" => rest # <<>>)
  BY DEF Ats
<1> HIDE DEF at, rest
<1>4. QED
  BY <1>1, <1>2, <1>3, OneWorker, CurrentEvent DEF DeliveryInv

LEMMA HandlerReturned ==
  ASSUME DeliveryInv, NEW w \in Workers, HandlerReturns(w)
  PROVE  DeliveryInv'
<1>1. /\ Steady /\ pending' = pending /\ idle' = idle /\ deadLetters' = deadLetters /\ faults' = faults
      /\ receipts' = receipts \cup {Current(w).event} /\ work[w].at = "handle"
      /\ Become(w, "ack", work[w].batch)
  BY DEF HandlerReturns, Steady, queue, letters, Goto
<1>2. Tables' /\ Grows /\ Delivered'
  <2>1. receipts' \subseteq 1 .. cursor
    BY <1>1, CurrentEvent DEF DeliveryInv, Tables
  <2>2. faults' \in 0 .. MaxFaults /\ faults <= faults'
    BY <1>1, IdentifiersAreNumbers DEF DeliveryInv, Tables
  <2>3. QED
    BY <1>1, <2>1, <2>2, SteadyGrows DEF DeliveryInv, Tables
<1>3. Working'
  BY <1>1, <1>2, CurrentEvent, OneWorker DEF Steady, Current, DeliveryInv, Ats
<1>4. DeadLetterIsEarned' /\ Safe
  BY <1>1, <1>2, EarnedStays DEF Steady, DeliveryInv, Safe, Settled
<1>5. QED
  BY <1>1, <1>2, <1>3, <1>4, SafetyStays DEF DeliveryInv, Steady

LEMMA HandlerRaised ==
  ASSUME DeliveryInv, NEW w \in Workers, HandlerRaises(w)
  PROVE  DeliveryInv'
<1>1. /\ Steady /\ pending' = pending /\ idle' = idle /\ deadLetters' = deadLetters
      /\ receipts' = receipts /\ work[w].at = "handle" /\ Become(w, "failed", work[w].batch)
  BY DEF HandlerRaises, Steady, queue, letters, Goto
<1>2. /\ faults' \in 0 .. MaxFaults /\ faults <= faults'
      /\ Current(w).event \in poison' \/ faults' > 0
  <2>1. CASE Records(Current(w).event)
    <3>1. Fault
      BY <2>1 DEF HandlerRaises
    <3>2. QED
      BY <3>1, FaultCounts
  <2>2. CASE ~Records(Current(w).event)
    <3>1. faults' = faults /\ Current(w).event \in poison
      BY <2>2 DEF HandlerRaises, Records
    <3>2. QED
      BY <1>1, <3>1, Numbers DEF Steady, DeliveryInv, Tables
  <2>3. QED
    BY <2>1, <2>2
<1>3. Tables' /\ Grows /\ Delivered'
  BY <1>1, <1>2, SteadyGrows DEF DeliveryInv, Tables
<1>4. Working'
  BY <1>1, <1>2, <1>3, CurrentEvent, OneWorker DEF Steady, Current, DeliveryInv, Ats
<1>5. DeadLetterIsEarned' /\ Safe
  BY <1>1, <1>3, EarnedStays DEF Steady, DeliveryInv, Safe, Settled
<1>6. QED
  BY <1>1, <1>3, <1>4, <1>5, SafetyStays DEF DeliveryInv, Steady

\* An acknowledgement, reported or not, takes away an event that has its receipt.
LEMMA Acknowledged ==
  ASSUME DeliveryInv, NEW w \in Workers, Acknowledge(w) \/ AcknowledgeRaises(w)
  PROVE  DeliveryInv'
<1>1. /\ Steady /\ deadLetters' = deadLetters /\ receipts' = receipts /\ work[w].at = "ack"
      /\ \/ pending' = pending /\ idle' = idle
         \/ pending' = pending \ {Current(w).event} /\ idle' = idle \ {Current(w).event}
  BY DEF Acknowledge, AcknowledgeRaises, Steady, letters
<1>2. faults' \in 0 .. MaxFaults /\ faults <= faults'
  BY FaultCounts, Numbers DEF Acknowledge, AcknowledgeRaises, DeliveryInv, Tables
<1>3. /\ pending' \subseteq pending /\ idle' \subseteq pending'
      /\ \A e \in pending : e \in pending' \/ e = Current(w).event
  BY <1>1 DEF DeliveryInv, Tables
<1>4. Tables' /\ Grows /\ Delivered'
  BY <1>1, <1>2, <1>3, SteadyGrows DEF DeliveryInv, Tables
<1>5. Working'
  <2>1. CASE Acknowledge(w)
    BY <1>1, <1>4, <2>1, BatchAdvances DEF Acknowledge, Steady
  <2>2. CASE AcknowledgeRaises(w)
    <3>1. Become(w, "failed", work[w].batch) /\ faults' > 0
      BY <2>2, FaultCounts DEF AcknowledgeRaises, Goto
    <3>2. QED
      BY <1>1, <1>4, <3>1, CurrentEvent, OneWorker DEF Steady, DeliveryInv, Ats
  <2>3. QED
    BY <2>1, <2>2
<1>6. Safe
  <2>1. Current(w).event \in receipts
    BY <1>1 DEF DeliveryInv, Working, Doing
  <2>2. QED
    BY <1>1, <1>3, <2>1 DEF Steady, Safe, Settled
<1>7. DeadLetterIsEarned'
  BY <1>1, <1>4, EarnedStays DEF Steady, DeliveryInv
<1>8. QED
  BY <1>1, <1>4, <1>5, <1>6, <1>7, SafetyStays DEF DeliveryInv, Steady

LEMMA GivenUpOn ==
  ASSUME DeliveryInv, NEW w \in Workers, GiveUp(w)
  PROVE  DeliveryInv'
<1> DEFINE e == Current(w).event
           spent == Exhausted(w) /\ e \in pending \cap stream
<1>1. /\ Steady /\ receipts' = receipts /\ faults' = faults /\ work[w].at = "failed" /\ Advance(w)
      /\ spent => /\ deadLetters' = deadLetters \cup {e}
                  /\ pending' = pending \ {e} /\ idle' = idle \ {e}
      /\ ~spent => deadLetters' = deadLetters /\ pending' = pending /\ idle' = idle
  BY DEF GiveUp, Steady
<1>2. /\ e \in 1 .. cursor /\ e \in Ids /\ Current(w).count \in Nat
      /\ Current(w).count <= deliveries[e] /\ deliveries[e] \in 0 .. MaxAttempts
      /\ e \in poison \/ faults > 0
  BY <1>1, CurrentEvent DEF DeliveryInv, Working, Doing, Tables
<1>3. /\ pending' \subseteq pending /\ idle' \subseteq pending'
      /\ deadLetters' \subseteq 1 .. cursor /\ deadLetters \subseteq deadLetters'
      /\ \A x \in pending : x \in pending' \/ x \in deadLetters'
  BY <1>1, <1>2 DEF DeliveryInv, Tables
<1>4. Tables' /\ Grows /\ Delivered'
  <2>1. faults' \in 0 .. MaxFaults /\ faults <= faults'
    BY <1>1, Numbers DEF DeliveryInv, Tables
  <2>2. QED
    BY <1>1, <1>3, <2>1, SteadyGrows DEF DeliveryInv, Tables
<1>5. Working'
  BY <1>1, <1>4, BatchAdvances DEF Steady
<1>6. Safe
  BY <1>1, <1>3 DEF Steady, Safe, Settled
<1>7. DeadLetterIsEarned'
  <2>1. CASE spent
    <3>1. deliveries[e] = MaxAttempts
      BY <1>2, <2>1, Numbers DEF Exhausted
    <3>2. QED
      BY <1>1, <1>2, <2>1, <3>1 DEF Steady, DeliveryInv, DeadLetterIsEarned
  <2>2. CASE ~spent
    BY <1>1, <1>4, <2>2, EarnedStays DEF Steady, DeliveryInv
  <2>3. QED
    BY <2>1, <2>2
<1>8. QED
  BY <1>1, <1>4, <1>5, <1>6, <1>7, SafetyStays DEF DeliveryInv, Steady

LEMMA WorkerCrashed ==
  ASSUME DeliveryInv, NEW w \in Workers, Crash(w)
  PROVE  DeliveryInv'
<1>1. /\ Steady /\ pending' = pending /\ idle' = idle /\ deadLetters' = deadLetters
      /\ receipts' = receipts /\ Fault /\ Become(w, "poll", <<>>)
  BY DEF Crash, Steady, queue, letters
<1>2. Tables' /\ Grows /\ Delivered'
  <2>1. faults' \in 0 .. MaxFaults /\ faults <= faults'
    BY <1>1, FaultCounts
  <2>2. QED
    BY <1>1, <2>1, SteadyGrows DEF DeliveryInv, Tables
<1>3. GoodBatch(<<>>, cursor', deliveries')
  BY Numbers DEF GoodBatch
<1>4. Working'
  BY <1>1, <1>2, <1>3, OneWorker DEF DeliveryInv, Ats
<1>5. DeadLetterIsEarned' /\ Safe
  BY <1>1, <1>2, EarnedStays DEF Steady, DeliveryInv, Safe, Settled
<1>6. QED
  BY <1>1, <1>2, <1>4, <1>5, SafetyStays DEF DeliveryInv, Steady

-----------------------------------------------------------------------------
LEMMA DeliveryInit == Init => DeliveryInv
<1> SUFFICES ASSUME Init PROVE DeliveryInv
  OBVIOUS
<1>1. Tables
  BY Numbers DEF Init, Tables, Endings
<1>2. Delivered
  BY DEF Init, Delivered
<1>3. GoodBatch(<<>>, cursor, deliveries)
  BY Numbers DEF GoodBatch
<1>4. \A w \in Workers : work[w].at = "poll" /\ work[w].batch = <<>>
  BY DEF Init, Polling
<1>5. work \in [Workers -> [at : Ats, batch : Seq(Deliveries)]]
  BY DEF Init, Polling, Ats
<1>6. Working
  BY <1>3, <1>4, <1>5 DEF Working, Doing
<1>7. NothingIsDropped /\ DeadLetterIsEarned
  BY DEF Init, NothingIsDropped, DeadLetterIsEarned
<1>8. QED
  BY <1>1, <1>2, <1>6, <1>7 DEF DeliveryInv

LEMMA NothingHappens ==
  ASSUME DeliveryInv, UNCHANGED vars
  PROVE  DeliveryInv'
<1>1. /\ Steady /\ pending' = pending /\ idle' = idle /\ deadLetters' = deadLetters
      /\ receipts' = receipts /\ faults' = faults /\ work' = work
  BY DEF vars, queue, letters, Steady
<1>2. Tables' /\ Grows /\ Delivered'
  BY <1>1, SteadyGrows, Numbers DEF DeliveryInv, Tables
<1>3. Working' /\ DeadLetterIsEarned' /\ Safe
  BY <1>1, <1>2, NobodyMoves, EarnedStays DEF Steady, DeliveryInv, Safe, Settled
<1>4. QED
  BY <1>1, <1>2, <1>3, SafetyStays DEF DeliveryInv, Steady

LEMMA DeliveryStep == DeliveryInv /\ [Next]_vars => DeliveryInv'
<1> SUFFICES ASSUME DeliveryInv, [Next]_vars PROVE DeliveryInv'
  OBVIOUS
<1>1. CASE \E bad \in BOOLEAN : Publish(bad)
  BY <1>1, Published
<1>2. CASE \E w \in Workers : WorkerStep(w) \/ Crash(w)
  <2>1. PICK w \in Workers : WorkerStep(w) \/ Crash(w)
    BY <1>2
  <2>2. QED
    BY <2>1, StaleClaimed, DeliveriesCounted, GroupRead, HandlerReturned, HandlerRaised,
       Acknowledged, GivenUpOn, WorkerCrashed DEF WorkerStep
<1>3. CASE \E e \in Ids : BecomesIdle(e)
  BY <1>3, TimePasses
<1>4. CASE \E e \in Ids : ReplayDeadLetter(e)
  BY <1>4, LetterReplayed
<1>5. CASE \E e \in Ids : RecordReplay(e) \/ ReplayInterrupted(e) \/ RetryReplay(e)
  BY <1>5, ReplayGoesOn
<1>6. CASE UNCHANGED vars
  BY <1>6, NothingHappens
<1>7. QED
  BY <1>1, <1>2, <1>3, <1>4, <1>5, <1>6 DEF Next

LEMMA DeliveryHolds == Spec => []DeliveryInv
BY DeliveryInit, DeliveryStep, PTL DEF Spec

-----------------------------------------------------------------------------
(* What the run checks, for any number of workers, events and faults.       *)

\* The stream, the group's bookkeeping and every worker's batch keep their types: a batch
\* neither exceeds its size nor holds an event twice.
THEOREM DeliveryTyped == Spec => []TypeOK
<1>1. ASSUME DeliveryInv PROVE TypeOK
  <2>1. ASSUME NEW w \in Workers
        PROVE  /\ work[w].at \in Ats
               /\ work[w].batch \in Seq(Deliveries) /\ Len(work[w].batch) <= BatchSize
               /\ \A i, j \in DOMAIN work[w].batch :
                    work[w].batch[i].event = work[w].batch[j].event => i = j
               /\ work[w].at \in {"handle", "ack", "failed"} => work[w].batch # <<>>
    BY <1>1 DEF DeliveryInv, Working, Doing, GoodBatch
  <2>2. DOMAIN work = Workers
    BY <1>1 DEF DeliveryInv, Working
  <2>3. QED
    BY <1>1, <2>1, <2>2 DEF DeliveryInv, Tables, TypeOK, Ats, Endings
<1>2. QED
  BY <1>1, DeliveryHolds, PTL

\* No crash, takeover or late acknowledgement loses an event the group was given.
THEOREM NoEventDropped == Spec => []NothingIsDropped
<1>1. DeliveryInv => NothingIsDropped
  BY DEF DeliveryInv
<1>2. QED
  BY <1>1, DeliveryHolds, PTL

\* An event is dead-lettered after its last attempt only, and never for slow workers alone.
THEOREM DeadLettersEarned == Spec => []DeadLetterIsEarned
<1>1. DeliveryInv => DeadLetterIsEarned
  BY DEF DeliveryInv
<1>2. QED
  BY <1>1, DeliveryHolds, PTL
=============================================================================

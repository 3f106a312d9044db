--------------------------- MODULE EventDelivery ---------------------------
(***************************************************************************)
(* The governed event stream in redis mode: one consumer group, the        *)
(* workers that read, take over, process, acknowledge and dead-letter its  *)
(* events, the receipts they write, and the administrator's replays.       *)
(* A Redis command or script, and a database transaction, is one action;   *)
(* other workers run between any two of them.  Identifiers are numbered in *)
(* the order in which Redis assigns them.                                  *)
(***************************************************************************)
EXTENDS Naturals, Sequences, FiniteSets

CONSTANTS Workers,        \* consumers of the group
          BatchSize,      \* count of process_once
          MaxAttempts,    \* max_delivery_attempts
          MaxLen,         \* max_len, below which XADD never trims the stream
          MaxEvents,      \* bound on the identifiers assigned
          MaxFaults       \* bound on crashes, failed transactions and lost replies together

ASSUME DeliveryAssumption ==
  /\ {BatchSize, MaxAttempts, MaxLen} \subseteq Nat \ {0}
  /\ {MaxEvents, MaxFaults} \subseteq Nat

VARIABLES stream,         \* entries the stream holds
          last,           \* identifier assigned last
          cursor,         \* identifier the group was given last
          pending,        \* the group's pending entries
          idle,           \* pending entries not delivered for min_idle_ms
          deliveries,     \* times_delivered, counted up to MaxAttempts
          poison,         \* events outside the approved contract
          receipts,       \* event_processing_receipts
          deadLetters,    \* the dead-letter stream, by original_event_id
          replay,         \* the request that replays each dead letter
          recorded,       \* replays the integrity ledger knows
          work,           \* what each worker is doing
          faults

queue == <<stream, last, cursor, pending, idle, deliveries>>
letters == <<deadLetters, replay, recorded>>
vars == <<queue, poison, receipts, letters, work, faults>>

Ids == 1 .. MaxEvents
Deliveries == [event : Ids, count : 0 .. MaxAttempts]
Polling == [at |-> "poll", batch |-> <<>>]
Fault == faults < MaxFaults /\ faults' = faults + 1
Become(w, at, batch) == work' = [work EXCEPT ![w] = [at |-> at, batch |-> batch]]
Goto(w, at) == Become(w, at, work[w].batch)
Current(w) == Head(work[w].batch)
\* The current event is done with; the rest of the batch follows, or the next poll.
Advance(w) ==
  LET rest == Tail(work[w].batch) IN Become(w, IF rest = <<>> THEN "poll" ELSE "handle", rest)
\* At most n members of a set of identifiers, the lowest ones, in order.
Lowest(n, ids) ==
  LET taken == {e \in ids : Cardinality({x \in ids : x < e}) < n} IN
  [i \in 1 .. Cardinality(taken) |->
     CHOOSE e \in taken : Cardinality({x \in taken : x < e}) = i - 1]
Among(e, batch) == \E i \in DOMAIN batch : batch[i] = e

Init ==
  /\ stream = {} /\ last = 0 /\ cursor = 0
  /\ pending = {} /\ idle = {}
  /\ deliveries = [e \in Ids |-> 0]
  /\ poison = {} /\ receipts = {}
  /\ deadLetters = {} /\ recorded = {}
  /\ replay = [e \in Ids |-> "none"]
  /\ work = [w \in Workers |-> Polling]
  /\ faults = 0

-----------------------------------------------------------------------------
(* The producers and time.                                                 *)

\* XADD MAXLEN ~ may trim the oldest entries, and keeps max_len of them at least.
Trims(grown, kept) ==
  /\ \A x \in grown \ kept, y \in kept : x < y
  /\ kept = grown \/ Cardinality(kept) >= MaxLen

\* publish_event: a new key appends an entry.  A known key only returns its entry.
Publish(bad) ==
  LET e == last + 1
      grown == stream \cup {e}
  IN
  /\ e \in Ids
  /\ last' = e
  /\ \E kept \in SUBSET grown : Trims(grown, kept) /\ stream' = kept
  /\ poison' = IF bad THEN poison \cup {e} ELSE poison
  /\ UNCHANGED <<cursor, pending, idle, deliveries, receipts, letters, work, faults>>

\* min_idle_ms pass since the last delivery.
BecomesIdle(e) ==
  /\ e \in pending \ idle
  /\ idle' = idle \cup {e}
  /\ UNCHANGED <<stream, last, cursor, pending, deliveries, poison, receipts, letters, work, faults>>

-----------------------------------------------------------------------------
(* process_once: take over stale entries, fill the batch with new ones.    *)

\* Slip: entries out of attempts are left where they are.
Stale_Retriable == {e \in idle : deliveries[e] < MaxAttempts}

Stale == idle

\* XAUTOCLAIM drops the entries that were trimmed meanwhile.
ClaimStale(w) ==
  LET gone == pending \ stream
      claimed == Lowest(BatchSize, Stale \cap stream)
  IN
  /\ work[w].at = "poll"
  /\ pending' = pending \ gone
  /\ idle' = {e \in idle \ gone : ~Among(e, claimed)}
  /\ deliveries' = [e \in Ids |-> IF Among(e, claimed) /\ deliveries[e] < MaxAttempts
                                  THEN deliveries[e] + 1 ELSE deliveries[e]]
  /\ Become(w, "count", [i \in DOMAIN claimed |-> [event |-> claimed[i], count |-> 0]])
  /\ UNCHANGED <<stream, last, cursor, poison, receipts, letters, faults>>

\* XPENDING comes after XAUTOCLAIM: the entry may have been acknowledged in between.
CountDeliveries(w) ==
  /\ work[w].at = "count"
  /\ Become(w, "read",
       [i \in DOMAIN work[w].batch |->
          LET e == work[w].batch[i].event IN
          [event |-> e, count |-> IF e \in pending THEN deliveries[e] ELSE 1]])
  /\ UNCHANGED <<queue, poison, receipts, letters, faults>>

Room(w) == BatchSize - Len(work[w].batch)

\* Slip: the group is read from the start of the stream.
Undelivered_FromStart == stream

Undelivered == {e \in stream : e > cursor}

\* Slip: events are read without being kept pending.
ReadGroup_NoAck(w) ==
  LET new == Lowest(Room(w), Undelivered)
      batch == work[w].batch \o [i \in DOMAIN new |-> [event |-> new[i], count |-> 1]]
  IN
  /\ work[w].at = "read"
  /\ cursor' = IF new = <<>> THEN cursor ELSE new[Len(new)]
  /\ Become(w, IF batch = <<>> THEN "poll" ELSE "handle", batch)
  /\ UNCHANGED <<stream, last, pending, idle, deliveries, poison, receipts, letters, faults>>

ReadGroup(w) ==
  LET new == Lowest(Room(w), Undelivered)
      batch == work[w].batch \o [i \in DOMAIN new |-> [event |-> new[i], count |-> 1]]
  IN
  /\ work[w].at = "read"
  /\ cursor' = IF new = <<>> THEN cursor ELSE new[Len(new)]
  /\ pending' = pending \cup {new[i] : i \in DOMAIN new}
  /\ deliveries' = [e \in Ids |-> IF Among(e, new) THEN 1 ELSE deliveries[e]]
  /\ Become(w, IF batch = <<>> THEN "poll" ELSE "handle", batch)
  /\ UNCHANGED <<stream, last, idle, poison, receipts, letters, faults>>

-----------------------------------------------------------------------------
(* process_once: handle, acknowledge, or give up on each event of the batch. *)

\* Slip: a receipt that is already there is an error.
Records_Insert(e) == e \notin poison /\ e \notin receipts

\* The contract holds; INSERT OR IGNORE accepts an event that was processed before.
Records(e) == e \notin poison

HandlerReturns(w) ==
  /\ work[w].at = "handle"
  /\ Records(Current(w).event)
  /\ receipts' = receipts \cup {Current(w).event}
  /\ Goto(w, "ack")
  /\ UNCHANGED <<queue, poison, letters, faults>>

\* The contract is not met, or the database cannot be written.
HandlerRaises(w) ==
  /\ work[w].at = "handle"
  /\ IF Records(Current(w).event) THEN Fault ELSE UNCHANGED faults
  /\ Goto(w, "failed")
  /\ UNCHANGED <<queue, poison, receipts, letters>>

Acknowledge(w) ==
  /\ work[w].at = "ack"
  /\ pending' = pending \ {Current(w).event}
  /\ idle' = idle \ {Current(w).event}
  /\ Advance(w)
  /\ UNCHANGED <<stream, last, cursor, deliveries, poison, receipts, letters, faults>>

\* XACK raises, executed or not: the same handler treats it as a failure to process.
AcknowledgeRaises(w) ==
  /\ work[w].at = "ack"
  /\ Fault
  /\ \/ UNCHANGED <<pending, idle>>
     \/ pending' = pending \ {Current(w).event} /\ idle' = idle \ {Current(w).event}
  /\ Goto(w, "failed")
  /\ UNCHANGED <<stream, last, cursor, deliveries, poison, receipts, letters>>

Exhausted(w) == Current(w).count >= MaxAttempts

\* The last attempt moves an entry that is still pending, and still in the stream.
GiveUp(w) ==
  LET e == Current(w).event IN
  /\ work[w].at = "failed"
  /\ IF Exhausted(w) /\ e \in pending \cap stream
     THEN deadLetters' = deadLetters \cup {e} /\ pending' = pending \ {e} /\ idle' = idle \ {e}
     ELSE UNCHANGED <<deadLetters, pending, idle>>
  /\ Advance(w)
  /\ UNCHANGED <<stream, last, cursor, deliveries, poison, receipts, replay, recorded, faults>>

\* The process dies, or an error outside the handler ends process_once.
Crash(w) ==
  /\ work[w].at # "poll"
  /\ Fault
  /\ Become(w, "poll", <<>>)
  /\ UNCHANGED <<queue, poison, receipts, letters>>

-----------------------------------------------------------------------------
(* The administrator.                                                      *)

\* The script appends a copy under a new identifier and deletes the dead letter.
ReplayDeadLetter(d) ==
  LET e == last + 1 IN
  /\ d \in deadLetters
  /\ e \in Ids
  /\ last' = e
  /\ stream' = stream \cup {e}
  /\ poison' = IF d \in poison THEN poison \cup {e} ELSE poison
  /\ deadLetters' = deadLetters \ {d}
  /\ replay' = [replay EXCEPT ![d] = "moved"]
  /\ UNCHANGED <<cursor, pending, idle, deliveries, receipts, recorded, work, faults>>

RecordReplay(d) ==
  /\ replay[d] = "moved"
  /\ recorded' = recorded \cup {d}
  /\ replay' = [replay EXCEPT ![d] = "answered"]
  /\ UNCHANGED <<queue, poison, receipts, deadLetters, work, faults>>

\* The process dies, or the ledger cannot be written: the request has no success to report.
ReplayInterrupted(d) ==
  /\ replay[d] = "moved"
  /\ Fault
  /\ replay' = [replay EXCEPT ![d] = "interrupted"]
  /\ UNCHANGED <<queue, poison, receipts, deadLetters, recorded, work>>

\* The same key again: the script returns the first replay, which counts as deduplicated.
RetryReplay(d) ==
  /\ replay[d] = "interrupted"
  /\ replay' = [replay EXCEPT ![d] = "answered"]
  /\ UNCHANGED <<queue, poison, receipts, deadLetters, recorded, work, faults>>

-----------------------------------------------------------------------------
WorkerStep(w) ==
  \/ ClaimStale(w)
  \/ CountDeliveries(w)
  \/ ReadGroup(w)
  \/ HandlerReturns(w)
  \/ HandlerRaises(w)
  \/ Acknowledge(w)
  \/ AcknowledgeRaises(w)
  \/ GiveUp(w)

Next ==
  \/ \E bad \in BOOLEAN : Publish(bad)
  \/ \E w \in Workers : WorkerStep(w) \/ Crash(w)
  \/ \E e \in Ids :
       \/ BecomesIdle(e)
       \/ ReplayDeadLetter(e)
       \/ RecordReplay(e)
       \/ ReplayInterrupted(e)
       \/ RetryReplay(e)

\* Every worker runs, is restarted when it dies, and time passes.
Fairness ==
  /\ \A w \in Workers : WF_vars(WorkerStep(w))
  /\ \A e \in Ids : WF_vars(BecomesIdle(e))

Spec == Init /\ [][Next]_vars /\ Fairness

-----------------------------------------------------------------------------
(* What must hold.                                                         *)

\* The event has reached one of its two ends: processed, or given up on.
Settled(e) == e \in receipts \cup deadLetters \/ replay[e] # "none"

\* Type invariant: what is pending has been given to the group, and a batch neither exceeds
\* the size the worker was configured with nor holds an event twice.
TypeOK ==
  /\ last \in 0 .. MaxEvents /\ cursor \in 0 .. last
  /\ stream \subseteq 1 .. last
  /\ pending \subseteq 1 .. cursor /\ idle \subseteq pending
  /\ deliveries \in [Ids -> 0 .. MaxAttempts]
  /\ poison \subseteq 1 .. last
  /\ receipts \cup deadLetters \cup recorded \subseteq 1 .. cursor
  /\ replay \in [Ids -> {"none", "moved", "interrupted", "answered"}]
  /\ DOMAIN work = Workers
  /\ \A w \in Workers :
       /\ work[w].at \in {"poll", "count", "read", "handle", "ack", "failed"}
       /\ work[w].batch \in Seq(Deliveries) /\ Len(work[w].batch) <= BatchSize
       /\ \A i, j \in DOMAIN work[w].batch :
            work[w].batch[i].event = work[w].batch[j].event => i = j
       /\ work[w].at \in {"handle", "ack", "failed"} => work[w].batch # <<>>
  /\ faults \in 0 .. MaxFaults

\* An event the group was given stays pending until it has a receipt or a dead letter: no
\* crash, takeover or late acknowledgement loses it.  Only trimming does.
NothingIsDropped ==
  \A e \in 1 .. cursor : e \in pending \/ Settled(e) \/ e \notin stream

\* Only an event that was delivered MaxAttempts times is dead-lettered, and without a fault
\* only one outside the contract: slow workers that process an event twice do not fail it.
DeadLetterIsEarned ==
  \A e \in Ids :
    e \in deadLetters \/ replay[e] # "none" =>
      deliveries[e] = MaxAttempts /\ (e \in poison \/ faults > 0)

\* Every event reaches one of its ends, unless the stream is trimmed first.
EventIsSettled == \A e \in Ids : e \in stream ~> Settled(e) \/ e \notin stream

-----------------------------------------------------------------------------
(* What the documents say and the code does not keep; see README, Findings. *)

\* docs/API.md: a replay is recorded in the integrity ledger.
ReplayIsRecorded == \A d \in Ids : replay[d] = "answered" => d \in recorded
=============================================================================

----------------------------- MODULE AuditLedger -----------------------------
(***************************************************************************)
(* The integrity ledger, and the request threads that write to it.  A      *)
(* governance service first commits its own transaction and then, in       *)
(* another, appends the record of it: a thread that dies in between leaves *)
(* a change without a record.  An append reads the head of the chain under *)
(* a lock (pg_advisory_xact_lock, or BEGIN IMMEDIATE) and inserts a record *)
(* whose hash covers the head's.  A hash is named by the place of its      *)
(* record: records are unique, by their event identifier, and immutable.   *)
(***************************************************************************)
EXTENDS Naturals, Sequences, FiniteSets

CONSTANTS Threads,        \* request threads of all API processes
          Processes,      \* API processes
          People,         \* pseudonymous references of administrators
          Nobody,         \* a column that is NULL
          Quotas          \* bounds on each service's requests, and on failed calls and
                          \* restarts together: a set of choices

Bounded == {"control", "artifact", "outcome", "failure"}

ASSUME AuditLedgerAssumption ==
  /\ Nobody \notin People
  /\ Quotas \subseteq [Bounded -> Nat]

VARIABLES ledger,         \* audit_ledger, in order of sequence
          call,           \* what each thread is doing
          home,           \* the process a thread belongs to
          quota,          \* requests and failures left
          lost            \* history: records whose thread died before it inserted them

ledgerVars == <<ledger, call, home, quota, lost>>

Genesis == 0
NoRecord == [service |-> "none"]
Idle == [stage |-> "idle", record |-> NoRecord, head |-> Genesis]
Entry(service, subject, event, who) ==
  [service |-> service, subject |-> subject, event |-> event, who |-> who]

Stage(t) == call[t].stage
Recorded == {ledger[i].record : i \in DOMAIN ledger}
InHand == {call[t].record : t \in {u \in Threads : Stage(u) \in {"append", "insert"}}}
LastHash == Len(ledger)

LedgerInit ==
  /\ ledger = <<>>
  /\ call = [t \in Threads |-> Idle]
  /\ home \in [Threads -> Processes]
  /\ quota \in Quotas
  /\ lost = {}

Spend(kind) == quota[kind] > 0 /\ quota' = [quota EXCEPT ![kind] = @ - 1]

\* A thread takes up a request of a service.
Begin(t, service) == Stage(t) = "idle" /\ Spend(service)
Incident == Spend("failure")

\* The calls of threads that die, and the records that are lost with them.
Drop(threads) ==
  /\ call' = [t \in Threads |-> IF t \in threads THEN Idle ELSE call[t]]
  /\ lost' = lost \cup {call[t].record : t \in {u \in threads : Stage(u) \in {"append", "insert"}}}

\* Slip: a refusal is not worth a record.
ToRecord_NoRefusal(t, record) ==
  call' = [call EXCEPT ![t] =
    IF record.event = "rejected" THEN Idle
    ELSE [stage |-> "append", record |-> record, head |-> Genesis]]

\* The service's transaction has committed: its record is next.
ToRecord(t, record) ==
  call' = [call EXCEPT ![t] = [stage |-> "append", record |-> record, head |-> Genesis]]

\* Slip: the head is read before the lock is taken.
Unlocked_Always(t) == TRUE

\* No other append is between its read and its insert.
Unlocked(t) == \A u \in Threads \ {t} : Stage(u) # "insert"

ReadHead(t) ==
  /\ Stage(t) = "append"
  /\ Unlocked(t)
  /\ call' = [call EXCEPT ![t] = [stage |-> "insert", record |-> call[t].record,
                                   head |-> LastHash]]
  /\ UNCHANGED <<ledger, home, quota, lost>>

Insert(t) ==
  /\ Stage(t) = "insert"
  /\ ledger' = Append(ledger, [record |-> call[t].record, previous |-> call[t].head])
  /\ call' = [call EXCEPT ![t] = Idle]
  /\ UNCHANGED <<home, quota, lost>>

\* The append raises: the request fails, its change stays.
AppendFails(t) ==
  /\ Stage(t) \in {"append", "insert"}
  /\ Incident
  /\ Drop({t})
  /\ UNCHANGED <<ledger, home>>

LedgerStep(t) == ReadHead(t) \/ Insert(t) \/ AppendFails(t)

\* The chain as verify walks it: each record names the one before it.
Verifies == \A i \in DOMAIN ledger : ledger[i].previous = i - 1
=============================================================================

--------------------------- MODULE OfferLifecycle ---------------------------
(***************************************************************************)
(* What the service promises about one customer's offers, whatever the     *)
(* number of request threads, the timing of their transactions and their   *)
(* crashes: an offer moves one way through its phases, the provider is     *)
(* asked to act only for an offer the customer has accepted, and an offer  *)
(* is settled only when the provider has acted, together with the record   *)
(* that lets the action be verified afterwards.                            *)
(***************************************************************************)
EXTENDS Naturals

CONSTANT Offers                 \* recommendation identifiers

VARIABLES phase,                \* where the offer is in its life
          effect,               \* the provider's side: none, asked, done
          verifiable            \* a verification record exists

promise == <<phase, effect, verifiable>>

(* withheld  exists but is not customer-visible                             *)
(* open      on display                                                     *)
(* accepted  the customer authorized it; it may be in execution             *)
(* settled   recorded as fulfilled                                          *)
(* closed    expired, or refused by a reviewer                              *)
(* erased    deleted with the customer's derived data                       *)
Phases == {"none", "withheld", "open", "accepted", "settled", "closed", "erased"}
Alive == Phases \ {"none", "erased"}

PromiseInit ==
  /\ phase = [o \in Offers |-> "none"]
  /\ effect = [o \in Offers |-> "none"]
  /\ verifiable = [o \in Offers |-> FALSE]

Move(o, from, to) ==
  /\ phase[o] \in from
  /\ phase' = [phase EXCEPT ![o] = to]
  /\ UNCHANGED <<effect, verifiable>>

Propose(o) == Move(o, {"none"}, "withheld") \/ Move(o, {"none"}, "open")
Display(o) == Move(o, {"withheld"}, "open")
Accept(o) == Move(o, {"open"}, "accepted")
Close(o) == Move(o, Alive, "closed")

Ask(o) ==
  /\ phase[o] = "accepted"
  /\ effect[o] = "none"
  /\ effect' = [effect EXCEPT ![o] = "asked"]
  /\ UNCHANGED <<phase, verifiable>>

\* The request may reach the provider late: the offer's phase is of no account.
Act(o) ==
  /\ effect[o] = "asked"
  /\ effect' = [effect EXCEPT ![o] = "done"]
  /\ UNCHANGED <<phase, verifiable>>

Settle(o) ==
  /\ phase[o] = "accepted"
  /\ effect[o] = "done"
  /\ phase' = [phase EXCEPT ![o] = "settled"]
  /\ verifiable' = [verifiable EXCEPT ![o] = TRUE]
  /\ UNCHANGED effect

EraseAll ==
  /\ phase' = [o \in Offers |-> IF phase[o] \in Alive THEN "erased" ELSE phase[o]]
  /\ verifiable' = [o \in Offers |-> FALSE]
  /\ UNCHANGED effect

PromiseNext ==
  \/ EraseAll
  \/ \E o \in Offers :
       Propose(o) \/ Display(o) \/ Accept(o) \/ Close(o) \/ Ask(o) \/ Act(o) \/ Settle(o)

PromiseSpec == PromiseInit /\ [][PromiseNext]_promise
=============================================================================

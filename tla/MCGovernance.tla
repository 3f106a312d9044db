---------------------------- MODULE MCGovernance ----------------------------
(***************************************************************************)
(* A small instance of Governance: each behaviour gives one or more of the *)
(* services its requests, so that the three meet in the ledger.            *)
(***************************************************************************)
EXTENDS Governance, TLC

Quota(controls, artifacts, outcomes, failures) ==
  [control |-> controls, artifact |-> artifacts, outcome |-> outcomes, failure |-> failures]
MCQuotas ==
  {Quota(4, 0, 0, 1), Quota(0, 5, 0, 0), Quota(0, 4, 0, 1), Quota(0, 3, 0, 2), Quota(1, 1, 2, 1)}

MCSymmetry == Permutations(Threads) \cup Permutations(Processes) \cup Permutations(People)
=============================================================================

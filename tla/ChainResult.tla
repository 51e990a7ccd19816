----------------------------- MODULE ChainResult -----------------------------
(***************************************************************************)
(* struct ChainResult of orchestrator.rs, the monoid in which the address  *)
(* scans of a chain are summed. The two vectors are sets here: the hashes  *)
(* go into a HashSet, and the order of the errors is the order of lines in *)
(* one message. The frontier is an Option as in DepositRules, and U64Max   *)
(* is the identity that must not leak into the persisted state.            *)
(***************************************************************************)
EXTENDS Integers, Functions

CONSTANT U64Max
ASSUME U64Assumption == U64Max \in Nat

ChainResultOf(hashes, front, errs) ==
  [processed_tx_hashes |-> hashes, confirmed_frontier |-> front, errors |-> errs]

EMPTY == ChainResultOf({}, {U64Max}, {})

\* Faulty variant: None is the identity of the minimum.
MinOfSome(a, b) == {x \in a \cup b : \A y \in a \cup b : x <= y}

\* Option<u64> minimum with None absorbing.
MinFrontier(a, b) ==
  {x \in a \cup b : a # {} /\ b # {} /\ \A y \in a \cup b : x <= y}

Add(r, s) ==
  ChainResultOf(r.processed_tx_hashes \cup s.processed_tx_hashes,
                MinFrontier(r.confirmed_frontier, s.confirmed_frontier),
                r.errors \cup s.errors)

\* The sum of the results of a family of scans, folded from EMPTY.
Sum(results) == FoldFunction(Add, EMPTY, results)

\* The frontier to persist: the identity is filtered out.
latest_seen_block(r) == r.confirmed_frontier \ {U64Max}

=============================================================================

----------------------------- MODULE FetchContract -----------------------------
(***************************************************************************)
(* What the trait BlockExplorer promises of fetch_usdc_receives: one       *)
(* answer, either an error or the receives of the window up to a frontier  *)
(* inside it, none missing and none from beyond. Sweep and DepositCheck    *)
(* rely on this contract.                                                  *)
(***************************************************************************)
EXTENDS Blocks

CONSTANTS
  Log,          \* Transfer logs to the address
  log_block     \* [Log -> Nat]: the block of each log

VARIABLES
  since_block, to_block,   \* the requested window
  answer                   \* {} until the call returns, then one Result

LogsIn(from, to) ==
  {l \in Log : from <= log_block[l] /\ log_block[l] <= to}

FetchReceivesOk(logs, f) == [ok |-> TRUE, receives |-> logs, confirmed_frontier |-> f]

FetchErr == [ok |-> FALSE, receives |-> {}, confirmed_frontier |-> 0]

Init ==
  /\ since_block \in Nat
  /\ to_block \in Nat
  /\ answer = {}

Answer ==
  /\ answer = {}
  /\ \/ answer' = {FetchErr}
     \/ \E f \in FetchFrontiers(since_block, to_block) :
          answer' = {FetchReceivesOk(LogsIn(since_block, f), f)}
  /\ UNCHANGED <<since_block, to_block>>

Spec == Init /\ [][Answer]_<<since_block, to_block, answer>>

=============================================================================

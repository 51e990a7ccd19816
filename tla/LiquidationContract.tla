------------------------- MODULE LiquidationContract -------------------------
(***************************************************************************)
(* What the worker may take from the trait CoinbaseClient, and what Sweep  *)
(* takes from the worker: each of the two calls of a job returns once. An  *)
(* Ok means that Coinbase did it, exactly once; an error that it did it at *)
(* most once. No withdrawal is asked for unless the sale returned Ok.      *)
(***************************************************************************)
EXTENDS Integers

CONSTANT Job    \* deposits handed to the worker, within max_auto_amount

VARIABLES
  state,      \* [Job -> how far the job got]
  sold,       \* [Job -> Nat]: sales Coinbase executed for it
  paid        \* [Job -> Nat]: withdrawals Coinbase initiated for it

vars == <<state, sold, paid>>

Init ==
  /\ state = [j \in Job |-> "queued"]
  /\ sold = [j \in Job |-> 0]
  /\ paid = [j \in Job |-> 0]

Move(j, from, to) == state[j] = from /\ state' = [state EXCEPT ![j] = to]

\* sell_usdc returns Ok, or an error before or after its effect.
Sell(j, to, effects) ==
  /\ Move(j, "queued", to)
  /\ \E n \in effects : sold' = [sold EXCEPT ![j] = @ + n]
  /\ UNCHANGED paid

\* withdraw_usd, likewise.
Withdraw(j, to, effects) ==
  /\ Move(j, "sold", to)
  /\ \E n \in effects : paid' = [paid EXCEPT ![j] = @ + n]
  /\ UNCHANGED sold

Next ==
  \E j \in Job :
    \/ Sell(j, "sold", {1}) \/ Sell(j, "failed", {0, 1})
    \/ Withdraw(j, "initiated", {1}) \/ Withdraw(j, "failed", {0, 1})

Spec == Init /\ [][Next]_vars

=============================================================================

----------------------------- MODULE MCCoinbase -----------------------------
(***************************************************************************)
(* Instances of Coinbase for TLC.                                          *)
(***************************************************************************)
EXTENDS Coinbase, TLC

CONSTANTS j1, j2

Amounts == j1 :> 2 @@ j2 :> 3
Fees == j1 :> 1 @@ j2 :> 0

=============================================================================

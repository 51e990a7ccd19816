---------------------------- MODULE MCDepositCheck ----------------------------
(***************************************************************************)
(* Instances of DepositCheck for TLC.                                      *)
(***************************************************************************)
EXTENDS DepositCheck, TLC

CONSTANTS c1, c2, e1, e2, a1, a2, x1, x2, x3, t1, t2, t3

TwoEntries == e1 :> a1 @@ e2 :> a2
OneEntry == e1 :> a1

\* Two deposits to a1 in one block and one to a2 in the next.
ThreeTxs == x1 :> c1 @@ x2 :> c1 @@ x3 :> c1
ThreeTransfers == t1 :> x1 @@ t2 :> x2 @@ t3 :> x3
Recipients == t1 :> a1 @@ t2 :> a1 @@ t3 :> a2
Amounts == t1 :> 2 @@ t2 :> 2 @@ t3 :> 2
Prefixes == x1 :> 1 @@ x2 :> 2 @@ x3 :> 3
Blocks == x1 :> 1 @@ x2 :> 1 @@ x3 :> 2

OneTx == x1 :> c1
OneTransfer == t1 :> x1
OneRecipient == t1 :> a1
OneAmount == t1 :> 2
OnePrefix == x1 :> 1
OneBlock == x1 :> 1

OneConfirmation == c1 :> 1
FromBlockOne == c1 :> 1

=============================================================================

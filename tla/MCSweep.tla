------------------------------- MODULE MCSweep -------------------------------
(***************************************************************************)
(* Instances of Sweep for TLC. Chains, entries, addresses, transactions,   *)
(* transfers and processes are model values; the tables below give each    *)
(* instance its configuration and its ledger.                              *)
(***************************************************************************)
EXTENDS Sweep, TLC

CONSTANTS c1, c2, e1, e2, a1, a2, x1, x2, t1, t2, p1, p2

OneEntry == e1 :> a1
TwoEntries == e1 :> a1 @@ e2 :> a2
RepeatedEntry == e1 :> a1 @@ e2 :> a1

OneTx == x1 :> c1
TwoTxs == x1 :> c1 @@ x2 :> c1

OneTransfer == t1 :> x1
TwoTransfers == t1 :> x1 @@ t2 :> x2
TwoLogsInOneTx == t1 :> x1 @@ t2 :> x1

SameRecipient == t1 :> a1 @@ t2 :> a1
TwoRecipients == t1 :> a1 @@ t2 :> a2
OneRecipient == t1 :> a1

OrdinaryAmounts == t1 :> 2 @@ t2 :> 2
OneAmount == t1 :> 2
\* t2 exceeds max_auto_amount.
MixedAmounts == t1 :> 2 @@ t2 :> 4

DistinctPrefixes == x1 :> 1 @@ x2 :> 2
OnePrefix == x1 :> 1

OneConfirmation == c1 :> 1
FromBlockOne == c1 :> 1

\* Processes are interchangeable; used by the safety run only.
ProcSymmetry == Permutations(Proc)

=============================================================================

------------------------------ MODULE MCExplorer ------------------------------
(***************************************************************************)
(* Every window over seven blocks, with a log in each of them.             *)
(***************************************************************************)
EXTENDS Explorer, TLC

LogInEveryBlock == [l \in Log |-> l]

=============================================================================

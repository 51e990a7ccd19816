------------------------------ MODULE MCProcess ------------------------------
(***************************************************************************)
(* An instance of Process for TLC.                                         *)
(***************************************************************************)
EXTENDS Process, TLC

CONSTANTS p1, p2

Good == [len |-> 42, prefix |-> TRUE, hex |-> TRUE]

Config(addresses, parses, chat_id, secret) ==
  [deposit_addresses |-> addresses, parses |-> parses,
   telegram_chat_id |-> chat_id, coinbase_api_secret |-> secret]

\* A good file, and one for every check that can fail.
ConfigFiles ==
  {Config({Good}, TRUE, TRUE, TRUE),
   Config({Good}, FALSE, TRUE, TRUE),
   Config({}, TRUE, TRUE, TRUE),
   Config({Good, [Good EXCEPT !.hex = FALSE]}, TRUE, TRUE, TRUE),
   Config({Good}, TRUE, FALSE, TRUE),
   Config({Good}, TRUE, TRUE, FALSE)}

ProcSymmetry == Permutations(Proc)

=============================================================================

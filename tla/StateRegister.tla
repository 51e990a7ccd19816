---------------------------- MODULE StateRegister ----------------------------
(***************************************************************************)
(* The state file as Sweep sees it: a register that holds the results of   *)
(* passes. It is read and written as a whole, starts empty, and every save *)
(* adds one pass to what was there.                                        *)
(***************************************************************************)
EXTENDS Integers

VARIABLE content    \* the passes whose results the file holds

Init == content = {}

Save(r) == r \notin content /\ content' = content \cup {r}

Spec == Init /\ [][\E r \in content' : Save(r)]_content

=============================================================================

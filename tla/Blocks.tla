-------------------------------- MODULE Blocks --------------------------------
(***************************************************************************)
(* Block numbers: u64 arithmetic that saturates, and the frontiers a fetch *)
(* of a window of blocks may report.                                       *)
(***************************************************************************)
EXTENDS Integers

\* Faulty variant: a subtraction that does not stop at zero.
PlainSub(a, b) == a - b

SaturatingSub(a, b) == IF a >= b THEN a - b ELSE 0

SaturatingAdd(a, b, max) == IF a + b <= max THEN a + b ELSE max

\* The blocks a successful fetch_usdc_receives may report as its frontier: a
\* whole scan, or a partial one that ended after some block of the window.
FetchFrontiers(since, current) ==
  IF since > current THEN {current} ELSE since .. current

=============================================================================

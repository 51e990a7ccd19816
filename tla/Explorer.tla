------------------------------- MODULE Explorer -------------------------------
(***************************************************************************)
(* LiveBlockExplorer::fetch_usdc_receives: the window is fetched in chunks *)
(* of at most chunk_size blocks; a chunk that fails ends the call, with    *)
(* what was collected before it or, if there was nothing, with an error.   *)
(* A chunk's answer stands for the whole request, the retries of the       *)
(* provider and the parsing of its logs included.                          *)
(***************************************************************************)
EXTENDS Blocks

CONSTANTS
  Log,          \* Transfer logs to the address
  log_block,    \* [Log -> Nat]: the block of each log
  chunk_size,   \* eth_get_logs_chunk_size of the chain
  U64Max

\* A u64::MAX height would never let the loop end; no chain is near it.
ASSUME ExplorerAssumption ==
  /\ log_block \in [Log -> Nat]
  /\ chunk_size \in Nat \ {0}
  /\ U64Max \in Nat \ {0}

VARIABLES
  since_block, to_block,   \* the arguments
  from,                    \* first block of the next chunk
  last_chunk_end,          \* Option: end of the last chunk that succeeded
  receives,                \* logs collected
  status,                  \* "running", "ok" or "err"
  confirmed_frontier       \* the frontier returned with "ok"

vars == <<since_block, to_block, from, last_chunk_end, receives, status,
          confirmed_frontier>>

Init ==
  /\ since_block \in 0 .. U64Max - 1
  /\ to_block \in 0 .. U64Max - 1
  /\ from = since_block
  /\ last_chunk_end = {}
  /\ receives = {}
  /\ status = "running"
  /\ confirmed_frontier = 0

\* Faulty variant: the chunk is one block too long.
ChunkEndOneMore(f, to) ==
  LET end == SaturatingAdd(f, chunk_size, U64Max)
  IN  IF end <= to THEN end ELSE to

\* Faulty variant: the last chunk is not cut at the end of the window.
ChunkEndUncapped(f, to) == SaturatingAdd(f, chunk_size - 1, U64Max)

chunk_end(f, to) ==
  LET end == SaturatingAdd(f, chunk_size - 1, U64Max)
  IN  IF end <= to THEN end ELSE to

\* Faulty variant: the next chunk starts one block late.
NextFromLate(end) == SaturatingAdd(end, 2, U64Max)

NextFrom(end) == SaturatingAdd(end, 1, U64Max)

ChunkLogs(f, end) == {l \in Log : f <= log_block[l] /\ log_block[l] <= end}

ChunkOk ==
  LET end == chunk_end(from, to_block) IN
  /\ status = "running"
  /\ from <= to_block
  /\ receives' = receives \cup ChunkLogs(from, end)
  /\ last_chunk_end' = {end}
  /\ from' = NextFrom(end)
  /\ UNCHANGED <<since_block, to_block, status, confirmed_frontier>>

\* Faulty variant: a failed chunk is always an error.
FailAlways ==
  /\ status = "running"
  /\ from <= to_block
  /\ status' = "err"
  /\ UNCHANGED <<since_block, to_block, from, last_chunk_end, receives,
                 confirmed_frontier>>

\* Faulty variant: a failed chunk starts the scan over, without end.
RetryFromStart ==
  /\ status = "running"
  /\ from <= to_block
  /\ from' = since_block
  /\ last_chunk_end' = {}
  /\ receives' = {}
  /\ UNCHANGED <<since_block, to_block, status, confirmed_frontier>>

\* Faulty variant: a partial scan claims the whole window.
ClaimWholeWindow ==
  /\ status = "running"
  /\ from <= to_block
  /\ \/ last_chunk_end = {} /\ status' = "err" /\ UNCHANGED confirmed_frontier
     \/ last_chunk_end # {} /\ status' = "ok" /\ confirmed_frontier' = to_block
  /\ UNCHANGED <<since_block, to_block, from, last_chunk_end, receives>>

\* A failed request: an error without progress, else a partial success.
ChunkFails ==
  /\ status = "running"
  /\ from <= to_block
  /\ \/ /\ last_chunk_end = {}
        /\ status' = "err"
        /\ UNCHANGED confirmed_frontier
     \/ \E f \in last_chunk_end :
          /\ status' = "ok"
          /\ confirmed_frontier' = f
  /\ UNCHANGED <<since_block, to_block, from, last_chunk_end, receives>>

\* The window is done; an empty one counts as scanned up to to_block.
Finish ==
  /\ status = "running"
  /\ from > to_block
  /\ status' = "ok"
  /\ \/ last_chunk_end = {} /\ confirmed_frontier' = to_block
     \/ \E f \in last_chunk_end : confirmed_frontier' = f
  /\ UNCHANGED <<since_block, to_block, from, last_chunk_end, receives>>

\* The call has returned.
Returned == status # "running" /\ UNCHANGED vars

Next == ChunkOk \/ ChunkFails \/ Finish \/ Returned

Spec == Init /\ [][Next]_vars

\* Every request of a chunk is answered.
LiveSpec == Spec /\ WF_vars(ChunkOk \/ ChunkFails \/ Finish)

-----------------------------------------------------------------------------
(* Properties.                                                             *)

\* Types of the variables; a chunk never ends at u64::MAX, from where the loop
\* could not go on.
TypeOK ==
  /\ since_block \in 0 .. U64Max - 1 /\ to_block \in 0 .. U64Max - 1
  /\ from \in 0 .. U64Max
  /\ last_chunk_end \in SUBSET (0 .. U64Max - 1)
  /\ receives \in SUBSET Log
  /\ status \in {"running", "ok", "err"}
  /\ confirmed_frontier \in Nat

\* The caller's view: nothing until the call returns.
Answer ==
  IF status = "running" THEN {}
  ELSE IF status = "err"
       THEN {[ok |-> FALSE, receives |-> {}, confirmed_frontier |-> 0]}
       ELSE {[ok |-> TRUE, receives |-> receives,
              confirmed_frontier |-> confirmed_frontier]}

Contract == INSTANCE FetchContract WITH answer <- Answer

\* The chunked loop keeps the contract of the trait: the receives of a frontier
\* are complete up to it, and the frontier is in the window.
ImplementsContract == Contract!Spec

\* No request spans more blocks than the provider allows.
RequestBounded ==
  [][\A end \in last_chunk_end' \ last_chunk_end : end - from < chunk_size]_vars

\* An error means that no chunk succeeded: progress is never thrown away.
ErrWithoutProgress == status = "err" => last_chunk_end = {}

\* The call returns: the loop gets to the end of the window or to a failure.
Returns == <>(status # "running")

\* Between two chunks exactly the blocks before the next chunk are done.
LoopInv ==
  /\ last_chunk_end = {} => from = since_block /\ receives = {}
  /\ \A b \in last_chunk_end :
       /\ last_chunk_end = {b}
       /\ b \in since_block .. to_block
       /\ from = b + 1
       /\ receives = ChunkLogs(since_block, b)
  /\ status = "ok" =>
       /\ confirmed_frontier \in FetchFrontiers(since_block, to_block)
       /\ receives = ChunkLogs(since_block, confirmed_frontier)

=============================================================================

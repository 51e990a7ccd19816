---------------------------- MODULE ExplorerProofs ----------------------------
(***************************************************************************)
(* Proofs about Explorer, for every chunk size, every window and every set *)
(* of logs: the loop invariant, the bound on a request, and that the       *)
(* chunked loop implements FetchContract.                                  *)
(***************************************************************************)
EXTENDS Explorer, TLAPS

\* A chunk starts at from, ends in the window, and spans at most chunk_size
\* blocks; the next one starts right after it.
LEMMA ChunkArithmetic ==
  ASSUME NEW f \in 0 .. U64Max, NEW to \in 0 .. U64Max - 1, f <= to
  PROVE  /\ chunk_end(f, to) \in f .. to
         /\ chunk_end(f, to) - f < chunk_size
         /\ NextFrom(chunk_end(f, to)) = chunk_end(f, to) + 1
BY ExplorerAssumption DEF chunk_end, NextFrom, SaturatingAdd

\* Two adjacent ranges of blocks hold the logs of their union.
LEMMA ChunksJoin ==
  ASSUME NEW a \in Nat, NEW b \in Nat, NEW e \in Nat, a <= b + 1, b <= e
  PROVE  ChunkLogs(a, b) \cup ChunkLogs(b + 1, e) = ChunkLogs(a, e)
<1>1. \A l \in Log : log_block[l] \in Nat
  BY ExplorerAssumption
<1> QED
  BY <1>1 DEF ChunkLogs

\* A range that is empty holds no log.
LEMMA EmptyRange ==
  ASSUME NEW a \in Nat, NEW b \in Nat, b < a
  PROVE  ChunkLogs(a, b) = {}
<1>1. \A l \in Log : log_block[l] \in Nat
  BY ExplorerAssumption
<1> QED
  BY <1>1 DEF ChunkLogs

\* What ChunkOk does to the loop's variables.
LEMMA ChunkOkStep ==
  ASSUME TypeOK, LoopInv, ChunkOk
  PROVE  \E end \in from .. to_block :
           /\ end - from < chunk_size
           /\ last_chunk_end' = {end}
           /\ from' = end + 1
           /\ receives' = ChunkLogs(since_block, end)
<1> DEFINE end == chunk_end(from, to_block)
<1>1. /\ from \in 0 .. U64Max /\ to_block \in 0 .. U64Max - 1
      /\ since_block \in 0 .. U64Max - 1 /\ from <= to_block
  BY DEF TypeOK, ChunkOk
<1>2. /\ end \in from .. to_block
      /\ end - from < chunk_size
      /\ NextFrom(end) = end + 1
  BY <1>1, ChunkArithmetic
<1>3. /\ last_chunk_end' = {end}
      /\ from' = end + 1
      /\ receives' = receives \cup ChunkLogs(from, end)
  BY <1>2 DEF ChunkOk
<1>4. receives \cup ChunkLogs(from, end) = ChunkLogs(since_block, end)
  <2>1. CASE last_chunk_end = {}
    BY <2>1 DEF LoopInv
  <2>2. CASE last_chunk_end # {}
    <3>1. PICK b \in last_chunk_end : TRUE
      BY <2>2
    <3>2. /\ b \in since_block .. to_block
          /\ from = b + 1
          /\ receives = ChunkLogs(since_block, b)
      BY <3>1 DEF LoopInv
    <3>3. /\ since_block \in Nat /\ b \in Nat /\ end \in Nat
          /\ since_block <= b + 1 /\ b <= end
      BY <1>1, <1>2, <3>2, ExplorerAssumption
    <3> HIDE DEF end
    <3> QED
      BY <3>2, <3>3, ChunksJoin
  <2> QED
    BY <2>1, <2>2
<1> HIDE DEF end
<1> QED
  BY <1>2, <1>3, <1>4

\* Every variable of the loop keeps its type, and no chunk ends at u64::MAX.
THEOREM TypeCorrect == Spec => []TypeOK
<1>1. Init => TypeOK
  BY ExplorerAssumption DEF Init, TypeOK
<1>2. TypeOK /\ [Next]_vars => TypeOK'
  <2> SUFFICES ASSUME TypeOK, [Next]_vars
               PROVE  TypeOK'
    OBVIOUS
  <2> USE ExplorerAssumption
  <2>1. CASE ChunkOk
    <3>1. /\ chunk_end(from, to_block) \in from .. to_block
          /\ NextFrom(chunk_end(from, to_block)) = chunk_end(from, to_block) + 1
      BY <2>1, ChunkArithmetic DEF ChunkOk, TypeOK
    <3>2. ChunkLogs(from, chunk_end(from, to_block)) \subseteq Log
      BY DEF ChunkLogs
    <3> QED
      BY <2>1, <3>1, <3>2 DEF ChunkOk, TypeOK
  <2>2. CASE ChunkFails
    BY <2>2 DEF ChunkFails, TypeOK
  <2>3. CASE Finish
    BY <2>3 DEF Finish, TypeOK
  <2>4. CASE UNCHANGED vars
    BY <2>4 DEF vars, TypeOK
  <2> QED
    BY <2>1, <2>2, <2>3, <2>4 DEF Next, Returned
<1> QED
  BY <1>1, <1>2, PTL DEF Spec

\* Between two chunks the receives are those of exactly the blocks before the
\* next chunk, and an answer's are those up to its frontier.
THEOREM LoopCorrect == Spec => []LoopInv
<1>1. Init => LoopInv
  BY ExplorerAssumption DEF Init, LoopInv
<1>2. TypeOK /\ LoopInv /\ [Next]_vars => LoopInv'
  <2> SUFFICES ASSUME TypeOK, LoopInv, [Next]_vars
               PROVE  LoopInv'
    OBVIOUS
  <2>1. CASE ChunkOk
    <3>1. PICK end \in from .. to_block :
            /\ last_chunk_end' = {end}
            /\ from' = end + 1
            /\ receives' = ChunkLogs(since_block, end)
      BY <2>1, ChunkOkStep
    <3>2. since_block <= from
      BY DEF LoopInv, TypeOK
    <3>3. /\ UNCHANGED <<since_block, to_block, status>>
          /\ status = "running"
      BY <2>1 DEF ChunkOk
    <3>4. end \in since_block .. to_block
      BY <3>1, <3>2 DEF TypeOK
    <3>5. ChunkLogs(since_block, end)' = ChunkLogs(since_block, end)
      BY <3>3 DEF ChunkLogs
    <3> QED
      BY <3>1, <3>3, <3>4, <3>5 DEF LoopInv, ChunkLogs
  <2>2. CASE ChunkFails
    <3>1. \A b \in last_chunk_end : b \in FetchFrontiers(since_block, to_block)
      BY DEF LoopInv, FetchFrontiers, TypeOK
    <3> QED
      BY <2>2, <3>1 DEF ChunkFails, LoopInv, ChunkLogs
  <2>3. CASE Finish
    <3>1. CASE last_chunk_end = {}
      <4>1. /\ from = since_block /\ receives = {} /\ to_block < since_block
            /\ since_block \in Nat /\ to_block \in Nat
            /\ confirmed_frontier' = to_block
        BY <2>3, <3>1 DEF Finish, LoopInv, TypeOK
      <4>2. /\ to_block \in FetchFrontiers(since_block, to_block)
            /\ ChunkLogs(since_block, to_block) = {}
        BY <4>1, EmptyRange DEF FetchFrontiers
      <4> QED
        BY <2>3, <3>1, <4>1, <4>2 DEF Finish, LoopInv, ChunkLogs
    <3>2. CASE last_chunk_end # {}
      <4>1. PICK b \in last_chunk_end : confirmed_frontier' = b
        BY <2>3, <3>2 DEF Finish
      <4>2. /\ b \in FetchFrontiers(since_block, to_block)
            /\ receives = ChunkLogs(since_block, b)
        BY <4>1 DEF LoopInv, FetchFrontiers, TypeOK
      <4> QED
        BY <2>3, <3>2, <4>1, <4>2 DEF Finish, LoopInv, ChunkLogs
    <3> QED
      BY <3>1, <3>2
  <2>4. CASE UNCHANGED vars
    BY <2>4 DEF vars, LoopInv, ChunkLogs
  <2> QED
    BY <2>1, <2>2, <2>3, <2>4 DEF Next, Returned
<1> QED
  BY <1>1, <1>2, TypeCorrect, PTL DEF Spec

\* No eth_getLogs request spans more than chunk_size blocks.
THEOREM RequestBoundedHolds == Spec => RequestBounded
<1>1. TypeOK /\ LoopInv /\ [Next]_vars =>
        [\A end \in last_chunk_end' \ last_chunk_end :
            end - from < chunk_size]_vars
  <2> SUFFICES ASSUME TypeOK, LoopInv, [Next]_vars
               PROVE  \A end \in last_chunk_end' \ last_chunk_end :
                        end - from < chunk_size
    OBVIOUS
  <2>1. CASE ChunkOk
    BY <2>1, ChunkOkStep
  <2>2. CASE ChunkFails
    BY <2>2 DEF ChunkFails
  <2>3. CASE Finish
    BY <2>3 DEF Finish
  <2>4. CASE UNCHANGED vars
    BY <2>4 DEF vars
  <2> QED
    BY <2>1, <2>2, <2>3, <2>4 DEF Next, Returned
<1> QED
  BY <1>1, TypeCorrect, LoopCorrect, PTL DEF RequestBounded, Spec

\* An error is returned only if no chunk succeeded: the receives of a partial
\* scan are never thrown away.
THEOREM ErrWithoutProgressHolds == Spec => []ErrWithoutProgress
<1>1. Init => ErrWithoutProgress
  BY DEF Init, ErrWithoutProgress
<1>2. ErrWithoutProgress /\ [Next]_vars => ErrWithoutProgress'
  BY DEF ErrWithoutProgress, Next, vars, ChunkOk, ChunkFails, Finish, Returned
<1> QED
  BY <1>1, <1>2, PTL DEF Spec

\* The chunked loop implements the contract of the trait: it answers once,
\* with an error, or with the receives up to a frontier inside the window.
THEOREM Refinement == Spec => ImplementsContract
<1>1. Init => Contract!Init
  BY ExplorerAssumption DEF Init, Contract!Init, Answer
<1>2. TypeOK /\ LoopInv /\ LoopInv' /\ [Next]_vars =>
        [Contract!Answer]_<<since_block, to_block, Answer>>
  <2> SUFFICES ASSUME TypeOK, LoopInv, LoopInv', [Next]_vars
               PROVE  [Contract!Answer]_<<since_block, to_block, Answer>>
    OBVIOUS
  <2>1. CASE ChunkOk
    BY <2>1 DEF ChunkOk, Answer
  <2>2. ASSUME status = "running", status' = "ok",
               UNCHANGED <<since_block, to_block>>
        PROVE  Contract!Answer
    <3>1. /\ confirmed_frontier' \in FetchFrontiers(since_block, to_block)
          /\ receives' = ChunkLogs(since_block, confirmed_frontier')
      BY <2>2 DEF LoopInv, ChunkLogs, FetchFrontiers
    <3>2. Answer = {}
      BY <2>2 DEF Answer
    <3>3. Answer' = {Contract!FetchReceivesOk(
                       Contract!LogsIn(since_block, confirmed_frontier'),
                       confirmed_frontier')}
      BY <2>2, <3>1 DEF Answer, Contract!FetchReceivesOk, Contract!LogsIn,
                        ChunkLogs
    <3> QED
      BY <2>2, <3>1, <3>2, <3>3 DEF Contract!Answer, Contract!FetchFrontiers,
                                     FetchFrontiers
  <2>3. ASSUME status = "running", status' = "err",
               UNCHANGED <<since_block, to_block>>
        PROVE  Contract!Answer
    BY <2>3 DEF Contract!Answer, Answer, Contract!FetchErr
  <2>4. CASE ChunkFails
    BY <2>2, <2>3, <2>4 DEF ChunkFails
  <2>5. CASE Finish
    BY <2>2, <2>5 DEF Finish
  <2>6. CASE UNCHANGED vars
    BY <2>6 DEF vars, Answer
  <2> QED
    BY <2>1, <2>4, <2>5, <2>6 DEF Next, Returned
<1> QED
  BY <1>1, <1>2, TypeCorrect, LoopCorrect, PTL
  DEF Spec, ImplementsContract, Contract!Spec

=============================================================================

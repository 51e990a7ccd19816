------------------------------ MODULE SweepProofs ------------------------------
(***************************************************************************)
(* The safety properties of Sweep, for every configuration, ledger, set of *)
(* processes and bound. The invariants are proved in layers, each from the *)
(* ones before it: types, the lock, finality, coverage, single sale.       *)
(***************************************************************************)
EXTENDS Sweep, TLAPS

-----------------------------------------------------------------------------
(* The rules a pass is built from.                                         *)

\* Saturating subtraction stays in u64, and below its first operand.
LEMMA SaturatingSubType ==
  ASSUME NEW a \in Nat, NEW b \in Nat
  PROVE  SaturatingSub(a, b) \in Nat /\ SaturatingSub(a, b) <= a
BY DEF SaturatingSub

\* Every chain has a confirmation depth.
LEMMA ConfirmationBlocksType ==
  \A c \in Chain : confirmation_blocks_for(c) \in Nat
BY ConfigAssumption DEF confirmation_blocks_for

\* A scan window starts at a block number.
LEMMA SinceBlockType ==
  ASSUME NEW c \in Chain, NEW seen \in SUBSET Nat
  PROVE  since_block(seen, c) \subseteq Nat
BY ConfigAssumption DEF since_block, start_block_for

\* The frontier of a scan is at most what it scanned and at most the
\* confirmation floor.
LEMMA ScanFrontierType ==
  ASSUME NEW c \in Chain, NEW f \in Nat, NEW h \in Nat
  PROVE  /\ ScanFrontier(f, h, c) \in Nat
         /\ ScanFrontier(f, h, c) <= f
         /\ ScanFrontier(f, h, c) <= SaturatingSub(h, confirmation_blocks_for(c))
<1>1. confirmation_blocks_for(c) \in Nat
  BY ConfirmationBlocksType
<1>2. SaturatingSub(h, confirmation_blocks_for(c)) \in Nat
  BY <1>1, SaturatingSubType
<1> QED
  BY <1>2 DEF ScanFrontier

\* The frontier of a chain is one its scans reported.
LEMMA SumFrontierType ==
  ASSUME NEW f \in [Entry -> SUBSET Nat]
  PROVE  SumFrontier(f) \subseteq Nat
BY DEF SumFrontier

\* An audit record's key is a date and a prefix.
LEMMA MakeIdType ==
  ASSUME NEW at \in Nat, NEW x \in TxHash
  PROVE  make_id(at, x) \in Nat \X {tx_prefix[y] : y \in TxHash}
<1>1. at \div TicksPerDay \in Nat
  BY ConfigAssumption
<1> QED
  BY <1>1 DEF make_id

\* The record of a finished job is a BankPayment.
LEMMA RecordType ==
  ASSUME NEW j \in Job, j.state \in {"initiated", "failed"}
  PROVE  /\ Record(j) \in Payment
         /\ Record(j).deposit_tx_hash = tx_of[j.transfer]
BY MakeIdType, LedgerAssumption DEF Record, BankPayment, Payment, Outcome, Job

\* Pruning keeps the shape of the state, adds no hash and no record, and
\* leaves the frontiers alone.
LEMMA PruneType ==
  ASSUME NEW s \in PersistedState, NEW n \in Nat
  PROVE  /\ prune_stale_entries(s, n) \in PersistedState
         /\ prune_stale_entries(s, n).last_seen_block = s.last_seen_block
         /\ prune_stale_entries(s, n).processed_tx_hashes
              = s.processed_tx_hashes
                  \ {r.deposit_tx_hash : r \in {q \in s.bank_payments : IsStale(q, n)}}
BY DEF prune_stale_entries, PersistedState

-----------------------------------------------------------------------------
(* Types.                                                                  *)

LEMMA DefaultStateType == DefaultState \in PersistedState
BY DEF DefaultState, PersistedState

\* Merging a pass into the loaded state yields a state.
LEMMA MergedType ==
  ASSUME TypeOK, NEW p \in Proc, PassDone(p),
         NEW kept \in OnePerId({Record(j) : j \in jobs[p]})
  PROVE  /\ Merged(p, kept) \in PersistedState
         /\ kept \subseteq Payment
         /\ JobTxs(p) \subseteq TxHash
<1>1. jobs[p] \subseteq Job /\ mem[p] \in PersistedState
  BY DEF TypeOK
<1>2. kept \subseteq Payment
  BY <1>1, RecordType DEF PassDone, OnePerId
<1>3. JobTxs(p) \subseteq TxHash
  BY <1>1, LedgerAssumption DEF JobTxs, Job
<1>4. \A c \in Chain : MergeSeen(mem[p].last_seen_block[c],
                                 SumFrontier(frontier[p][c])) \in SUBSET Nat
  <2> TAKE c \in Chain
  <2>1. frontier[p][c] \in [Entry -> SUBSET Nat]
    BY DEF TypeOK
  <2>2. mem[p].last_seen_block[c] \in SUBSET Nat
    BY <1>1 DEF PersistedState
  <2> QED
    BY <2>1, <2>2, SumFrontierType DEF MergeSeen
<1> QED
  BY <1>1, <1>2, <1>3, <1>4 DEF Merged, PersistedState

\* Every step keeps the types.
THEOREM TypeCorrect == Spec => []TypeOK
<1> USE DEF chainVars, coinbaseVars, passVars, procVars, boundVars, historyVars
<1>1. Init => TypeOK
  BY DefaultStateType DEF Init, TypeOK
<1>2. TypeOK /\ [Next]_vars => TypeOK'
  <2> SUFFICES ASSUME TypeOK, [Next]_vars PROVE TypeOK'
    OBVIOUS
  <2>1. ASSUME NEW c \in Chain, NEW S \in SUBSET TxHash, Extend(c, S) PROVE TypeOK'
    BY <2>1 DEF TypeOK, Extend
  <2>2. ASSUME NEW x \in TxHash, Reorg(x) PROVE TypeOK'
    BY <2>2 DEF TypeOK, Reorg
  <2>3. ASSUME Tick PROVE TypeOK'
    BY <2>3 DEF TypeOK, Tick
  <2>4. ASSUME NEW p \in Proc,
               Start(p) \/ acquire_lock(p) \/ LockBusy(p) \/ load_state(p)
                 \/ RunFails(p)
        PROVE TypeOK'
    BY <2>4 DEF TypeOK, Start, acquire_lock, LockBusy, load_state, RunFails
  <2>5. ASSUME NEW p \in Proc, NEW c \in Chain,
               get_block_height(p, c) \/ HeightFails(p, c)
        PROVE TypeOK'
    <3>1. CASE get_block_height(p, c)
      <4>1. SaturatingSub(head[c], HeightLag) \in Nat
        BY SaturatingSubType, EnvironmentAssumption DEF TypeOK
      <4>2. PICK b \in SaturatingSub(head[c], HeightLag) .. head[c] :
              height' = [height EXCEPT ![p][c] = b]
        BY <3>1 DEF get_block_height
      <4>3. b \in Nat
        BY <4>1, <4>2 DEF TypeOK
      <4> QED
        BY <3>1, <4>2, <4>3 DEF TypeOK, get_block_height
    <3>2. CASE HeightFails(p, c)
      BY <3>2 DEF TypeOK, HeightFails
    <3> QED
      BY <2>5, <3>1, <3>2
  <2>6. ASSUME NEW p \in Proc, NEW c \in Chain, NEW e \in Entry,
               address_scan(p, c, e) \/ ScanFails(p, c, e)
        PROVE TypeOK'
    <3>1. CASE address_scan(p, c, e)
      <4>1. PICK f \in 0 .. height[p][c] : ScanTo(p, c, e, f)
        BY <3>1 DEF address_scan
      <4>2. f \in Nat /\ height[p][c] \in Nat
        BY DEF TypeOK
      <4>3. ScanFrontier(f, height[p][c], c) \in Nat
        BY <4>2, ScanFrontierType
      <4>4. PICK picked \in SUBSET Transfer :
              jobs' = [jobs EXCEPT ![p] = @ \cup {NewJob(e, t) : t \in picked}]
        BY <4>1 DEF ScanTo, OnePerHash, Receives
      <4>5. jobs' \in [Proc -> SUBSET Job]
        BY <4>4 DEF TypeOK, NewJob, Job, JobState
      <4> QED
        BY <4>1, <4>3, <4>5 DEF TypeOK, ScanTo
    <3>2. CASE ScanFails(p, c, e)
      BY <3>2 DEF TypeOK, ScanFails
    <3> QED
      BY <2>6, <3>1, <3>2
  <2>7. ASSUME NEW p \in Proc, Liquidate(p) PROVE TypeOK'
    <3>1. PICK j \in jobs[p] :
            \/ RejectLarge(p, j) \/ sell_usdc(p, j) \/ SellFails(p, j)
            \/ withdraw_usd(p, j) \/ WithdrawFails(p, j)
      BY <2>7 DEF Liquidate
    <3>2. j \in Job /\ j.transfer \in Transfer
      BY DEF TypeOK, Job
    <3>3. ASSUME NEW s \in JobState, MoveJob(p, j, s)
          PROVE  jobs' \in [Proc -> SUBSET Job]
      <4>1. [j EXCEPT !.state = s] \in Job
        BY <3>2, <3>3 DEF Job
      <4> QED
        BY <3>3, <4>1 DEF MoveJob, TypeOK
    <3>4. jobs' \in [Proc -> SUBSET Job]
      BY <3>1, <3>3 DEF RejectLarge, sell_usdc, SellFails, withdraw_usd,
                        WithdrawFails, JobState
    <3>5. sold' \in [Transfer -> Nat] /\ paid' \in [Transfer -> Nat]
      <4>1. CASE RejectLarge(p, j)
        BY <4>1 DEF TypeOK, RejectLarge
      <4>2. CASE sell_usdc(p, j) \/ SellFails(p, j)
        <5>1. PICK n \in {0, 1} : sold' = [sold EXCEPT ![j.transfer] = @ + n]
          BY <4>2 DEF sell_usdc, SellFails
        <5>2. sold[j.transfer] + n \in Nat
          BY <3>2 DEF TypeOK
        <5>3. paid' = paid
          BY <4>2 DEF sell_usdc, SellFails
        <5> QED
          BY <3>2, <5>1, <5>2, <5>3 DEF TypeOK
      <4>3. CASE withdraw_usd(p, j) \/ WithdrawFails(p, j)
        <5>1. PICK n \in {0, 1} : paid' = [paid EXCEPT ![j.transfer] = @ + n]
          BY <4>3 DEF withdraw_usd, WithdrawFails
        <5>2. paid[j.transfer] + n \in Nat
          BY <3>2 DEF TypeOK
        <5>3. sold' = sold
          BY <4>3 DEF withdraw_usd, WithdrawFails
        <5> QED
          BY <3>2, <5>1, <5>2, <5>3 DEF TypeOK
      <4> QED
        BY <3>1, <4>1, <4>2, <4>3
    <3> QED
      BY <3>1, <3>4, <3>5 DEF TypeOK, RejectLarge, sell_usdc, SellFails,
                              withdraw_usd, WithdrawFails
  <2>8. ASSUME NEW p \in Proc, save_state(p) PROVE TypeOK'
    <3>1. PICK kept \in OnePerId({Record(j) : j \in jobs[p]}) :
            /\ disk' = prune_stale_entries(Merged(p, kept), now)
            /\ lost' = lost \cup (Merged(p, kept).processed_tx_hashes
                                    \ disk'.processed_tx_hashes)
      BY <2>8 DEF save_state
    <3>2. Merged(p, kept) \in PersistedState
      BY <2>8, <3>1, MergedType DEF save_state
    <3>3. disk' \in PersistedState
      BY <3>1, <3>2, PruneType DEF TypeOK
    <3>4. lost' \subseteq TxHash
      BY <3>1, <3>2 DEF TypeOK, PersistedState
    <3>5. handled' \subseteq Transfer
      BY <2>8 DEF save_state, TypeOK, Job
    <3> QED
      BY <2>8, <3>3, <3>4, <3>5 DEF TypeOK, save_state
  <2>9. ASSUME NEW p \in Proc PROVE JobTxs(p) \subseteq TxHash
    BY LedgerAssumption DEF TypeOK, JobTxs, Job
  <2>10. ASSUME NEW p \in Proc, SaveFails(p) PROVE TypeOK'
    BY <2>9, <2>10 DEF TypeOK, SaveFails
  <2>11. ASSUME NEW p \in Proc, Gone(p)
         PROVE  /\ lock' \subseteq Proc
                /\ pc' \in [Proc -> {"off", "start", "locked", "pass", "exit"}]
                /\ mem' \in [Proc -> PersistedState]
                /\ stage' \in [Proc -> [Chain -> {"height", "scan", "done"}]]
                /\ height' \in [Proc -> [Chain -> Nat]]
                /\ fetched' \in [Proc -> [Chain -> SUBSET Entry]]
                /\ frontier' \in [Proc -> [Chain -> [Entry -> SUBSET Nat]]]
                /\ jobs' \in [Proc -> SUBSET Job]
    BY <2>11, DefaultStateType DEF TypeOK, Gone
  <2>12. ASSUME NEW p \in Proc, Exit(p) \/ Crash(p) PROVE TypeOK'
    BY <2>9, <2>11, <2>12 DEF TypeOK, Exit, Crash
  <2>13. CASE UNCHANGED vars
    BY <2>13 DEF TypeOK, vars
  <2> QED
    BY <2>1, <2>2, <2>3, <2>4, <2>5, <2>6, <2>7, <2>8, <2>10, <2>12, <2>13
       DEF Next, Environment, Step
<1> QED
  BY <1>1, <1>2, PTL DEF Spec

-----------------------------------------------------------------------------
(* What the two actions with the most alternatives do to the state.        *)

\* A step of the worker moves one job of a running pass, and at most one sale
\* or one withdrawal takes effect, for the transfer of that job.
LEMMA LiquidateEffect ==
  ASSUME NEW p \in Proc, Liquidate(p)
  PROVE  /\ pc[p] = "pass"
         /\ UNCHANGED <<chainVars, stage, height, fetched, frontier, procVars,
                        disk, boundVars, historyVars>>
         /\ \E j \in jobs[p], s \in {"sold", "initiated", "failed"} :
              /\ MoveJob(p, j, s)
              /\ \/ s = "failed" /\ UNCHANGED coinbaseVars
                 \/ /\ j.state = "queued" /\ s # "initiated"
                    /\ UNCHANGED paid
                    /\ \/ sold' = [sold EXCEPT ![j.transfer] = @ + 1]
                       \/ s = "failed" /\ sold' = [sold EXCEPT ![j.transfer] = @ + 0]
                 \/ /\ j.state = "sold" /\ s # "sold"
                    /\ UNCHANGED sold
                    /\ \E n \in {0, 1} : paid' = [paid EXCEPT ![j.transfer] = @ + n]
<1> USE DEF chainVars, coinbaseVars, passVars, procVars, boundVars, historyVars
<1>1. PICK j \in jobs[p] :
        \/ RejectLarge(p, j) \/ sell_usdc(p, j) \/ SellFails(p, j)
        \/ withdraw_usd(p, j) \/ WithdrawFails(p, j)
  BY DEF Liquidate
<1>2. pc[p] = "pass"
  BY DEF Liquidate
<1>3. CASE RejectLarge(p, j)
  BY <1>2, <1>3 DEF RejectLarge
<1>4. CASE sell_usdc(p, j)
  BY <1>2, <1>4 DEF sell_usdc, Sellable
<1>5. CASE SellFails(p, j)
  BY <1>2, <1>5 DEF SellFails, Sellable
<1>6. CASE withdraw_usd(p, j)
  BY <1>2, <1>6 DEF withdraw_usd, Withdrawable
<1>7. CASE WithdrawFails(p, j)
  BY <1>2, <1>7 DEF WithdrawFails, Withdrawable
<1> QED
  BY <1>1, <1>3, <1>4, <1>5, <1>6, <1>7

\* A moved job is one of the pass with another state; no transfer is new.
LEMMA MoveJobEffect ==
  ASSUME TypeOK, NEW p \in Proc, NEW j \in jobs[p], NEW s \in JobState,
         MoveJob(p, j, s)
  PROVE  /\ \A q \in Proc \ {p} : jobs'[q] = jobs[q]
         /\ \A k \in jobs'[p] :
              \/ k \in jobs[p] \ {j}
              \/ /\ k.transfer = j.transfer /\ k.entry = j.entry /\ k.state = s
                 /\ k = [j EXCEPT !.state = s]
         /\ [j EXCEPT !.state = s] \in jobs'[p]
         /\ \A k \in jobs[p] \ {j} : k \in jobs'[p]
         /\ JobTxs(p)' = JobTxs(p)
<1>1. j \in Job
  BY DEF TypeOK
<1> DEFINE moved == [j EXCEPT !.state = s]
<1>2. /\ moved.transfer = j.transfer /\ moved.entry = j.entry
      /\ moved.state = s
  BY <1>1 DEF Job
<1>3. jobs'[p] = (jobs[p] \ {j}) \cup {moved}
      /\ \A q \in Proc \ {p} : jobs'[q] = jobs[q]
  BY DEF MoveJob, TypeOK
<1> HIDE DEF moved
<1>4. {tx_of[k.transfer] : k \in jobs'[p]} = {tx_of[k.transfer] : k \in jobs[p]}
  <2>1. ASSUME NEW k \in jobs'[p]
        PROVE  \E i \in jobs[p] : i.transfer = k.transfer
    BY <1>2, <1>3
  <2>2. ASSUME NEW k \in jobs[p]
        PROVE  \E i \in jobs'[p] : i.transfer = k.transfer
    BY <1>2, <1>3
  <2> QED
    BY <2>1, <2>2
<1> USE DEF moved
<1> QED
  BY <1>2, <1>3, <1>4 DEF JobTxs

\* What a successful scan of entry e does: it queues final transfers of its
\* entry, one per transaction, that the loaded state does not know; its
\* frontier b is settled; and from the start s of its window up to b it misses
\* no deposit.
ScanResult(p, c, e, s, b, picked) ==
  /\ Settled(c, b)
  /\ frontier' = [frontier EXCEPT ![p][c][e] = {b}]
  /\ jobs' = [jobs EXCEPT ![p] = @ \cup {NewJob(e, t) : t \in picked}]
  /\ \A t \in picked :
       /\ Final(tx_of[t])
       /\ chain_of[tx_of[t]] = c
       /\ recipient[t] = entry_address[e]
       /\ tx_of[t] \notin mem[p].processed_tx_hashes
       /\ \A u \in picked : tx_of[t] = tx_of[u] => t = u
  /\ \A t \in Transfer :
       /\ chain_of[tx_of[t]] = c
       /\ recipient[t] = entry_address[e]
       /\ NotDust(t)
       /\ block[tx_of[t]] # 0
       /\ s <= block[tx_of[t]] /\ block[tx_of[t]] <= b
       => \/ tx_of[t] \in mem[p].processed_tx_hashes
          \/ \E u \in picked : tx_of[u] = tx_of[t]

\* A successful scan has that result, for some start of its window.
LEMMA ScanEffect ==
  ASSUME TypeOK, FinalityInv, NEW p \in Proc, NEW c \in Chain, NEW e \in Entry,
         address_scan(p, c, e)
  PROVE  \E s \in Since(p, c), b \in Nat, picked \in SUBSET Transfer :
           ScanResult(p, c, e, s, b, picked)
<1> DEFINE h == height[p][c]
           conf == confirmation_blocks_for(c)
<1>1. PICK f \in 0 .. h : ScanTo(p, c, e, f)
  BY DEF address_scan
<1> DEFINE b == ScanFrontier(f, h, c)
           Found(s, v) == {t \in Receives(c, e, s, f, v) :
                 Eligible(mem[p].processed_tx_hashes, h, t, block[tx_of[t]])}
<1>2. PICK s \in Since(p, c), v \in SaturatingSub(head[c], LogLag) .. head[c] :
        \E picked \in OnePerHash(Found(s, v)) :
          jobs' = [jobs EXCEPT ![p] = @ \cup {NewJob(e, t) : t \in picked}]
  BY <1>1 DEF ScanTo
<1>3. PICK picked \in OnePerHash(Found(s, v)) :
        jobs' = [jobs EXCEPT ![p] = @ \cup {NewJob(e, t) : t \in picked}]
  BY <1>2
<1>4. /\ h \in Nat /\ conf \in Nat /\ head[c] \in Nat /\ f \in Nat
      /\ h <= head[c] /\ f <= h /\ LogLag \in Nat /\ LogLag <= conf
  BY ConfirmationBlocksType, EnvironmentAssumption DEF TypeOK, FinalityInv
<1>5. s \in Nat
  <2>1. mem[p].last_seen_block[c] \in SUBSET Nat
    BY DEF TypeOK, PersistedState
  <2> QED
    BY <1>2, <2>1, SinceBlockType DEF Since
<1>6. v \in Nat /\ SaturatingSub(head[c], LogLag) <= v
  <2>1. SaturatingSub(head[c], LogLag) \in Nat
    BY <1>4, SaturatingSubType
  <2> QED
    BY <1>2, <1>4, <2>1
<1>7. b \in Nat /\ b <= f /\ b <= SaturatingSub(h, conf)
  BY <1>4, ScanFrontierType
<1>8. Settled(c, b)
  BY <1>4, <1>7 DEF Settled, SaturatingSub
<1>9. picked \subseteq Found(s, v) /\ Found(s, v) \subseteq Transfer
      /\ (\A t, u \in picked : tx_of[t] = tx_of[u] => t = u)
      /\ \A t \in Found(s, v) : \E u \in picked : tx_of[u] = tx_of[t]
  BY <1>3 DEF OnePerHash, Receives
<1>10. ASSUME NEW t \in picked
       PROVE  /\ Final(tx_of[t])
              /\ chain_of[tx_of[t]] = c
              /\ recipient[t] = entry_address[e]
              /\ tx_of[t] \notin mem[p].processed_tx_hashes
  <2>1. t \in Transfer /\ tx_of[t] \in TxHash
    BY <1>9, LedgerAssumption
  <2>2. /\ chain_of[tx_of[t]] = c /\ recipient[t] = entry_address[e]
        /\ block[tx_of[t]] # 0 /\ block[tx_of[t]] <= f
        /\ Eligible(mem[p].processed_tx_hashes, h, t, block[tx_of[t]])
    BY <1>4, <1>5, <1>9, <2>1 DEF Receives, TypeOK
  <2>3. SaturatingSub(h, block[tx_of[t]]) >= conf
    BY <2>2 DEF Eligible, Confirmed
  <2>4. block[tx_of[t]] \in Nat
    BY <2>1 DEF TypeOK
  <2>5. head[c] - block[tx_of[t]] >= conf
    BY <1>4, <2>2, <2>3, <2>4 DEF SaturatingSub
  <2> QED
    BY <2>2, <2>5 DEF Final, Eligible, Fresh
<1>11. ASSUME NEW t \in Transfer,
              chain_of[tx_of[t]] = c,
              recipient[t] = entry_address[e],
              NotDust(t),
              block[tx_of[t]] # 0,
              s <= block[tx_of[t]], block[tx_of[t]] <= b,
              tx_of[t] \notin mem[p].processed_tx_hashes
       PROVE  \E u \in picked : tx_of[u] = tx_of[t]
  <2>1. block[tx_of[t]] \in Nat
    BY LedgerAssumption DEF TypeOK
  <2>2. h >= conf /\ block[tx_of[t]] <= h - conf
    BY <1>4, <1>7, <1>11, <2>1 DEF SaturatingSub
  <2>3. SaturatingSub(h, block[tx_of[t]]) >= conf
    BY <1>4, <2>1, <2>2 DEF SaturatingSub
  <2>4. block[tx_of[t]] <= v
    BY <1>4, <1>6, <2>1, <2>2 DEF SaturatingSub
  <2>5. t \in Receives(c, e, s, f, v)
    BY <1>4, <1>5, <1>7, <1>11, <2>1, <2>4 DEF Receives
  <2>6. t \in Found(s, v)
    BY <1>11, <2>3, <2>5 DEF Eligible, Fresh, Confirmed
  <2> QED
    BY <1>9, <2>6
<1>12. frontier' = [frontier EXCEPT ![p][c][e] = {b}]
  BY <1>1 DEF ScanTo
<1>13. picked \in SUBSET Transfer
  BY <1>9
<1> HIDE DEF b, Found, h, conf
<1>14. \A t \in picked :
         /\ Final(tx_of[t])
         /\ chain_of[tx_of[t]] = c
         /\ recipient[t] = entry_address[e]
         /\ tx_of[t] \notin mem[p].processed_tx_hashes
         /\ \A u \in picked : tx_of[t] = tx_of[u] => t = u
  BY <1>9, <1>10
<1>15. ScanResult(p, c, e, s, b, picked)
  BY <1>3, <1>8, <1>11, <1>12, <1>14 DEF ScanResult
<1> QED
  BY <1>2, <1>7, <1>13, <1>15

\* A successful save: the file's hashes are the loaded ones and the pass's
\* own, less what is pruned, and what is pruned is noted as lost; a frontier
\* of the file is the loaded one or one that every scan of the pass reached.
LEMMA SaveEffect ==
  ASSUME TypeOK, NEW p \in Proc, save_state(p)
  PROVE  /\ disk'.processed_tx_hashes
              \subseteq mem[p].processed_tx_hashes \cup JobTxs(p)
         /\ mem[p].processed_tx_hashes \cup JobTxs(p)
              \subseteq disk'.processed_tx_hashes \cup lost'
         /\ lost \subseteq lost'
         /\ \A c \in Chain : \A b \in disk'.last_seen_block[c] :
              \/ b \in mem[p].last_seen_block[c]
              \/ /\ \E e \in Entry : b \in frontier[p][c][e]
                 /\ \A e \in Entry : \E b2 \in frontier[p][c][e] : b <= b2
         /\ \A x \in mem[p].processed_tx_hashes \ disk'.processed_tx_hashes :
              \E r \in mem[p].bank_payments \cup {Record(j) : j \in jobs[p]} :
                r.deposit_tx_hash = x /\ IsStale(r, now)
<1>1. PICK kept \in OnePerId({Record(j) : j \in jobs[p]}) :
        /\ disk' = prune_stale_entries(Merged(p, kept), now)
        /\ lost' = lost \cup (Merged(p, kept).processed_tx_hashes
                                \ disk'.processed_tx_hashes)
  BY DEF save_state
<1>2. Merged(p, kept) \in PersistedState
  BY <1>1, MergedType DEF save_state
<1>3. /\ disk'.last_seen_block = Merged(p, kept).last_seen_block
      /\ disk'.processed_tx_hashes
           = Merged(p, kept).processed_tx_hashes
               \ {r.deposit_tx_hash :
                    r \in {q \in Merged(p, kept).bank_payments : IsStale(q, now)}}
  BY <1>1, <1>2, PruneType DEF TypeOK
<1>4. /\ Merged(p, kept).processed_tx_hashes
           = mem[p].processed_tx_hashes \cup JobTxs(p)
      /\ Merged(p, kept).bank_payments
           \subseteq mem[p].bank_payments \cup {Record(j) : j \in jobs[p]}
      /\ \A c \in Chain : Merged(p, kept).last_seen_block[c]
           = MergeSeen(mem[p].last_seen_block[c], SumFrontier(frontier[p][c]))
  BY <1>1 DEF Merged, OnePerId
<1>5. ASSUME NEW c \in Chain, NEW b \in disk'.last_seen_block[c]
      PROVE  \/ b \in mem[p].last_seen_block[c]
             \/ /\ \E e \in Entry : b \in frontier[p][c][e]
                /\ \A e \in Entry : \E b2 \in frontier[p][c][e] : b <= b2
  <2>1. b \in MergeSeen(mem[p].last_seen_block[c], SumFrontier(frontier[p][c]))
    BY <1>3, <1>4, <1>5
  <2>2. CASE b \in SumFrontier(frontier[p][c])
    BY <2>2 DEF SumFrontier
  <2> QED
    BY <2>1, <2>2 DEF MergeSeen
<1> QED
  BY <1>1, <1>3, <1>4, <1>5

-----------------------------------------------------------------------------
(* The lock.                                                               *)

\* One pass at a time, and it works on what the state file holds.
THEOREM LockCorrect == Spec => []LockInv
<1> USE DEF chainVars, coinbaseVars, passVars, procVars, boundVars, historyVars
<1>1. Init => LockInv
  BY DEF Init, LockInv
<1>2. TypeOK /\ LockInv /\ [Next]_vars => LockInv'
  <2> SUFFICES ASSUME TypeOK, LockInv, [Next]_vars PROVE LockInv'
    OBVIOUS
  <2>1. ASSUME UNCHANGED <<lock, pc, mem, disk, jobs, frontier>> PROVE LockInv'
    BY <2>1 DEF LockInv
  <2>2. ASSUME Environment \/ UNCHANGED vars PROVE LockInv'
    BY <2>1, <2>2 DEF Environment, Extend, Reorg, Tick, vars
  <2>3. ASSUME NEW p \in Proc,
               Start(p) \/ acquire_lock(p) \/ LockBusy(p) \/ load_state(p)
                 \/ RunFails(p)
        PROVE LockInv'
    <3>1. CASE Start(p) \/ LockBusy(p)
      BY <3>1 DEF TypeOK, LockInv, Start, LockBusy
    <3>2. CASE acquire_lock(p)
      BY <3>2 DEF TypeOK, LockInv, LockFree, acquire_lock
    <3>3. CASE load_state(p)
      BY <3>3 DEF TypeOK, LockInv, load_state
    <3>4. CASE RunFails(p)
      BY <3>4 DEF TypeOK, LockInv, RunFails
    <3> QED
      BY <2>3, <3>1, <3>2, <3>3, <3>4
  <2>4. ASSUME NEW p \in Proc, NEW c \in Chain,
               get_block_height(p, c) \/ HeightFails(p, c)
        PROVE LockInv'
    BY <2>1, <2>4 DEF get_block_height, HeightFails
  <2>5. ASSUME NEW p \in Proc, pc[p] = "pass",
               UNCHANGED <<lock, pc, mem, disk>>,
               \A q \in Proc \ {p} : jobs'[q] = jobs[q] /\ frontier'[q] = frontier[q]
        PROVE LockInv'
    BY <2>5 DEF LockInv
  <2>6. ASSUME NEW p \in Proc, NEW c \in Chain, NEW e \in Entry,
               address_scan(p, c, e) \/ ScanFails(p, c, e)
        PROVE LockInv'
    <3>1. pc[p] = "pass" /\ UNCHANGED <<lock, pc, mem, disk>>
      BY <2>6 DEF address_scan, ScanTo, ScanFails, Scanning
    <3>2. \A q \in Proc \ {p} : jobs'[q] = jobs[q] /\ frontier'[q] = frontier[q]
      BY <2>6 DEF address_scan, ScanTo, ScanFails, TypeOK
    <3> QED
      BY <2>5, <3>1, <3>2
  <2>7. ASSUME NEW p \in Proc, Liquidate(p) PROVE LockInv'
    <3>1. pc[p] = "pass" /\ UNCHANGED <<lock, pc, mem, disk, frontier>>
      BY <2>7, LiquidateEffect
    <3>2. \A q \in Proc \ {p} : jobs'[q] = jobs[q]
      BY <2>7, LiquidateEffect DEF MoveJob, TypeOK
    <3> QED
      BY <2>5, <3>1, <3>2
  <2>8. ASSUME NEW p \in Proc, save_state(p) \/ SaveFails(p) PROVE LockInv'
    <3>1. pc[p] = "pass" /\ pc' = [pc EXCEPT ![p] = "exit"]
      BY <2>8 DEF save_state, SaveFails, PassDone
    <3>2. UNCHANGED <<lock, mem, jobs, frontier>>
      BY <2>8 DEF save_state, SaveFails
    <3>3. \A q \in Proc \ {p} : pc[q] # "pass"
      BY <3>1 DEF LockInv
    <3> QED
      BY <3>1, <3>2, <3>3 DEF LockInv, TypeOK
  <2>9. ASSUME NEW p \in Proc, Exit(p) \/ Crash(p) PROVE LockInv'
    <3>1. Gone(p) /\ disk' = disk
      BY <2>9 DEF Exit, Crash
    <3>2. \A q \in Proc \ {p} :
            /\ pc'[q] = pc[q] /\ mem'[q] = mem[q] /\ jobs'[q] = jobs[q]
            /\ frontier'[q] = frontier[q]
      BY <3>1 DEF Gone, TypeOK
    <3>3. pc'[p] = "off" /\ jobs'[p] = {} /\ lock' = lock \ {p}
          /\ \A c \in Chain, e \in Entry : frontier'[p][c][e] = {}
      BY <3>1 DEF Gone, TypeOK
    <3> QED
      BY <3>1, <3>2, <3>3 DEF LockInv
  <2> QED
    BY <2>2, <2>3, <2>4, <2>6, <2>7, <2>8, <2>9 DEF Next, Step
<1> QED
  BY <1>1, <1>2, TypeCorrect, PTL DEF Spec

-----------------------------------------------------------------------------
(* Finality.                                                               *)

\* The chains keep what is final: heads grow, settled blocks stay settled, and
\* a step changes no block that a settled one is not below.
LEMMA EnvironmentEffect ==
  ASSUME TypeOK, Environment
  PROVE  /\ \A c \in Chain : head'[c] \in Nat /\ head[c] <= head'[c]
         /\ \A c \in Chain, b \in Nat : Settled(c, b) => Settled(c, b)'
         /\ \A x \in TxHash : Final(x) => Final(x)'
         /\ \A x \in TxHash, b \in Nat :
              Settled(chain_of[x], b) /\ block'[x] # 0 /\ block'[x] <= b
                => block'[x] = block[x]
         /\ UNCHANGED <<coinbaseVars, passVars, procVars, disk, boundVars,
                        historyVars>>
<1> USE DEF chainVars, coinbaseVars, passVars, procVars, boundVars, historyVars
<1>1. \A x \in TxHash : /\ chain_of[x] \in Chain /\ block[x] \in Nat
                        /\ head[chain_of[x]] \in Nat
                        /\ confirmation_blocks_for(chain_of[x]) \in Nat
  BY LedgerAssumption, ConfirmationBlocksType DEF TypeOK
<1>2. \A c \in Chain : head[c] \in Nat /\ confirmation_blocks_for(c) \in Nat
  BY ConfirmationBlocksType DEF TypeOK
<1>3. UNCHANGED <<coinbaseVars, passVars, procVars, disk, boundVars, historyVars>>
  BY DEF Environment, Extend, Reorg, Tick
<1>4. \A c \in Chain : head'[c] \in Nat /\ head[c] <= head'[c]
  BY <1>2 DEF Environment, Extend, Reorg, Tick, TypeOK
<1>5. \A c \in Chain, b \in Nat : Settled(c, b) => Settled(c, b)'
  BY <1>2, <1>4 DEF Settled
<1> DEFINE Moved(x) ==
             \/ block'[x] = block[x]
             \/ block[x] = 0 /\ block'[x] = head[chain_of[x]] + 1
             \/ /\ head[chain_of[x]] - block[x]
                     < confirmation_blocks_for(chain_of[x])
                /\ \/ block'[x] = 0
                   \/ /\ block'[x] \in Nat
                      /\ head[chain_of[x]] - block'[x]
                           < confirmation_blocks_for(chain_of[x])
<1>6. \A x \in TxHash : Moved(x)
  <2>1. ASSUME NEW c \in Chain,
               NEW S \in SUBSET {x \in TxHash : chain_of[x] = c /\ block[x] = 0},
               Extend(c, S)
        PROVE  \A x \in TxHash : Moved(x)
    BY <2>1 DEF Extend
  <2>2. ASSUME NEW y \in TxHash, Reorg(y)
        PROVE  \A x \in TxHash : Moved(x)
    BY <1>1, <2>2 DEF Reorg, TypeOK
  <2>3. ASSUME Tick PROVE block' = block
    BY <2>3 DEF Tick
  <2> QED
    BY <2>1, <2>2, <2>3 DEF Environment
<1>7. \A x \in TxHash : Final(x) => Final(x)'
  BY <1>1, <1>4, <1>6 DEF Final
<1>8. \A x \in TxHash, b \in Nat :
        Settled(chain_of[x], b) /\ block'[x] # 0 /\ block'[x] <= b
          => block'[x] = block[x]
  BY <1>1, <1>6 DEF Settled
<1> QED
  BY <1>3, <1>4, <1>5, <1>7, <1>8

\* Whatever a pass acts on is final.
THEOREM FinalityCorrect == Spec => []FinalityInv
<1> USE DEF chainVars, coinbaseVars, passVars, procVars, boundVars, historyVars
<1>1. Init => FinalityInv
  BY DEF Init, FinalityInv, OnlyFinalSold, DefaultState
<1>2. TypeOK /\ LockInv /\ FinalityInv /\ [Next]_vars => FinalityInv'
  <2> SUFFICES ASSUME TypeOK, LockInv, FinalityInv, [Next]_vars PROVE FinalityInv'
    OBVIOUS
  <2>0. \A j \in Job : j.transfer \in Transfer
    BY DEF Job
  <2>1. ASSUME UNCHANGED <<head, block, height, frontier, disk, jobs, sold>>
        PROVE  FinalityInv'
    BY <2>1 DEF FinalityInv, Settled, Final, OnlyFinalSold
  <2>2. ASSUME Environment PROVE FinalityInv'
    <3>1. \A p \in Proc, c \in Chain : height'[p][c] <= head'[c]
      <4>1. \A c \in Chain : head[c] \in Nat /\ head'[c] \in Nat /\ head[c] <= head'[c]
        BY <2>2, EnvironmentEffect DEF TypeOK
      <4>2. height' = height /\ \A p \in Proc, c \in Chain : height[p][c] \in Nat
        BY <2>2, EnvironmentEffect DEF TypeOK
      <4> QED
        BY <4>1, <4>2 DEF FinalityInv
    <3>2. \A p \in Proc, c \in Chain, e \in Entry :
            \A b \in frontier'[p][c][e] : Settled(c, b)'
      BY <2>2, EnvironmentEffect DEF FinalityInv, TypeOK
    <3>3. \A c \in Chain : \A b \in disk'.last_seen_block[c] : Settled(c, b)'
      BY <2>2, EnvironmentEffect DEF FinalityInv, TypeOK, PersistedState
    <3>4. \A p \in Proc : \A j \in jobs'[p] : Final(tx_of[j.transfer])'
      BY <2>0, <2>2, EnvironmentEffect, LedgerAssumption DEF FinalityInv, TypeOK
    <3>5. OnlyFinalSold'
      BY <2>2, EnvironmentEffect, LedgerAssumption DEF FinalityInv, OnlyFinalSold
    <3> QED
      BY <3>1, <3>2, <3>3, <3>4, <3>5 DEF FinalityInv
  <2>3. ASSUME UNCHANGED <<head, block>>
        PROVE  /\ \A c, b : Settled(c, b)' <=> Settled(c, b)
               /\ \A x : Final(x)' <=> Final(x)
    BY <2>3 DEF Settled, Final
  <2>4. ASSUME NEW p \in Proc, NEW c \in Chain,
               get_block_height(p, c) \/ HeightFails(p, c)
        PROVE FinalityInv'
    <3>1. CASE get_block_height(p, c)
      <4>1. PICK b \in SaturatingSub(head[c], HeightLag) .. head[c] :
              height' = [height EXCEPT ![p][c] = b]
        BY <3>1 DEF get_block_height
      <4>2. SaturatingSub(head[c], HeightLag) \in Nat /\ head[c] \in Nat
        BY SaturatingSubType, EnvironmentAssumption DEF TypeOK
      <4>3. b <= head[c]
        BY <4>1, <4>2
      <4>4. UNCHANGED <<head, block, frontier, disk, jobs, sold>>
        BY <3>1 DEF get_block_height
      <4>5. \A q \in Proc, d \in Chain : height'[q][d] <= head'[d]
        BY <4>1, <4>3, <4>4 DEF FinalityInv, TypeOK
      <4> QED
        BY <4>4, <4>5, <2>3 DEF FinalityInv, OnlyFinalSold
    <3>2. CASE HeightFails(p, c)
      BY <2>1, <3>2 DEF HeightFails
    <3> QED
      BY <2>4, <3>1, <3>2
  <2>5. ASSUME NEW p \in Proc, NEW c \in Chain, NEW e \in Entry,
               address_scan(p, c, e)
        PROVE FinalityInv'
    <3>1. PICK s \in Since(p, c), b \in Nat, picked \in SUBSET Transfer :
            ScanResult(p, c, e, s, b, picked)
      BY <2>5, ScanEffect
    <3>2. UNCHANGED <<head, block, height, disk, sold>>
      BY <2>5 DEF address_scan, ScanTo
    <3>3. \A q \in Proc, d \in Chain, g \in Entry :
            \A b2 \in frontier'[q][d][g] : Settled(d, b2)
      BY <3>1 DEF ScanResult, FinalityInv, TypeOK
    <3>4. \A t \in picked : NewJob(e, t).transfer = t
      BY DEF NewJob
    <3>5. \A q \in Proc : \A j \in jobs'[q] : Final(tx_of[j.transfer])
      BY <3>1, <3>4 DEF ScanResult, FinalityInv, TypeOK
    <3> QED
      BY <2>3, <3>2, <3>3, <3>5 DEF FinalityInv, OnlyFinalSold
  <2>6. ASSUME NEW p \in Proc, Liquidate(p) PROVE FinalityInv'
    <3>1. PICK j \in jobs[p], s \in JobState :
            /\ MoveJob(p, j, s)
            /\ \/ sold' = sold
               \/ \E n \in {0, 1} : sold' = [sold EXCEPT ![j.transfer] = @ + n]
      BY <2>6, LiquidateEffect DEF JobState
    <3>2. UNCHANGED <<head, block, height, frontier, disk>>
      BY <2>6, LiquidateEffect
    <3>3. Final(tx_of[j.transfer])
      BY <3>1 DEF FinalityInv
    <3>4. \A q \in Proc : \A k \in jobs'[q] : Final(tx_of[k.transfer])
      <4>1. \A k \in jobs'[p] : Final(tx_of[k.transfer])
        <5>1. \A k \in jobs'[p] : k \in jobs[p] \/ k.transfer = j.transfer
          BY <3>1, MoveJobEffect
        <5> QED
          BY <3>3, <5>1 DEF FinalityInv
      <4>2. \A q \in Proc \ {p} : jobs'[q] = jobs[q]
        BY <3>1, MoveJobEffect
      <4> QED
        BY <4>1, <4>2 DEF FinalityInv
    <3>5. \A t \in Transfer : t # j.transfer => sold'[t] = sold[t]
      BY <3>1 DEF TypeOK
    <3>6. \A t \in Transfer : sold'[t] > 0 => Final(tx_of[t])
      BY <3>3, <3>5 DEF FinalityInv, OnlyFinalSold
    <3> QED
      BY <2>3, <3>2, <3>4, <3>6 DEF FinalityInv, OnlyFinalSold
  <2>7. ASSUME NEW p \in Proc, save_state(p) PROVE FinalityInv'
    <3>1. UNCHANGED <<head, block, height, frontier, jobs, sold>>
      BY <2>7 DEF save_state
    <3>2. mem[p] = disk
      BY <2>7 DEF save_state, PassDone, LockInv
    <3>3. \A c \in Chain : \A b \in disk'.last_seen_block[c] : Settled(c, b)
      BY <2>7, <3>2, SaveEffect DEF FinalityInv
    <3> QED
      BY <2>3, <3>1, <3>3 DEF FinalityInv, OnlyFinalSold
  <2>8. ASSUME NEW p \in Proc, Exit(p) \/ Crash(p) PROVE FinalityInv'
    <3>1. Gone(p) /\ UNCHANGED <<head, block, disk, sold>>
      BY <2>8 DEF Exit, Crash
    <3>2. \A q \in Proc, c \in Chain : height'[q][c] <= head[c]
      BY <3>1 DEF Gone, FinalityInv, TypeOK
    <3>3. \A q \in Proc, c \in Chain, e \in Entry :
            frontier'[q][c][e] \subseteq frontier[q][c][e]
      BY <3>1 DEF Gone, TypeOK
    <3>4. \A q \in Proc : jobs'[q] \subseteq jobs[q]
      BY <3>1 DEF Gone, TypeOK
    <3> QED
      BY <2>3, <3>1, <3>2, <3>3, <3>4 DEF FinalityInv, OnlyFinalSold
  <2>9. ASSUME NEW p \in Proc,
               \/ Start(p) \/ acquire_lock(p) \/ LockBusy(p) \/ load_state(p)
               \/ RunFails(p) \/ SaveFails(p)
        PROVE FinalityInv'
    BY <2>1, <2>9 DEF Start, acquire_lock, LockBusy, load_state, RunFails, SaveFails
  <2>10. ASSUME NEW p \in Proc, NEW c \in Chain, NEW e \in Entry,
                ScanFails(p, c, e)
         PROVE FinalityInv'
    BY <2>1, <2>10 DEF ScanFails
  <2>11. CASE UNCHANGED vars
    BY <2>1, <2>11 DEF vars
  <2> QED
    BY <2>2, <2>4, <2>5, <2>6, <2>7, <2>8, <2>9, <2>10, <2>11 DEF Next, Step
<1> QED
  BY <1>1, <1>2, TypeCorrect, LockCorrect, PTL DEF Spec

\* No sale for a transaction that a reorganization can still undo.
THEOREM OnlyFinalSoldHolds == Spec => []OnlyFinalSold
<1>1. FinalityInv => OnlyFinalSold
  BY DEF FinalityInv
<1> QED
  BY <1>1, FinalityCorrect, PTL

-----------------------------------------------------------------------------
(* Coverage.                                                               *)

\* Steps that leave the ledger, the file and a pass's results alone keep the
\* coverage: a pass may lose its frontiers, and its jobs may move on.
LEMMA CoverKept ==
  ASSUME TypeOK, CoverInv, UNCHANGED <<block, disk, handled>>,
         \A q \in Proc : pc'[q] = "pass" =>
           \/ \A c \in Chain, e \in Entry : frontier'[q][c][e] = {}
           \/ /\ pc[q] = "pass" /\ mem'[q] = mem[q] /\ frontier'[q] = frontier[q]
              /\ JobTxs(q) \subseteq JobTxs(q)'
  PROVE  CoverInv'
<1>1. FrontierCovers'
  BY DEF CoverInv, FrontierCovers, Monitored
<1>2. ASSUME NEW q \in Proc, pc'[q] = "pass", NEW c \in Chain, NEW e \in Entry,
             NEW b \in frontier'[q][c][e]
      PROVE  \E s \in Since(q, c)' : Covered(q, c, e, s, b)'
  <2>1. /\ pc[q] = "pass" /\ mem'[q] = mem[q] /\ frontier'[q] = frontier[q]
        /\ JobTxs(q) \subseteq JobTxs(q)'
    BY <1>2
  <2>2. PICK s \in Since(q, c) : Covered(q, c, e, s, b)
    BY <1>2, <2>1 DEF CoverInv
  <2>3. Covered(q, c, e, s, b)'
    BY <2>1, <2>2 DEF Covered
  <2>4. s \in Since(q, c)'
    BY <2>1, <2>2 DEF Since
  <2> QED
    BY <2>3, <2>4
<1>3. \A x \in disk'.processed_tx_hashes : \E u \in handled' : tx_of[u] = x
  BY DEF CoverInv
<1> QED
  BY <1>1, <1>2, <1>3 DEF CoverInv

\* The chains do not add to what a settled frontier covers.
LEMMA CoverEnvironment ==
  ASSUME TypeOK, FinalityInv, CoverInv, Environment
  PROVE  CoverInv'
<1> USE DEF coinbaseVars, passVars, procVars, boundVars, historyVars
<1>1. UNCHANGED <<disk, handled, pc, mem, frontier, jobs>>
  BY EnvironmentEffect
<1>2. ASSUME NEW t \in Transfer, NEW b \in Nat,
             Settled(chain_of[tx_of[t]], b),
             block'[tx_of[t]] # 0, block'[tx_of[t]] <= b
      PROVE  block'[tx_of[t]] = block[tx_of[t]]
  BY <1>2, EnvironmentEffect, LedgerAssumption
<1>3. FrontierCovers'
  <2> SUFFICES ASSUME NEW t \in Transfer,
                      NEW b \in disk'.last_seen_block[chain_of[tx_of[t]]],
                      Monitored(t)', block'[tx_of[t]] <= b
               PROVE  \E u \in handled' : tx_of[u] = tx_of[t]
    BY DEF FrontierCovers
  <2>1. chain_of[tx_of[t]] \in Chain
    BY LedgerAssumption
  <2>2. /\ b \in disk.last_seen_block[chain_of[tx_of[t]]]
        /\ b \in Nat /\ Settled(chain_of[tx_of[t]], b)
    BY <1>1, <2>1 DEF FinalityInv, TypeOK, PersistedState
  <2>3. block'[tx_of[t]] = block[tx_of[t]]
    BY <1>2, <2>2 DEF Monitored
  <2>4. Monitored(t)
    BY <2>3 DEF Monitored
  <2> QED
    BY <1>1, <2>2, <2>3, <2>4 DEF CoverInv, FrontierCovers
<1>4. ASSUME NEW p \in Proc, pc'[p] = "pass", NEW c \in Chain, NEW e \in Entry,
             NEW b \in frontier'[p][c][e]
      PROVE  \E s \in Since(p, c)' : Covered(p, c, e, s, b)'
  <2>1. b \in frontier[p][c][e] /\ b \in Nat /\ Settled(c, b)
    BY <1>1, <1>4 DEF FinalityInv, TypeOK
  <2>2. PICK s \in Since(p, c) : Covered(p, c, e, s, b)
    BY <1>1, <1>4, <2>1 DEF CoverInv
  <2>3. JobTxs(p)' = JobTxs(p)
    BY <1>1 DEF JobTxs
  <2>4. Covered(p, c, e, s, b)'
    BY <1>1, <1>2, <2>1, <2>2, <2>3 DEF Covered
  <2>5. s \in Since(p, c)'
    BY <1>1, <2>2 DEF Since
  <2> QED
    BY <2>4, <2>5
<1> QED
  BY <1>1, <1>3, <1>4 DEF CoverInv

\* A scan covers what it reports.
LEMMA CoverScan ==
  ASSUME TypeOK, FinalityInv, CoverInv, NEW p \in Proc, NEW c \in Chain,
         NEW e \in Entry, address_scan(p, c, e)
  PROVE  CoverInv'
<1> USE DEF chainVars, coinbaseVars, passVars, procVars, boundVars, historyVars
<1>1. PICK s \in Since(p, c), b \in Nat, picked \in SUBSET Transfer :
        ScanResult(p, c, e, s, b, picked)
  BY ScanEffect
<1>2. UNCHANGED <<block, disk, handled, pc, mem>>
  BY DEF address_scan, ScanTo
<1>3. JobTxs(p)' = JobTxs(p) \cup {tx_of[t] : t \in picked}
  <2>1. jobs'[p] = jobs[p] \cup {NewJob(e, t) : t \in picked}
    BY <1>1 DEF ScanResult, TypeOK
  <2>2. \A t \in picked : NewJob(e, t).transfer = t
    BY DEF NewJob
  <2> HIDE DEF NewJob
  <2> QED
    BY <2>1, <2>2 DEF JobTxs
<1>4. \A q \in Proc \ {p} : jobs'[q] = jobs[q] /\ frontier'[q] = frontier[q]
  BY <1>1 DEF ScanResult, TypeOK
<1>5. FrontierCovers'
  BY <1>2 DEF CoverInv, FrontierCovers, Monitored
<1>6. ASSUME NEW q \in Proc, pc'[q] = "pass", NEW d \in Chain, NEW g \in Entry,
             NEW b2 \in frontier'[q][d][g]
      PROVE  \E s2 \in Since(q, d)' : Covered(q, d, g, s2, b2)'
  <2>1. Since(q, d)' = Since(q, d)
    BY <1>2 DEF Since
  <2>2. JobTxs(q) \subseteq JobTxs(q)'
    BY <1>3, <1>4 DEF JobTxs
  <2>3. CASE b2 \in frontier[q][d][g]
    <3>1. PICK s2 \in Since(q, d) : Covered(q, d, g, s2, b2)
      BY <1>2, <1>6, <2>3 DEF CoverInv
    <3>2. Covered(q, d, g, s2, b2)'
      BY <1>2, <2>2, <3>1 DEF Covered
    <3> QED
      BY <2>1, <3>1, <3>2
  <2>4. CASE b2 \notin frontier[q][d][g]
    <3>1. q = p /\ d = c /\ g = e /\ b2 = b
      BY <1>1, <1>6, <2>4 DEF ScanResult, TypeOK
    <3>2. Covered(p, c, e, s, b)'
      BY <1>1, <1>2, <1>3 DEF ScanResult, Covered
    <3> QED
      BY <1>1, <2>1, <3>1, <3>2
  <2> QED
    BY <2>3, <2>4
<1> QED
  BY <1>2, <1>5, <1>6 DEF CoverInv

\* A save moves the frontier of a chain to a block that every scan covered.
LEMMA CoverSave ==
  ASSUME TypeOK, LockInv, CoverInv, NEW p \in Proc, save_state(p)
  PROVE  CoverInv'
<1> USE DEF chainVars, coinbaseVars, passVars, procVars, boundVars, historyVars
<1>1. /\ pc[p] = "pass" /\ mem[p] = disk /\ pc' = [pc EXCEPT ![p] = "exit"]
      /\ UNCHANGED block
      /\ handled' = handled \cup {j.transfer : j \in jobs[p]}
  BY DEF save_state, PassDone, LockInv
<1>2. \A x \in disk.processed_tx_hashes \cup JobTxs(p) :
        \E u \in handled' : tx_of[u] = x
  BY <1>1 DEF CoverInv, JobTxs
<1>3. \A x \in disk'.processed_tx_hashes : \E u \in handled' : tx_of[u] = x
  BY <1>1, <1>2, SaveEffect
<1>4. FrontierCovers'
  <2> SUFFICES ASSUME NEW t \in Transfer,
                      NEW b \in disk'.last_seen_block[chain_of[tx_of[t]]],
                      Monitored(t)', block'[tx_of[t]] <= b
               PROVE  \E u \in handled' : tx_of[u] = tx_of[t]
    BY DEF FrontierCovers
  <2> DEFINE c == chain_of[tx_of[t]]
  <2>1. c \in Chain /\ tx_of[t] \in TxHash /\ block[tx_of[t]] \in Nat
    BY LedgerAssumption DEF TypeOK
  <2>2. Monitored(t) /\ block[tx_of[t]] <= b
    BY <1>1 DEF Monitored
  <2>3. ASSUME NEW b2 \in disk.last_seen_block[c], block[tx_of[t]] <= b2
        PROVE  \E u \in handled' : tx_of[u] = tx_of[t]
    BY <1>1, <2>2, <2>3 DEF CoverInv, FrontierCovers
  <2>4. CASE b \in disk.last_seen_block[c]
    BY <2>2, <2>3, <2>4
  <2>5. CASE /\ \E e \in Entry : b \in frontier[p][c][e]
             /\ \A e \in Entry : \E b2 \in frontier[p][c][e] : b <= b2
    <3>1. PICK e \in Entry : recipient[t] = entry_address[e]
      BY <2>2 DEF Monitored
    <3>2. PICK b2 \in frontier[p][c][e] : b <= b2
      BY <2>5, <3>1
    <3>3. b \in Nat /\ b2 \in Nat /\ block[tx_of[t]] <= b2
      BY <2>1, <2>2, <2>5, <3>2 DEF TypeOK
    <3>4. PICK s \in Since(p, c) : Covered(p, c, e, s, b2)
      BY <1>1, <2>1, <3>2 DEF CoverInv
    <3>5. s \in Nat
      <4>1. mem[p].last_seen_block[c] \in SUBSET Nat
        BY <2>1 DEF TypeOK, PersistedState
      <4> QED
        BY <2>1, <3>4, <4>1, SinceBlockType DEF Since
    <3>6. CASE s <= block[tx_of[t]]
      <4>1. tx_of[t] \in disk.processed_tx_hashes \cup JobTxs(p)
        BY <1>1, <2>2, <3>1, <3>3, <3>4, <3>6 DEF Covered, Monitored
      <4> QED
        BY <1>2, <4>1
    <3>7. CASE block[tx_of[t]] < s
      <4>1. s \in disk.last_seen_block[c]
        BY <1>1, <2>1, <2>2, <3>4, <3>5, <3>7, ConfigAssumption
           DEF Monitored, Since, since_block, start_block_for
      <4> QED
        BY <2>1, <2>3, <3>5, <3>7, <4>1
    <3> QED
      BY <2>1, <3>5, <3>6, <3>7
  <2> QED
    BY <1>1, <2>1, <2>4, <2>5, SaveEffect
<1>5. \A q \in Proc : pc'[q] # "pass"
  BY <1>1 DEF LockInv, TypeOK
<1> QED
  BY <1>3, <1>4, <1>5 DEF CoverInv

\* The saved frontier, and every frontier on its way there, is covered.
THEOREM CoverCorrect == Spec => []CoverInv
<1> USE DEF chainVars, coinbaseVars, passVars, procVars, boundVars, historyVars
<1>1. Init => CoverInv
  <2>1. Init => \A t \in Transfer : disk.last_seen_block[chain_of[tx_of[t]]] = {}
    BY LedgerAssumption DEF Init, DefaultState
  <2>2. Init => FrontierCovers
    BY <2>1 DEF FrontierCovers
  <2>3. Init => disk.processed_tx_hashes = {}
    BY DEF Init, DefaultState
  <2>4. Init => \A p \in Proc : pc[p] # "pass"
    BY DEF Init
  <2> QED
    BY <2>2, <2>3, <2>4 DEF CoverInv
<1>2. TypeOK /\ LockInv /\ FinalityInv /\ CoverInv /\ [Next]_vars => CoverInv'
  <2> SUFFICES ASSUME TypeOK, LockInv, FinalityInv, CoverInv, [Next]_vars
               PROVE  CoverInv'
    OBVIOUS
  <2>1. ASSUME UNCHANGED <<block, disk, handled, mem, frontier, jobs>>,
               \A q \in Proc : pc'[q] = "pass" => pc[q] = "pass"
        PROVE  CoverInv'
    <3>1. \A q \in Proc : JobTxs(q)' = JobTxs(q)
      BY <2>1 DEF JobTxs
    <3> QED
      BY <2>1, <3>1, CoverKept
  <2>2. ASSUME NEW p \in Proc,
               \/ Start(p) \/ acquire_lock(p) \/ LockBusy(p) \/ RunFails(p)
               \/ SaveFails(p)
        PROVE CoverInv'
    BY <2>1, <2>2 DEF Start, acquire_lock, LockBusy, RunFails, SaveFails, TypeOK
  <2>3. ASSUME NEW p \in Proc, load_state(p) PROVE CoverInv'
    <3>1. \A c \in Chain, e \in Entry : frontier'[p][c][e] = {}
      BY <2>3 DEF load_state, LockInv
    <3>2. \A q \in Proc \ {p} :
            /\ pc'[q] = pc[q] /\ mem'[q] = mem[q] /\ frontier'[q] = frontier[q]
            /\ JobTxs(q)' = JobTxs(q)
      BY <2>3 DEF load_state, TypeOK, JobTxs
    <3>3. UNCHANGED <<block, disk, handled>>
      BY <2>3 DEF load_state
    <3> QED
      BY <3>1, <3>2, <3>3, CoverKept
  <2>4. ASSUME NEW p \in Proc, NEW c \in Chain,
               get_block_height(p, c) \/ HeightFails(p, c)
        PROVE CoverInv'
    BY <2>1, <2>4 DEF get_block_height, HeightFails
  <2>5. ASSUME NEW p \in Proc, NEW c \in Chain, NEW e \in Entry,
               ScanFails(p, c, e)
        PROVE CoverInv'
    BY <2>1, <2>5 DEF ScanFails
  <2>6. ASSUME NEW p \in Proc, Liquidate(p) PROVE CoverInv'
    <3>1. UNCHANGED <<block, disk, handled, pc, mem, frontier>>
      BY <2>6, LiquidateEffect
    <3>2. PICK j \in jobs[p], s \in JobState : MoveJob(p, j, s)
      BY <2>6, LiquidateEffect DEF JobState
    <3>3. JobTxs(p)' = JobTxs(p) /\ \A q \in Proc \ {p} : jobs'[q] = jobs[q]
      BY <3>2, MoveJobEffect
    <3>4. \A q \in Proc : JobTxs(q)' = JobTxs(q)
      BY <3>3 DEF JobTxs
    <3> QED
      BY <3>1, <3>4, CoverKept
  <2>7. ASSUME NEW p \in Proc, Exit(p) \/ Crash(p) PROVE CoverInv'
    <3>1. Gone(p) /\ UNCHANGED <<block, disk, handled>>
      BY <2>7 DEF Exit, Crash
    <3>2. pc'[p] = "off"
      BY <3>1 DEF Gone, TypeOK
    <3>3. \A q \in Proc \ {p} :
            /\ pc'[q] = pc[q] /\ mem'[q] = mem[q] /\ frontier'[q] = frontier[q]
            /\ JobTxs(q)' = JobTxs(q)
      BY <3>1 DEF Gone, TypeOK, JobTxs
    <3> QED
      BY <3>1, <3>2, <3>3, CoverKept
  <2>8. CASE UNCHANGED vars
    BY <2>1, <2>8 DEF vars
  <2> QED
    BY <2>2, <2>3, <2>4, <2>5, <2>6, <2>7, <2>8, CoverEnvironment, CoverScan,
       CoverSave DEF Next, Step
<1> QED
  BY <1>1, <1>2, TypeCorrect, LockCorrect, FinalityCorrect, PTL DEF Spec

\* The saved frontier never moves past a deposit that no saved pass handled:
\* min over the scans, absorbing None and the confirmation floor suffice, for
\* nodes whose logs are complete below the confirmation depth.
THEOREM FrontierCoversHolds == Spec => []FrontierCovers
<1>1. CoverInv => FrontierCovers
  BY DEF CoverInv
<1> QED
  BY <1>1, CoverCorrect, PTL

-----------------------------------------------------------------------------
(* Single sale.                                                            *)

\* A pass queues a transfer once, and none of a processed transaction.
THEOREM JobsCorrect == Spec => []JobInv
<1> USE DEF chainVars, coinbaseVars, passVars, procVars, boundVars, historyVars
<1>1. Init => JobInv
  BY DEF Init, JobInv
<1>2. TypeOK /\ LockInv /\ FinalityInv /\ JobInv /\ [Next]_vars => JobInv'
  <2> SUFFICES ASSUME TypeOK, LockInv, FinalityInv, JobInv, [Next]_vars
               PROVE  JobInv'
    OBVIOUS
  <2>1. ASSUME \A q \in Proc :
                 \/ jobs'[q] = {}
                 \/ /\ jobs'[q] = jobs[q]
                    /\ \A c \in Chain : fetched[q][c] \subseteq fetched'[q][c]
                    /\ pc'[q] = "pass" => pc[q] = "pass" /\ mem'[q] = mem[q]
        PROVE  JobInv'
    <3> SUFFICES ASSUME NEW q \in Proc, NEW j \in jobs'[q]
                 PROVE  /\ recipient[j.transfer] = entry_address[j.entry]
                        /\ j.entry \in fetched'[q][chain_of[tx_of[j.transfer]]]
                        /\ pc'[q] = "pass" =>
                             tx_of[j.transfer] \notin mem'[q].processed_tx_hashes
                        /\ DistinctEntries =>
                             \A k \in jobs'[q] : k.transfer = j.transfer => k = j
      BY DEF JobInv
    <3>1. /\ jobs'[q] = jobs[q]
          /\ \A c \in Chain : fetched[q][c] \subseteq fetched'[q][c]
          /\ pc'[q] = "pass" => pc[q] = "pass" /\ mem'[q] = mem[q]
      BY <2>1
    <3>2. chain_of[tx_of[j.transfer]] \in Chain
      BY <3>1, LedgerAssumption DEF TypeOK, Job
    <3> QED
      BY <3>1, <3>2 DEF JobInv
  <2>2. ASSUME Environment PROVE JobInv'
    <3>1. UNCHANGED <<jobs, fetched, pc, mem>>
      BY <2>2, EnvironmentEffect
    <3> QED
      BY <2>1, <3>1
  <2>3. ASSUME NEW p \in Proc,
               \/ Start(p) \/ acquire_lock(p) \/ LockBusy(p) \/ RunFails(p)
               \/ save_state(p) \/ SaveFails(p)
        PROVE JobInv'
    <3>1. UNCHANGED <<jobs, fetched, mem>>
      BY <2>3 DEF Start, acquire_lock, LockBusy, RunFails, save_state, SaveFails
    <3>2. \A q \in Proc : pc'[q] = "pass" => pc[q] = "pass"
      BY <2>3 DEF Start, acquire_lock, LockBusy, RunFails, save_state, SaveFails,
                  TypeOK
    <3> QED
      BY <2>1, <3>1, <3>2
  <2>4. ASSUME NEW p \in Proc, load_state(p) PROVE JobInv'
    <3>1. jobs' = jobs /\ fetched' = fetched /\ jobs[p] = {}
      BY <2>4 DEF load_state, LockInv
    <3>2. \A q \in Proc \ {p} : pc'[q] = pc[q] /\ mem'[q] = mem[q]
      BY <2>4 DEF load_state, TypeOK
    <3> QED
      BY <2>1, <3>1, <3>2
  <2>5. ASSUME NEW p \in Proc, NEW c \in Chain,
               get_block_height(p, c) \/ HeightFails(p, c)
        PROVE JobInv'
    BY <2>1, <2>5 DEF get_block_height, HeightFails
  <2>6. ASSUME NEW p \in Proc, NEW c \in Chain, NEW e \in Entry,
               ScanFails(p, c, e)
        PROVE JobInv'
    <3>1. UNCHANGED <<jobs, pc, mem>>
      BY <2>6 DEF ScanFails
    <3>2. \A q \in Proc, d \in Chain : fetched[q][d] \subseteq fetched'[q][d]
      BY <2>6 DEF ScanFails, TypeOK
    <3> QED
      BY <2>1, <3>1, <3>2
  <2>7. ASSUME NEW p \in Proc, Exit(p) \/ Crash(p) PROVE JobInv'
    <3>1. Gone(p)
      BY <2>7 DEF Exit, Crash
    <3>2. jobs'[p] = {}
      BY <3>1 DEF Gone, TypeOK
    <3>3. \A q \in Proc \ {p} : /\ jobs'[q] = jobs[q] /\ fetched'[q] = fetched[q]
                                /\ pc'[q] = pc[q] /\ mem'[q] = mem[q]
      BY <3>1 DEF Gone, TypeOK
    <3> QED
      BY <2>1, <3>2, <3>3
  <2>8. ASSUME NEW p \in Proc, Liquidate(p) PROVE JobInv'
    <3>1. UNCHANGED <<fetched, pc, mem>>
      BY <2>8, LiquidateEffect
    <3>2. PICK j \in jobs[p], s \in JobState : MoveJob(p, j, s)
      BY <2>8, LiquidateEffect DEF JobState
    <3>3. \A q \in Proc \ {p} : jobs'[q] = jobs[q]
      BY <3>2, MoveJobEffect
    <3> DEFINE moved == [j EXCEPT !.state = s]
    <3>4. /\ \A k \in jobs'[p] : k \in jobs[p] \ {j} \/ k = moved
          /\ moved.transfer = j.transfer /\ moved.entry = j.entry
      <4>1. moved.transfer = j.transfer /\ moved.entry = j.entry
        BY DEF TypeOK, Job
      <4>2. jobs'[p] = (jobs[p] \ {j}) \cup {moved}
        BY <3>2 DEF MoveJob, TypeOK
      <4> HIDE DEF moved
      <4> QED
        BY <4>1, <4>2
    <3> HIDE DEF moved
    <3>5. \A k \in jobs'[p] : \E i \in jobs[p] :
            i.transfer = k.transfer /\ i.entry = k.entry
      BY <3>4
    <3>6. DistinctEntries => \A i, k \in jobs'[p] : k.transfer = i.transfer => k = i
      BY <3>4 DEF JobInv
    <3>7. \A k \in jobs'[p] :
            /\ recipient[k.transfer] = entry_address[k.entry]
            /\ k.entry \in fetched[p][chain_of[tx_of[k.transfer]]]
            /\ pc[p] = "pass" => tx_of[k.transfer] \notin mem[p].processed_tx_hashes
      <4> TAKE k \in jobs'[p]
      <4>1. PICK i \in jobs[p] : i.transfer = k.transfer /\ i.entry = k.entry
        BY <3>5
      <4>2. /\ recipient[i.transfer] = entry_address[i.entry]
            /\ i.entry \in fetched[p][chain_of[tx_of[i.transfer]]]
            /\ pc[p] = "pass" => tx_of[i.transfer] \notin mem[p].processed_tx_hashes
        BY <4>1 DEF JobInv
      <4> QED
        BY <4>1, <4>2
    <3> QED
      BY <3>1, <3>3, <3>6, <3>7 DEF JobInv
  <2>9. ASSUME NEW p \in Proc, NEW c \in Chain, NEW e \in Entry,
               address_scan(p, c, e)
        PROVE JobInv'
    <3>1. PICK b \in Nat, picked \in SUBSET Transfer :
            \E s \in Since(p, c) : ScanResult(p, c, e, s, b, picked)
      BY <2>9, ScanEffect
    <3>2. UNCHANGED <<pc, mem>> /\ e \notin fetched[p][c]
          /\ fetched' = [fetched EXCEPT ![p][c] = @ \cup {e}]
      BY <2>9 DEF address_scan, ScanTo, Scanning
    <3>3. /\ jobs'[p] = jobs[p] \cup {NewJob(e, t) : t \in picked}
          /\ \A q \in Proc \ {p} : jobs'[q] = jobs[q]
      BY <3>1 DEF ScanResult, TypeOK
    <3>4. /\ \A q \in Proc, d \in Chain : fetched[q][d] \subseteq fetched'[q][d]
          /\ e \in fetched'[p][c]
      BY <3>2 DEF TypeOK
    <3>5. \A t \in picked : NewJob(e, t).transfer = t /\ NewJob(e, t).entry = e
      BY DEF NewJob
    <3>6. \A t \in picked :
            /\ recipient[t] = entry_address[e] /\ chain_of[tx_of[t]] = c
            /\ tx_of[t] \notin mem[p].processed_tx_hashes
      BY <3>1 DEF ScanResult
    <3>7. \A j \in jobs[p] : j.entry \in Entry
                             /\ chain_of[tx_of[j.transfer]] \in Chain
      BY LedgerAssumption DEF TypeOK, Job
    <3>8. \A j \in jobs'[p] :
            /\ recipient[j.transfer] = entry_address[j.entry]
            /\ j.entry \in fetched'[p][chain_of[tx_of[j.transfer]]]
            /\ pc[p] = "pass" => tx_of[j.transfer] \notin mem[p].processed_tx_hashes
      BY <3>3, <3>4, <3>5, <3>6, <3>7 DEF JobInv
    <3>9. DistinctEntries => \A j \in jobs[p], t \in picked : j.transfer # t
      BY <3>2, <3>6, <3>7 DEF JobInv, DistinctEntries
    <3>10. DistinctEntries => \A j, k \in jobs'[p] : k.transfer = j.transfer => k = j
      BY <3>3, <3>5, <3>9 DEF JobInv
    <3>11. \A q \in Proc \ {p} : \A j \in jobs'[q] :
             /\ recipient[j.transfer] = entry_address[j.entry]
             /\ j.entry \in fetched'[q][chain_of[tx_of[j.transfer]]]
             /\ pc[q] = "pass" => tx_of[j.transfer] \notin mem[q].processed_tx_hashes
             /\ DistinctEntries =>
                  \A k \in jobs'[q] : k.transfer = j.transfer => k = j
      <4>1. \A q \in Proc : \A j \in jobs[q] : chain_of[tx_of[j.transfer]] \in Chain
        BY LedgerAssumption DEF TypeOK, Job
      <4> QED
        BY <3>3, <3>4, <4>1 DEF JobInv
    <3> QED
      BY <3>2, <3>8, <3>10, <3>11 DEF JobInv
  <2>10. CASE UNCHANGED vars
    BY <2>1, <2>10 DEF vars
  <2> QED
    BY <2>2, <2>3, <2>4, <2>5, <2>6, <2>7, <2>8, <2>9, <2>10 DEF Next, Step
<1> QED
  BY <1>1, <1>2, TypeCorrect, LockCorrect, FinalityCorrect, PTL DEF Spec

\* Sales the file does not know of are in jobs of the running pass.
THEOREM SalesCorrect ==
  ASSUME DistinctEntries
  PROVE  Spec => []SaleInv
<1> USE DEF chainVars, coinbaseVars, passVars, procVars, boundVars, historyVars
<1>1. Init => SaleInv
  BY DEF Init, SaleInv, SoldOnceUnlessLost, WithdrawBacked
<1>2. TypeOK /\ LockInv /\ JobInv /\ SaleInv /\ [Next]_vars => SaleInv'
  <2> SUFFICES ASSUME TypeOK, LockInv, JobInv, SaleInv, [Next]_vars
               PROVE  SaleInv'
    OBVIOUS
  <2>1. ASSUME UNCHANGED <<sold, paid, disk>>, lost \subseteq lost',
               \A q \in Proc :
                 \/ /\ pc'[q] = "pass" <=> pc[q] = "pass"
                    /\ pc[q] = "pass" => jobs[q] \subseteq jobs'[q]
                    /\ \A j \in jobs'[q] : j \in jobs[q] \/ j.state # "sold"
                 \/ /\ pc'[q] = "pass" => jobs'[q] = {}
                    /\ pc[q] = "pass" => JobTxs(q) \subseteq lost'
        PROVE  SaleInv'
    <3>1. \A q \in Proc : \A j \in jobs[q] :
            pc[q] = "pass" /\ tx_of[j.transfer] \notin lost'
              => pc'[q] = "pass" /\ j \in jobs'[q]
      BY <2>1 DEF JobTxs
    <3>2. \A q \in Proc : \A j \in jobs'[q] :
            pc'[q] = "pass" /\ j.state = "sold" => pc[q] = "pass" /\ j \in jobs[q]
      BY <2>1
    <3>3. \A t \in Transfer : sold'[t] > 0 /\ tx_of[t] \notin lost' =>
            \/ tx_of[t] \in disk'.processed_tx_hashes
            \/ \E p \in Proc : \E j \in jobs'[p] :
                 pc'[p] = "pass" /\ j.transfer = t /\ j.state # "queued"
      BY <2>1, <3>1 DEF SaleInv
    <3>4. \A p \in Proc : \A j \in jobs'[p] :
            pc'[p] = "pass" /\ j.state = "sold"
              => paid'[j.transfer] < sold'[j.transfer]
      BY <2>1, <3>2 DEF SaleInv
    <3> QED
      BY <2>1, <3>3, <3>4 DEF SaleInv, SoldOnceUnlessLost, WithdrawBacked
  <2>2. ASSUME Environment PROVE SaleInv'
    <3>1. UNCHANGED <<sold, paid, disk, lost, pc, jobs>>
      BY <2>2, EnvironmentEffect
    <3> QED
      BY <2>1, <3>1
  <2>3. ASSUME NEW p \in Proc,
               \/ Start(p) \/ acquire_lock(p) \/ LockBusy(p) \/ RunFails(p)
        PROVE SaleInv'
    <3>1. UNCHANGED <<sold, paid, disk, lost, jobs>>
      BY <2>3 DEF Start, acquire_lock, LockBusy, RunFails
    <3>2. \A q \in Proc : pc'[q] = "pass" <=> pc[q] = "pass"
      BY <2>3 DEF Start, acquire_lock, LockBusy, RunFails, TypeOK
    <3> QED
      BY <2>1, <3>1, <3>2
  <2>4. ASSUME NEW p \in Proc, load_state(p) PROVE SaleInv'
    <3>1. UNCHANGED <<sold, paid, disk, lost, jobs>> /\ jobs[p] = {}
      BY <2>4 DEF load_state, LockInv
    <3>2. pc[p] # "pass" /\ \A q \in Proc \ {p} : pc'[q] = pc[q]
      BY <2>4 DEF load_state, TypeOK
    <3> QED
      BY <2>1, <3>1, <3>2
  <2>5. ASSUME NEW p \in Proc, NEW c \in Chain,
               get_block_height(p, c) \/ HeightFails(p, c)
        PROVE SaleInv'
    BY <2>1, <2>5 DEF get_block_height, HeightFails
  <2>6. ASSUME NEW p \in Proc, NEW c \in Chain, NEW e \in Entry,
               address_scan(p, c, e) \/ ScanFails(p, c, e)
        PROVE SaleInv'
    <3>1. UNCHANGED <<sold, paid, disk, lost, pc>>
      BY <2>6 DEF address_scan, ScanTo, ScanFails
    <3>2. \/ jobs' = jobs
          \/ \E picked \in SUBSET Transfer :
               jobs' = [jobs EXCEPT ![p] = @ \cup {NewJob(e, t) : t \in picked}]
      BY <2>6 DEF address_scan, ScanTo, ScanFails, OnePerHash, Receives
    <3>3. \A t \in Transfer : NewJob(e, t).state # "sold"
      BY DEF NewJob
    <3>4. \A q \in Proc : /\ jobs[q] \subseteq jobs'[q]
                          /\ \A j \in jobs'[q] : j \in jobs[q] \/ j.state # "sold"
      <4>1. CASE jobs' = jobs
        BY <4>1
      <4>2. ASSUME NEW picked \in SUBSET Transfer,
                   jobs' = [jobs EXCEPT ![p] = @ \cup {NewJob(e, t) : t \in picked}]
            PROVE  <3>4
        <5>1. /\ jobs'[p] = jobs[p] \cup {NewJob(e, t) : t \in picked}
              /\ \A q \in Proc \ {p} : jobs'[q] = jobs[q]
          BY <4>2 DEF TypeOK
        <5> QED
          BY <3>3, <5>1
      <4> QED
        BY <3>2, <4>1, <4>2
    <3> QED
      BY <2>1, <3>1, <3>4
  <2>7. ASSUME NEW p \in Proc, SaveFails(p) PROVE SaleInv'
    <3>1. /\ UNCHANGED <<sold, paid, disk, jobs>> /\ lost' = lost \cup JobTxs(p)
          /\ pc' = [pc EXCEPT ![p] = "exit"]
      BY <2>7 DEF SaveFails
    <3>2. pc'[p] = "exit" /\ \A q \in Proc \ {p} : pc'[q] = pc[q]
      BY <3>1 DEF TypeOK
    <3> QED
      BY <2>1, <3>1, <3>2
  <2>8. ASSUME NEW p \in Proc, Exit(p) \/ Crash(p) PROVE SaleInv'
    <3>1. Gone(p) /\ UNCHANGED <<sold, paid, disk>>
          /\ lost \subseteq lost'
          /\ (pc[p] = "pass" => JobTxs(p) \subseteq lost')
      BY <2>8 DEF Exit, Crash
    <3>2. pc'[p] = "off" /\ \A q \in Proc \ {p} : pc'[q] = pc[q] /\ jobs'[q] = jobs[q]
      BY <3>1 DEF Gone, TypeOK
    <3> QED
      BY <2>1, <3>1, <3>2
  <2>9. ASSUME NEW p \in Proc, pc[p] = "pass" PROVE \A q \in Proc : pc[q] = "pass" => q = p
    BY <2>9 DEF LockInv
  <2>10. ASSUME NEW p \in Proc, save_state(p) PROVE SaleInv'
    <3>1. /\ UNCHANGED <<sold, paid, jobs>> /\ pc[p] = "pass" /\ mem[p] = disk
          /\ pc' = [pc EXCEPT ![p] = "exit"]
      BY <2>10 DEF save_state, PassDone, LockInv
    <3>2. \A q \in Proc : pc'[q] # "pass"
      BY <2>9, <3>1 DEF TypeOK
    <3>3. /\ disk.processed_tx_hashes \cup JobTxs(p)
               \subseteq disk'.processed_tx_hashes \cup lost'
          /\ lost \subseteq lost'
      BY <2>10, <3>1, SaveEffect
    <3>4. \A t \in Transfer : sold[t] > 0 /\ tx_of[t] \notin lost =>
            tx_of[t] \in disk.processed_tx_hashes \cup JobTxs(p)
      BY <2>9, <3>1 DEF SaleInv, JobTxs
    <3> QED
      BY <3>1, <3>2, <3>3, <3>4 DEF SaleInv, SoldOnceUnlessLost, WithdrawBacked
  <2>11. ASSUME NEW p \in Proc, Liquidate(p) PROVE SaleInv'
    <3>1. pc[p] = "pass" /\ UNCHANGED <<pc, mem, disk, lost>>
      BY <2>11, LiquidateEffect
    <3>2. PICK j \in jobs[p], s \in {"sold", "initiated", "failed"} :
            /\ MoveJob(p, j, s)
            /\ \/ s = "failed" /\ UNCHANGED coinbaseVars
               \/ /\ j.state = "queued" /\ s # "initiated"
                  /\ UNCHANGED paid
                  /\ \/ sold' = [sold EXCEPT ![j.transfer] = @ + 1]
                     \/ s = "failed" /\ sold' = [sold EXCEPT ![j.transfer] = @ + 0]
               \/ /\ j.state = "sold" /\ s # "sold"
                  /\ UNCHANGED sold
                  /\ \E n \in {0, 1} : paid' = [paid EXCEPT ![j.transfer] = @ + n]
      BY <2>11, LiquidateEffect
    <3> DEFINE t0 == j.transfer
               moved == [j EXCEPT !.state = s]
    <3>3. /\ t0 \in Transfer
          /\ sold \in [Transfer -> Nat] /\ paid \in [Transfer -> Nat]
      BY DEF TypeOK, Job
    <3>4. /\ moved \in jobs'[p] /\ moved.transfer = t0 /\ moved.state = s
          /\ \A k \in jobs[p] \ {j} : k \in jobs'[p]
          /\ \A k \in jobs'[p] : k \in jobs[p] \ {j} \/ k = moved
          /\ \A q \in Proc \ {p} : jobs'[q] = jobs[q]
      <4>1. s \in JobState
        BY DEF JobState
      <4>2. moved.transfer = t0 /\ moved.state = s
        BY DEF TypeOK, Job
      <4> QED
        BY <3>2, <4>1, <4>2, MoveJobEffect
    <3> HIDE DEF moved, t0
    <3>5. \A k \in jobs[p] \ {j} : k.transfer # t0
      BY DEF JobInv, t0
    <3>6. \A t \in Transfer \ {t0} : sold'[t] = sold[t] /\ paid'[t] = paid[t]
      BY <3>2, <3>3 DEF t0
    <3>7. \A t \in Transfer \ {t0} :
            sold[t] > 0 /\ tx_of[t] \notin lost =>
              \/ tx_of[t] \in disk.processed_tx_hashes
              \/ \E k \in jobs[p] \ {j} : k.transfer = t /\ k.state # "queued"
      BY <2>9, <3>1 DEF SaleInv, t0
    <3>8. \A t \in Transfer : sold'[t] > 0 /\ tx_of[t] \notin lost' =>
            \/ tx_of[t] \in disk'.processed_tx_hashes
            \/ \E q \in Proc : \E k \in jobs'[q] :
                 pc'[q] = "pass" /\ k.transfer = t /\ k.state # "queued"
      <4> SUFFICES ASSUME NEW t \in Transfer, sold'[t] > 0, tx_of[t] \notin lost'
                   PROVE  \/ tx_of[t] \in disk'.processed_tx_hashes
                          \/ \E k \in jobs'[p] : k.transfer = t /\ k.state # "queued"
        BY <3>1
      <4>1. CASE t = t0
        BY <3>4, <4>1
      <4>2. CASE t # t0
        BY <3>1, <3>4, <3>6, <3>7, <4>2
      <4> QED
        BY <4>1, <4>2
    <3>9. j.state = "queued" /\ tx_of[t0] \notin lost => sold[t0] = 0
      <4>1. tx_of[t0] \notin disk.processed_tx_hashes
        BY <3>1 DEF JobInv, LockInv, t0
      <4>2. \A k \in jobs[p] : k.transfer = t0 => k = j
        BY <3>5
      <4> QED
        BY <2>9, <3>1, <3>3, <4>1, <4>2 DEF SaleInv
    <3>10. sold'[t0] > 1 => tx_of[t0] \in lost
      <4>1. CASE sold' = sold \/ sold'[t0] = sold[t0]
        BY <3>3, <4>1 DEF SaleInv, SoldOnceUnlessLost
      <4>2. CASE j.state = "queued" /\ sold' = [sold EXCEPT ![j.transfer] = @ + 1]
        BY <3>3, <3>9, <4>2 DEF t0
      <4>3. CASE sold' = [sold EXCEPT ![j.transfer] = @ + 0]
        BY <3>3, <4>1, <4>3 DEF t0
      <4> QED
        BY <3>2, <4>1, <4>2, <4>3
    <3>11. /\ paid'[t0] <= sold'[t0]
           /\ s = "sold" => paid'[t0] < sold'[t0]
      <4>1. paid[t0] <= sold[t0] /\ (j.state = "sold" => paid[t0] < sold[t0])
        BY <3>1, <3>3 DEF SaleInv, WithdrawBacked, t0
      <4>2. CASE s = "failed" /\ UNCHANGED coinbaseVars
        BY <4>1, <4>2
      <4>3. CASE j.state = "queued" /\ UNCHANGED paid
                 /\ sold' = [sold EXCEPT ![j.transfer] = @ + 1]
        BY <3>3, <4>1, <4>3 DEF t0
      <4>4. CASE s = "failed" /\ UNCHANGED paid
                 /\ sold' = [sold EXCEPT ![j.transfer] = @ + 0]
        BY <3>3, <4>1, <4>4 DEF t0
      <4>5. CASE /\ j.state = "sold" /\ s # "sold" /\ UNCHANGED sold
                 /\ \E n \in {0, 1} : paid' = [paid EXCEPT ![j.transfer] = @ + n]
        BY <3>3, <4>1, <4>5 DEF t0
      <4> QED
        BY <3>2, <4>2, <4>3, <4>4, <4>5
    <3>12. \A q \in Proc : \A k \in jobs'[q] :
             pc'[q] = "pass" /\ k.state = "sold"
               => paid'[k.transfer] < sold'[k.transfer]
      <4> SUFFICES ASSUME NEW k \in jobs'[p], k.state = "sold"
                   PROVE  paid'[k.transfer] < sold'[k.transfer]
        BY <2>9, <3>1
      <4>1. CASE k = moved
        BY <3>4, <3>11, <4>1
      <4>2. CASE k \in jobs[p] \ {j}
        <5>1. k.transfer \in Transfer
          BY <4>2 DEF TypeOK, Job
        <5>2. paid[k.transfer] < sold[k.transfer]
          BY <3>1, <4>2 DEF SaleInv
        <5> QED
          BY <3>5, <3>6, <4>2, <5>1, <5>2
      <4> QED
        BY <3>4, <4>1, <4>2
    <3>13. SoldOnceUnlessLost' /\ WithdrawBacked'
      BY <3>1, <3>6, <3>10, <3>11 DEF SaleInv, SoldOnceUnlessLost, WithdrawBacked
    <3> QED
      BY <3>8, <3>12, <3>13 DEF SaleInv
  <2>12. CASE UNCHANGED vars
    BY <2>1, <2>12 DEF vars
  <2> QED
    BY <2>2, <2>3, <2>4, <2>5, <2>6, <2>7, <2>8, <2>10, <2>11, <2>12
       DEF Next, Step
<1> QED
  BY <1>1, <1>2, TypeCorrect, LockCorrect, JobsCorrect, PTL DEF Spec

\* A deposit is sold at most once, unless its pass died, failed to save, or its
\* hash was pruned.
THEOREM SoldOnceHolds ==
  ASSUME DistinctEntries
  PROVE  Spec => []SoldOnceUnlessLost
<1>1. SaleInv => SoldOnceUnlessLost
  BY DEF SaleInv
<1> QED
  BY <1>1, SalesCorrect, PTL

\* Coinbase never pays out more often for a transfer than it sold for it.
THEOREM WithdrawBackedHolds ==
  ASSUME DistinctEntries
  PROVE  Spec => []WithdrawBacked
<1>1. SaleInv => WithdrawBacked
  BY DEF SaleInv
<1> QED
  BY <1>1, SalesCorrect, PTL

\* A hash leaves the state file only when a record of it is past the retention
\* period: passes do not overwrite each other's results.
THEOREM HashesOnlyPrunedHolds == Spec => HashesOnlyPruned
<1> USE DEF chainVars, coinbaseVars, passVars, procVars, boundVars, historyVars
<1> DEFINE Kept == \A x \in disk.processed_tx_hashes \ disk'.processed_tx_hashes :
                     \E r \in disk.bank_payments :
                       r.deposit_tx_hash = x /\ IsStale(r, now)
<1>1. TypeOK /\ LockInv /\ JobInv /\ [Next]_vars => [Kept]_vars
  <2> SUFFICES ASSUME TypeOK, LockInv, JobInv, [Next]_vars PROVE Kept
    OBVIOUS
  <2>1. ASSUME disk' = disk PROVE Kept
    BY <2>1
  <2>2. ASSUME NEW p \in Proc, save_state(p) PROVE Kept
    <3>1. mem[p] = disk /\ pc[p] = "pass" /\ PassDone(p)
      BY <2>2 DEF save_state, PassDone, LockInv
    <3>2. \A j \in jobs[p] : /\ Record(j).deposit_tx_hash = tx_of[j.transfer]
                             /\ tx_of[j.transfer] \notin disk.processed_tx_hashes
      BY <3>1, RecordType DEF PassDone, TypeOK, JobInv
    <3>3. \A x \in disk.processed_tx_hashes \ disk'.processed_tx_hashes :
            \E r \in disk.bank_payments \cup {Record(j) : j \in jobs[p]} :
              r.deposit_tx_hash = x /\ IsStale(r, now)
      BY <2>2, <3>1, SaveEffect
    <3> QED
      BY <3>2, <3>3
  <2>3. ASSUME Environment PROVE Kept
    BY <2>1, <2>3, EnvironmentEffect
  <2>4. ASSUME NEW p \in Proc, Liquidate(p) PROVE Kept
    BY <2>1, <2>4, LiquidateEffect
  <2>5. ASSUME NEW p \in Proc,
               \/ Start(p) \/ acquire_lock(p) \/ LockBusy(p) \/ load_state(p)
               \/ RunFails(p) \/ SaveFails(p) \/ Exit(p) \/ Crash(p)
        PROVE Kept
    BY <2>1, <2>5 DEF Start, acquire_lock, LockBusy, load_state, RunFails,
                      SaveFails, Exit, Crash
  <2>6. ASSUME NEW p \in Proc, NEW c \in Chain,
               \/ get_block_height(p, c) \/ HeightFails(p, c)
               \/ \E e \in Entry : address_scan(p, c, e) \/ ScanFails(p, c, e)
        PROVE Kept
    BY <2>1, <2>6 DEF get_block_height, HeightFails, address_scan, ScanTo,
                      ScanFails
  <2>7. CASE UNCHANGED vars
    BY <2>1, <2>7 DEF vars
  <2> HIDE DEF Kept
  <2> QED
    BY <2>2, <2>3, <2>4, <2>5, <2>6, <2>7 DEF Next, Step
<1> QED
  BY <1>1, TypeCorrect, LockCorrect, JobsCorrect, PTL DEF Spec, HashesOnlyPruned

-----------------------------------------------------------------------------
(* The audit trail.                                                        *)

\* The worker says "initiated" of a job only after Coinbase took its
\* withdrawal, and no withdrawal is taken back.
LEMMA LiquidatePays ==
  ASSUME TypeOK, NEW p \in Proc, Liquidate(p)
  PROVE  /\ \A t \in Transfer : paid[t] <= paid'[t]
         /\ \A q \in Proc \ {p} : jobs'[q] = jobs[q]
         /\ \A k \in jobs'[p] :
              k \in jobs[p] \/ k.state # "initiated" \/ paid'[k.transfer] > 0
<1> USE DEF chainVars, coinbaseVars, passVars, procVars, boundVars, historyVars
<1>1. PICK j \in jobs[p] :
        \/ RejectLarge(p, j) \/ sell_usdc(p, j) \/ SellFails(p, j)
        \/ withdraw_usd(p, j) \/ WithdrawFails(p, j)
  BY DEF Liquidate
<1>2. j.transfer \in Transfer /\ paid \in [Transfer -> Nat]
  BY DEF TypeOK, Job
<1>3. CASE withdraw_usd(p, j)
  <2>1. MoveJob(p, j, "initiated") /\ paid' = [paid EXCEPT ![j.transfer] = @ + 1]
    BY <1>3 DEF withdraw_usd
  <2>2. /\ \A q \in Proc \ {p} : jobs'[q] = jobs[q]
        /\ \A k \in jobs'[p] : k \in jobs[p] \/ k.transfer = j.transfer
    BY <2>1, MoveJobEffect DEF JobState
  <2>3. paid'[j.transfer] > 0 /\ \A t \in Transfer : paid[t] <= paid'[t]
    BY <1>2, <2>1
  <2> QED
    BY <2>2, <2>3
<1>4. CASE \/ RejectLarge(p, j) \/ sell_usdc(p, j) \/ SellFails(p, j)
           \/ WithdrawFails(p, j)
  <2>1. PICK s \in {"sold", "failed"} : MoveJob(p, j, s)
    BY <1>4 DEF RejectLarge, sell_usdc, SellFails, WithdrawFails
  <2>2. s \in JobState
    BY DEF JobState
  <2>3. /\ \A q \in Proc \ {p} : jobs'[q] = jobs[q]
        /\ \A k \in jobs'[p] : k \in jobs[p] \/ k.state = s
    <3>1. \A q \in Proc \ {p} : jobs'[q] = jobs[q]
      BY <2>1, <2>2, MoveJobEffect
    <3> DEFINE moved == [j EXCEPT !.state = s]
    <3>2. \A k \in jobs'[p] : k \in jobs[p] \/ k.state = s
      <4>1. jobs'[p] = (jobs[p] \ {j}) \cup {moved}
        BY <2>1 DEF MoveJob, TypeOK
      <4>2. moved.state = s
        BY DEF TypeOK, Job
      <4> HIDE DEF moved
      <4> QED
        BY <4>1, <4>2
    <3> QED
      BY <3>1, <3>2
  <2>4. PICK n \in {0, 1} : paid' = paid \/ paid' = [paid EXCEPT ![j.transfer] = @ + n]
    BY <1>4 DEF RejectLarge, sell_usdc, SellFails, WithdrawFails
  <2>5. \A t \in Transfer : paid[t] <= paid'[t]
    BY <1>2, <2>4
  <2> QED
    BY <2>3, <2>5
<1> QED
  BY <1>1, <1>3, <1>4

\* Which jobs and records the steps that do not liquidate, scan or save leave.
LEMMA RestEffect ==
  ASSUME TypeOK, [Next]_vars,
         \A p \in Proc : ~ Liquidate(p) /\ ~ save_state(p),
         \A p \in Proc, c \in Chain, e \in Entry : ~ address_scan(p, c, e)
  PROVE  /\ UNCHANGED <<sold, paid, disk>>
         /\ \A q \in Proc : jobs'[q] \subseteq jobs[q]
<1> USE DEF chainVars, coinbaseVars, passVars, procVars, boundVars, historyVars
<1>1. CASE Environment
  BY <1>1, EnvironmentEffect
<1>2. ASSUME NEW p \in Proc,
             \/ Start(p) \/ acquire_lock(p) \/ LockBusy(p) \/ load_state(p)
             \/ RunFails(p) \/ SaveFails(p)
      PROVE  UNCHANGED <<sold, paid, disk, jobs>>
  BY <1>2 DEF Start, acquire_lock, LockBusy, load_state, RunFails, SaveFails
<1>3. ASSUME NEW p \in Proc, NEW c \in Chain,
             \/ get_block_height(p, c) \/ HeightFails(p, c)
             \/ \E e \in Entry : ScanFails(p, c, e)
      PROVE  UNCHANGED <<sold, paid, disk, jobs>>
  BY <1>3 DEF get_block_height, HeightFails, ScanFails
<1>4. ASSUME NEW p \in Proc, Exit(p) \/ Crash(p)
      PROVE  /\ UNCHANGED <<sold, paid, disk>>
             /\ \A q \in Proc : jobs'[q] \subseteq jobs[q]
  <2>1. Gone(p) /\ UNCHANGED <<sold, paid, disk>>
    BY <1>4 DEF Exit, Crash
  <2> QED
    BY <2>1 DEF Gone, TypeOK
<1>5. CASE UNCHANGED vars
  BY <1>5 DEF vars
<1> QED
  BY <1>1, <1>2, <1>3, <1>4, <1>5 DEF Next, Step

\* What a save does to the records, for the records it kept one to an id.
SavedRecords(p, kept) ==
  LET merged == {r \in mem[p].bank_payments : \A q \in kept : q.id # r.id}
                  \cup kept
  IN  /\ disk'.bank_payments = {r \in merged : ~ IsStale(r, now)}
      /\ disk'.processed_tx_hashes =
           (mem[p].processed_tx_hashes \cup JobTxs(p))
             \ {r.deposit_tx_hash : r \in {q \in merged : IsStale(q, now)}}

\* A save writes the loaded records and those of its finished jobs, one to an
\* id, and prunes them.
LEMMA SaveRecords ==
  ASSUME TypeOK, NEW p \in Proc, save_state(p)
  PROVE  \E kept \in OnePerId({Record(j) : j \in jobs[p]}) : SavedRecords(p, kept)
<1>1. PICK kept \in OnePerId({Record(j) : j \in jobs[p]}) :
        disk' = prune_stale_entries(Merged(p, kept), now)
  BY DEF save_state
<1>2. Merged(p, kept) \in PersistedState
  BY MergedType DEF save_state
<1> DEFINE m == Merged(p, kept)
           stale == {r \in m.bank_payments : IsStale(r, now)}
<1>3. /\ disk'.bank_payments = m.bank_payments \ stale
      /\ disk'.processed_tx_hashes
           = m.processed_tx_hashes \ {r.deposit_tx_hash : r \in stale}
  BY <1>1, <1>2 DEF prune_stale_entries, PersistedState
<1>4. /\ m.bank_payments = {r \in mem[p].bank_payments : \A q \in kept : q.id # r.id}
                             \cup kept
      /\ m.processed_tx_hashes = mem[p].processed_tx_hashes \cup JobTxs(p)
  BY DEF Merged
<1>5. m.bank_payments \ stale = {r \in m.bank_payments : ~ IsStale(r, now)}
  OBVIOUS
<1> HIDE DEF m
<1> QED
  BY <1>3, <1>4, <1>5 DEF SavedRecords

\* No withdrawal is reported that was not made.
THEOREM PaidCorrect == Spec => []PaidInv
<1>1. Init => PaidInv
  BY DEF Init, PaidInv, InitiatedIsPaid, DefaultState
<1>2. TypeOK /\ LockInv /\ FinalityInv /\ PaidInv /\ [Next]_vars => PaidInv'
  <2> SUFFICES ASSUME TypeOK, LockInv, FinalityInv, PaidInv, [Next]_vars PROVE PaidInv'
    OBVIOUS
  <2>1. paid \in [Transfer -> Nat] /\ \A q \in Proc : \A j \in jobs[q] : j.transfer \in Transfer
    BY DEF TypeOK, Job
  <2>2. ASSUME disk' = disk,
               \A t \in Transfer : paid[t] <= paid'[t],
               paid' \in [Transfer -> Nat],
               \A q \in Proc : \A j \in jobs'[q] :
                 j \in jobs[q] \/ j.state # "initiated" \/ paid'[j.transfer] > 0
        PROVE  PaidInv'
    <3>1. \A t \in Transfer : paid[t] > 0 => paid'[t] > 0
      BY <2>1, <2>2
    <3> QED
      BY <2>1, <2>2, <3>1 DEF PaidInv, InitiatedIsPaid
  <2>3. ASSUME NEW p \in Proc, Liquidate(p) PROVE PaidInv'
    <3>1. disk' = disk
      BY <2>3, LiquidateEffect
    <3>2. paid' \in [Transfer -> Nat]
      <4>1. PICK j \in jobs[p], n \in {0, 1} :
              paid' = paid \/ paid' = [paid EXCEPT ![j.transfer] = @ + n]
        BY <2>3, LiquidateEffect DEF coinbaseVars
      <4> QED
        BY <2>1, <4>1
    <3> QED
      BY <2>2, <2>3, <3>1, <3>2, LiquidatePays
  <2>4. ASSUME NEW p \in Proc, NEW c \in Chain, NEW e \in Entry,
               address_scan(p, c, e)
        PROVE  PaidInv'
    <3>1. UNCHANGED <<disk, paid>>
      BY <2>4 DEF address_scan, ScanTo, coinbaseVars
    <3>2. PICK picked \in SUBSET Transfer :
            jobs' = [jobs EXCEPT ![p] = @ \cup {NewJob(e, t) : t \in picked}]
      BY <2>4 DEF address_scan, ScanTo, OnePerHash, Receives
    <3>3. \A t \in picked : NewJob(e, t).state # "initiated"
      BY DEF NewJob
    <3>4. \A q \in Proc : \A j \in jobs'[q] : j \in jobs[q] \/ j.state # "initiated"
      BY <3>2, <3>3 DEF TypeOK
    <3> QED
      BY <2>1, <2>2, <3>1, <3>4
  <2>5. ASSUME NEW p \in Proc, save_state(p) PROVE PaidInv'
    <3>1. UNCHANGED <<paid, jobs>> /\ PassDone(p) /\ mem[p] = disk
      BY <2>5 DEF save_state, PassDone, LockInv, coinbaseVars, passVars
    <3>2. PICK kept \in OnePerId({Record(j) : j \in jobs[p]}) : SavedRecords(p, kept)
      BY <2>5, SaveRecords
    <3>3. disk'.bank_payments \subseteq disk.bank_payments \cup {Record(j) : j \in jobs[p]}
      BY <3>1, <3>2 DEF SavedRecords, OnePerId
    <3>4. \A j \in jobs[p] : /\ Record(j).deposit_tx_hash = tx_of[j.transfer]
                             /\ Record(j).outcome = j.state
      BY DEF Record, BankPayment
    <3> QED
      BY <2>1, <3>1, <3>3, <3>4 DEF PaidInv, InitiatedIsPaid
  <2>6. CASE /\ \A p \in Proc : ~ Liquidate(p) /\ ~ save_state(p)
             /\ \A p \in Proc, c \in Chain, e \in Entry : ~ address_scan(p, c, e)
    <3>1. UNCHANGED <<paid, disk>> /\ \A q \in Proc : jobs'[q] \subseteq jobs[q]
      BY <2>6, RestEffect
    <3> QED
      BY <2>1, <2>2, <3>1
  <2> QED
    BY <2>3, <2>4, <2>5, <2>6
<1> QED
  BY <1>1, <1>2, TypeCorrect, LockCorrect, FinalityCorrect, PTL DEF Spec

\* A record that says "initiated" stands for a withdrawal Coinbase made.
THEOREM InitiatedIsPaidHolds == Spec => []InitiatedIsPaid
<1>1. PaidInv => InitiatedIsPaid
  BY DEF PaidInv
<1> QED
  BY <1>1, PaidCorrect, PTL

\* Saving a pass keeps one record to a hash, and a record to every hash: the
\* records of new transactions replace none of the loaded ones, and a record
\* that is pruned is the only one of its hash.
LEMMA SaveKeepsAudit ==
  ASSUME UniquePrefixes, TypeOK, LockInv, JobInv, AuditInv,
         NEW p \in Proc, save_state(p)
  PROVE  /\ AuditMatchesDedup'
         /\ \A r \in disk'.bank_payments :
              r.id = make_id(r.processed_at, r.deposit_tx_hash)
         /\ \A r, q \in disk'.bank_payments :
              r.deposit_tx_hash = q.deposit_tx_hash => r = q
<1>1. pc[p] = "pass" /\ PassDone(p) /\ mem[p] = disk
  BY DEF save_state, PassDone, LockInv
<1>2. PICK kept \in OnePerId({Record(j) : j \in jobs[p]}) : SavedRecords(p, kept)
  BY SaveRecords
<1> DEFINE old == disk.bank_payments
           merged == {r \in old : \A q \in kept : q.id # r.id} \cup kept
           stale == {q \in merged : IsStale(q, now)}
<1>3. /\ disk'.bank_payments = {r \in merged : ~ IsStale(r, now)}
      /\ disk'.processed_tx_hashes = (disk.processed_tx_hashes \cup JobTxs(p))
                                       \ {r.deposit_tx_hash : r \in stale}
  BY <1>1, <1>2 DEF SavedRecords
<1>4. /\ \A r \in kept : \E j \in jobs[p] : r = Record(j)
      /\ \A j \in jobs[p] : \E r \in kept : r.id = Record(j).id
  BY <1>2 DEF OnePerId
<1>5. \A j \in jobs[p] :
        /\ j \in Job /\ tx_of[j.transfer] \in TxHash
        /\ Record(j).deposit_tx_hash = tx_of[j.transfer]
        /\ Record(j).id = <<j.processed_at \div TicksPerDay, tx_prefix[tx_of[j.transfer]]>>
        /\ tx_of[j.transfer] \notin disk.processed_tx_hashes
  BY <1>1, LedgerAssumption DEF TypeOK, Job, Record, BankPayment, make_id, JobInv
<1>6. \A j, k \in jobs[p] : tx_of[j.transfer] = tx_of[k.transfer] => j = k
  BY DEF AuditInv
<1>7. \A r \in old : r.deposit_tx_hash \in disk.processed_tx_hashes
  BY DEF AuditInv, AuditMatchesDedup
<1>8. \A x \in disk.processed_tx_hashes : \E r \in old : r.deposit_tx_hash = x
  BY DEF AuditInv, AuditMatchesDedup
<1>9. \A j \in jobs[p] : Record(j) \in kept
  <2> TAKE j \in jobs[p]
  <2>1. PICK k \in jobs[p] : Record(k) \in kept /\ Record(k).id = Record(j).id
    BY <1>4
  <2>2. tx_prefix[tx_of[k.transfer]] = tx_prefix[tx_of[j.transfer]]
    BY <1>5, <2>1
  <2>3. tx_of[k.transfer] = tx_of[j.transfer]
    BY <1>5, <2>2 DEF UniquePrefixes
  <2> QED
    BY <1>6, <2>1, <2>3
<1>10. kept = {Record(j) : j \in jobs[p]}
  BY <1>4, <1>9
<1> DEFINE new == {Record(j) : j \in jobs[p]}
<1>11. \A r, q \in old \cup new : r.deposit_tx_hash = q.deposit_tx_hash => r = q
  <2>1. \A r \in new : r.deposit_tx_hash \notin disk.processed_tx_hashes
    BY <1>5
  <2>2. \A r, q \in new : r.deposit_tx_hash = q.deposit_tx_hash => r = q
    BY <1>5, <1>6
  <2>3. \A r, q \in old : r.deposit_tx_hash = q.deposit_tx_hash => r = q
    BY DEF AuditInv
  <2> HIDE DEF old, new
  <2> QED
    BY <1>7, <2>1, <2>2, <2>3
<1>12. merged \subseteq old \cup new
  BY <1>10
<1>13. \A x \in disk.processed_tx_hashes \cup JobTxs(p) :
         \E r \in merged : r.deposit_tx_hash = x
  <2>1. \A j \in jobs[p] : Record(j) \in merged
    BY <1>9
  <2>2. \A x \in JobTxs(p) : \E r \in merged : r.deposit_tx_hash = x
    BY <1>5, <2>1 DEF JobTxs
  <2>3. ASSUME NEW r \in old PROVE r \in merged
    <3>1. ASSUME NEW j \in jobs[p], Record(j).id = r.id PROVE FALSE
      <4>1. r \in Payment /\ r.deposit_tx_hash \in TxHash
        BY DEF TypeOK, PersistedState, Payment
      <4>2. r.id[2] = tx_prefix[r.deposit_tx_hash]
        BY DEF AuditInv, make_id
      <4>3. r.deposit_tx_hash = tx_of[j.transfer]
        BY <1>5, <3>1, <4>1, <4>2 DEF UniquePrefixes
      <4> QED
        BY <1>5, <1>7, <4>3
    <3> QED
      BY <1>10, <3>1
  <2> QED
    BY <1>8, <2>2, <2>3
<1>14. \A r \in merged : r.deposit_tx_hash \in disk.processed_tx_hashes \cup JobTxs(p)
  BY <1>5, <1>7, <1>12 DEF JobTxs
<1>15. \A r \in merged : r.id = make_id(r.processed_at, r.deposit_tx_hash)
  <2>1. \A j \in jobs[p] :
          Record(j).id = make_id(Record(j).processed_at, Record(j).deposit_tx_hash)
    BY DEF Record, BankPayment
  <2> QED
    BY <1>12, <2>1 DEF AuditInv
<1> HIDE DEF old, new, merged
<1>16. {r.deposit_tx_hash : r \in disk'.bank_payments} = disk'.processed_tx_hashes
  BY <1>3, <1>11, <1>12, <1>13, <1>14
<1> QED
  BY <1>3, <1>11, <1>12, <1>15, <1>16 DEF AuditMatchesDedup

\* One record to a hash, for transactions told apart by their prefix that pay
\* one entry each.
THEOREM AuditCorrect ==
  ASSUME UniquePrefixes, OneEntryPerTx
  PROVE  Spec => []AuditInv
<1>1. Init => AuditInv
  BY DEF Init, AuditInv, AuditMatchesDedup, DefaultState
<1>2. TypeOK /\ LockInv /\ FinalityInv /\ JobInv /\ AuditInv /\ [Next]_vars => AuditInv'
  <2> SUFFICES ASSUME TypeOK, LockInv, FinalityInv, JobInv, AuditInv, [Next]_vars
               PROVE  AuditInv'
    OBVIOUS
  <2>1. ASSUME disk' = disk,
               \A q \in Proc : \A j, k \in jobs'[q] :
                 tx_of[j.transfer] = tx_of[k.transfer] => j = k
        PROVE  AuditInv'
    BY <2>1 DEF AuditInv, AuditMatchesDedup
  <2>2. ASSUME NEW p \in Proc, Liquidate(p) PROVE AuditInv'
    <3>1. disk' = disk
      BY <2>2, LiquidateEffect
    <3>2. PICK j \in jobs[p], s \in JobState : MoveJob(p, j, s)
      BY <2>2, LiquidateEffect DEF JobState
    <3> DEFINE moved == [j EXCEPT !.state = s]
    <3>3. /\ \A q \in Proc \ {p} : jobs'[q] = jobs[q]
          /\ \A k \in jobs'[p] :
               k \in jobs[p] \ {j} \/ (k.transfer = j.transfer /\ k = moved)
      <4>1. \A q \in Proc \ {p} : jobs'[q] = jobs[q]
        BY <3>2, MoveJobEffect
      <4>2. \A k \in jobs'[p] :
              k \in jobs[p] \ {j} \/ (k.transfer = j.transfer /\ k = moved)
        <5>1. jobs'[p] = (jobs[p] \ {j}) \cup {moved}
          BY <3>2 DEF MoveJob, TypeOK
        <5>2. moved.transfer = j.transfer
          BY DEF TypeOK, Job
        <5> HIDE DEF moved
        <5>3. \A k \in jobs'[p] : k \in jobs[p] \ {j} \/ k = moved
          BY <5>1
        <5> QED
          BY <5>2, <5>3
      <4> QED
        BY <4>1, <4>2
    <3> HIDE DEF moved
    <3>4. \A i, k \in jobs'[p] : tx_of[i.transfer] = tx_of[k.transfer] => i = k
      BY <3>3 DEF AuditInv
    <3> QED
      BY <2>1, <3>1, <3>3, <3>4 DEF AuditInv
  <2>3. ASSUME NEW p \in Proc, NEW c \in Chain, NEW e \in Entry,
               address_scan(p, c, e)
        PROVE  AuditInv'
    <3>1. disk' = disk /\ e \notin fetched[p][c]
      BY <2>3 DEF address_scan, ScanTo, Scanning
    <3>2. PICK b \in Nat, picked \in SUBSET Transfer :
            \E s \in Since(p, c) : ScanResult(p, c, e, s, b, picked)
      BY <2>3, ScanEffect
    <3>3. /\ jobs'[p] = jobs[p] \cup {NewJob(e, t) : t \in picked}
          /\ \A q \in Proc \ {p} : jobs'[q] = jobs[q]
      BY <3>2 DEF ScanResult, TypeOK
    <3>4. \A t \in picked : NewJob(e, t).transfer = t
      BY DEF NewJob
    <3>5. \A t \in picked :
            /\ recipient[t] = entry_address[e] /\ chain_of[tx_of[t]] = c
            /\ \A u \in picked : tx_of[t] = tx_of[u] => t = u
      BY <3>2 DEF ScanResult
    <3>6. \A j \in jobs[p] : j.entry \in Entry /\ j.transfer \in Transfer
      BY DEF TypeOK, Job
    <3>7. \A j \in jobs[p], t \in picked : tx_of[j.transfer] # tx_of[t]
      <4> SUFFICES ASSUME NEW j \in jobs[p], NEW t \in picked,
                          tx_of[j.transfer] = tx_of[t]
                   PROVE  FALSE
        OBVIOUS
      <4>1. /\ recipient[j.transfer] = entry_address[j.entry]
            /\ j.entry \in fetched[p][c]
        BY <3>5 DEF JobInv
      <4>2. j.entry = e
        BY <3>5, <3>6, <4>1 DEF OneEntryPerTx
      <4> QED
        BY <3>1, <4>1, <4>2
    <3>8. \A j, k \in jobs'[p] : tx_of[j.transfer] = tx_of[k.transfer] => j = k
      BY <3>3, <3>4, <3>5, <3>7 DEF AuditInv
    <3> QED
      BY <2>1, <3>1, <3>3, <3>8 DEF AuditInv
  <2>4. ASSUME NEW p \in Proc, save_state(p) PROVE AuditInv'
    <3>1. jobs' = jobs
      BY <2>4 DEF save_state, passVars
    <3> QED
      BY <2>4, <3>1, SaveKeepsAudit DEF AuditInv
  <2>5. CASE /\ \A p \in Proc : ~ Liquidate(p) /\ ~ save_state(p)
             /\ \A p \in Proc, c \in Chain, e \in Entry : ~ address_scan(p, c, e)
    <3>1. disk' = disk /\ \A q \in Proc : jobs'[q] \subseteq jobs[q]
      BY <2>5, RestEffect
    <3> QED
      BY <2>1, <3>1 DEF AuditInv
  <2> QED
    BY <2>2, <2>3, <2>4, <2>5
<1> QED
  BY <1>1, <1>2, TypeCorrect, LockCorrect, FinalityCorrect, JobsCorrect, PTL DEF Spec

\* The hashes of the audit records are the hashes of the dedup set.
THEOREM AuditMatchesDedupHolds ==
  ASSUME UniquePrefixes, OneEntryPerTx
  PROVE  Spec => []AuditMatchesDedup
<1>1. AuditInv => AuditMatchesDedup
  BY DEF AuditInv
<1> QED
  BY <1>1, AuditCorrect, PTL

\* The conjunction of the layers, with the two conditional ones.
THEOREM IndInvHolds == Spec => []IndInv
<1>1. Spec => [](DistinctEntries => SaleInv)
  <2>1. CASE DistinctEntries
    <3>1. SaleInv => (DistinctEntries => SaleInv)
      OBVIOUS
    <3> QED
      BY <2>1, <3>1, SalesCorrect, PTL
  <2>2. CASE ~ DistinctEntries
    <3>1. TypeOK => (DistinctEntries => SaleInv)
      BY <2>2
    <3> QED
      BY <3>1, TypeCorrect, PTL
  <2> QED
    BY <2>1, <2>2
<1>2. Spec => [](UniquePrefixes /\ OneEntryPerTx => AuditInv)
  <2>1. CASE UniquePrefixes /\ OneEntryPerTx
    <3>1. AuditInv => (UniquePrefixes /\ OneEntryPerTx => AuditInv)
      OBVIOUS
    <3> QED
      BY <2>1, <3>1, AuditCorrect, PTL
  <2>2. CASE ~ (UniquePrefixes /\ OneEntryPerTx)
    <3>1. TypeOK => (UniquePrefixes /\ OneEntryPerTx => AuditInv)
      BY <2>2
    <3> QED
      BY <3>1, TypeCorrect, PTL
  <2> QED
    BY <2>1, <2>2
<1>3. /\ TypeOK /\ LockInv /\ FinalityInv /\ CoverInv /\ JobInv /\ PaidInv
      /\ (DistinctEntries => SaleInv)
      /\ (UniquePrefixes /\ OneEntryPerTx => AuditInv)
      => IndInv
  BY DEF IndInv
<1> QED
  BY <1>1, <1>2, <1>3, TypeCorrect, LockCorrect, FinalityCorrect, CoverCorrect,
     JobsCorrect, PaidCorrect, PTL

=============================================================================

--------------------------- MODULE DepositCheckProofs ---------------------------
(***************************************************************************)
(* The safety properties of DepositCheck, for every configuration, ledger, *)
(* channel capacity and number of jobs: the sum of the scans, the deposits *)
(* on their way through the worker, and what a merged pass leaves behind.  *)
(***************************************************************************)
EXTENDS DepositCheck, ChainResultProofs

-----------------------------------------------------------------------------
(* The results of the scans.                                               *)

\* A frontier is no further than the fetch got, and at most the confirmation
\* floor.
LEMMA ScanFrontierBound ==
  ASSUME NEW c \in Chain, NEW f \in Nat, NEW h \in Nat
  PROVE  LET b == ScanFrontier(f, h, c) IN
         /\ b \in Nat /\ b <= f
         /\ b = 0 \/ b + confirmation_blocks_for(c) <= h
<1>1. confirmation_blocks_for(c) \in Nat
  BY ConfigAssumption DEF confirmation_blocks_for
<1> QED
  BY <1>1 DEF ScanFrontier, SaturatingSub

\* What the result of one scan holds.
LEMMA ScanOutcomeType ==
  ASSUME TypeOK, NEW c \in Chain, NEW e \in Entry
  PROVE  /\ ScanOutcome(c, e).processed_tx_hashes
              = IF scanAt[<<c, e>>] = "done" THEN scan_dedup[<<c, e>>] ELSE {}
         /\ ScanOutcome(c, e).confirmed_frontier
              = IF scanAt[<<c, e>>] = "done"
                THEN {ScanFrontier(fetch_frontier[<<c, e>>], current_block[c], c)}
                ELSE {}
         /\ ScanOutcome(c, e).confirmed_frontier \in SUBSET (0 .. MaxHeight)
<1>1. /\ fetch_frontier[<<c, e>>] \in 0 .. MaxHeight
      /\ current_block[c] \in 0 .. MaxHeight
  BY DEF TypeOK, Scan
<1>2. ScanFrontier(fetch_frontier[<<c, e>>], current_block[c], c) \in 0 .. MaxHeight
  BY <1>1, ScanFrontierBound, PassAssumption
<1> QED
  BY <1>2 DEF ScanOutcome, ChainResultOf

\* The sum of the scans of a chain: all their hashes, and the frontier that
\* Sweep saves. U64Max, the identity of the minimum, is not among it.
LEMMA ChainOutcomeSum ==
  ASSUME TypeOK, NEW c \in Chain
  PROVE  /\ ChainOutcome(c).processed_tx_hashes
              = UNION {ScanOutcome(c, e).processed_tx_hashes : e \in Entry}
         /\ latest_seen_block(ChainOutcome(c))
              = SumFrontier([e \in Entry |-> ScanOutcome(c, e).confirmed_frontier])
<1> DEFINE r == [e \in Entry |-> ScanOutcome(c, e)]
           f == [e \in Entry |-> ScanOutcome(c, e).confirmed_frontier]
           all == UNION {f[e] : e \in Entry}
<1>1. \A e \in Entry : f[e] \in SUBSET (0 .. MaxHeight)
  BY ScanOutcomeType
<1>2. \A e \in Entry : r[e].confirmed_frontier = f[e]
  OBVIOUS
<1>3. \A e \in Entry : r[e].confirmed_frontier \in SUBSET Nat
  BY <1>1
<1>4. ChainOutcome(c) = Closed(r, Entry)
  <2>1. DOMAIN r = Entry
    OBVIOUS
  <2> HIDE DEF r
  <2>2. Sum(r) = Closed(r, Entry)
    BY <1>3, <2>1, SumIsClosed, PassAssumption
  <2> QED
    BY <2>2 DEF ChainOutcome, r
<1>5. Reported(r, Entry) = all \cup {U64Max}
  BY <1>2 DEF Reported
<1>6. /\ Closed(r, Entry).processed_tx_hashes
           = UNION {r[e].processed_tx_hashes : e \in Entry}
      /\ Closed(r, Entry).confirmed_frontier
           = {x \in Reported(r, Entry) : /\ \A e \in Entry : r[e].confirmed_frontier # {}
                                         /\ \A y \in Reported(r, Entry) : x <= y}
  BY DEF Closed, ChainResultOf
<1>7. UNION {r[e].processed_tx_hashes : e \in Entry}
        = UNION {ScanOutcome(c, e).processed_tx_hashes : e \in Entry}
  OBVIOUS
<1>8. all \subseteq 0 .. MaxHeight
  BY <1>1
<1>9. MaxHeight \in Nat /\ U64Max \in Nat /\ MaxHeight < U64Max
  BY PassAssumption, U64Assumption
<1>10. (\A e \in Entry : f[e] # {}) => all # {}
  BY ConfigAssumption
<1>11. latest_seen_block(ChainOutcome(c))
         = {x \in all \cup {U64Max} : /\ \A e \in Entry : f[e] # {}
                                      /\ \A y \in all \cup {U64Max} : x <= y} \ {U64Max}
  BY <1>2, <1>4, <1>5, <1>6 DEF latest_seen_block
<1>12. SumFrontier(f) = {x \in all : /\ \A e \in Entry : f[e] # {}
                                     /\ \A y \in all : x <= y}
  BY DEF SumFrontier
<1> HIDE DEF all, f, r
<1>13. latest_seen_block(ChainOutcome(c)) = SumFrontier(f)
  <2>1. \A x \in all : x <= U64Max /\ x # U64Max
    BY <1>8, <1>9
  <2> QED
    BY <1>11, <1>12, <2>1
<1> QED
  BY <1>4, <1>6, <1>7, <1>13 DEF f

\* What a merge puts into the state.
LEMMA MergeEffect ==
  ASSUME TypeOK, Merge
  PROVE  /\ processed_tx_hashes' \subseteq TxHash
         /\ processed_tx_hashes \subseteq processed_tx_hashes'
         /\ \A s \in Scan : scanAt[s] = "done" => scan_dedup[s] \subseteq processed_tx_hashes'
         /\ {tx_of[d[2]] : d \in results} \subseteq processed_tx_hashes'
         /\ last_seen_block' \in [Chain -> SUBSET (0 .. MaxHeight)]
         /\ \A c \in Chain : \A b \in last_seen_block'[c] :
              \/ b \in last_seen_block[c]
              \/ \A e \in Entry :
                   /\ scanAt[<<c, e>>] = "done"
                   /\ b <= ScanFrontier(fetch_frontier[<<c, e>>], current_block[c], c)
<1> DEFINE seen(c) == latest_seen_block(ChainOutcome(c))
           merged == UNION {ChainOutcome(c).processed_tx_hashes : c \in Chain}
<1>1. /\ last_seen_block' = [c \in Chain |->
            IF seen(c) # {} THEN seen(c) ELSE last_seen_block[c]]
      /\ processed_tx_hashes' = processed_tx_hashes \cup merged
                                  \cup {tx_of[d[2]] : d \in results}
  BY DEF Merge
<1>2. \A c \in Chain, e \in Entry : <<c, e>> \in Scan
  BY DEF Scan
<1>3. merged \subseteq TxHash
  <2> SUFFICES ASSUME NEW c \in Chain
               PROVE  ChainOutcome(c).processed_tx_hashes \subseteq TxHash
    OBVIOUS
  <2>1. \A e \in Entry : ScanOutcome(c, e).processed_tx_hashes \subseteq TxHash
    BY <1>2, ScanOutcomeType DEF TypeOK
  <2>2. ChainOutcome(c).processed_tx_hashes
          = UNION {ScanOutcome(c, e).processed_tx_hashes : e \in Entry}
    BY ChainOutcomeSum
  <2> QED
    BY <2>1, <2>2
<1>4. \A d \in results : tx_of[d[2]] \in TxHash
  BY LedgerAssumption DEF TypeOK, Deposit
<1>5. ASSUME NEW s \in Scan, scanAt[s] = "done"
      PROVE  scan_dedup[s] \subseteq merged
  <2>1. PICK c \in Chain, e \in Entry : s = <<c, e>>
    BY DEF Scan
  <2>2. ScanOutcome(c, e).processed_tx_hashes = scan_dedup[s]
    BY <1>5, <2>1, ScanOutcomeType
  <2>3. scan_dedup[s] \subseteq ChainOutcome(c).processed_tx_hashes
    BY <2>2, ChainOutcomeSum
  <2> QED
    BY <2>3
<1>6. ASSUME NEW c \in Chain, NEW b \in seen(c)
      PROVE  /\ b \in 0 .. MaxHeight
             /\ \A e \in Entry :
                  /\ scanAt[<<c, e>>] = "done"
                  /\ b <= ScanFrontier(fetch_frontier[<<c, e>>], current_block[c], c)
  <2> DEFINE f == [e \in Entry |-> ScanOutcome(c, e).confirmed_frontier]
             all == UNION {f[e] : e \in Entry}
  <2>1. b \in SumFrontier(f)
    BY <1>6, ChainOutcomeSum
  <2>2. b \in all /\ (\A e \in Entry : f[e] # {}) /\ \A y \in all : b <= y
    BY <2>1 DEF SumFrontier
  <2>3. \A e \in Entry : f[e] \subseteq 0 .. MaxHeight
    BY ScanOutcomeType
  <2>4. ASSUME NEW e \in Entry
        PROVE  /\ scanAt[<<c, e>>] = "done"
               /\ b <= ScanFrontier(fetch_frontier[<<c, e>>], current_block[c], c)
    <3>1. scanAt[<<c, e>>] = "done"
          /\ f[e] = {ScanFrontier(fetch_frontier[<<c, e>>], current_block[c], c)}
      BY <2>2, ScanOutcomeType
    <3> QED
      BY <2>2, <3>1
  <2> QED
    BY <2>2, <2>3, <2>4
<1> HIDE DEF seen, merged
<1>7. last_seen_block' \in [Chain -> SUBSET (0 .. MaxHeight)]
  BY <1>1, <1>6 DEF TypeOK
<1>8. \A c \in Chain : \A b \in last_seen_block'[c] : b \in last_seen_block[c] \/ b \in seen(c)
  BY <1>1
<1>9. \A c \in Chain : \A b \in last_seen_block'[c] :
        \/ b \in last_seen_block[c]
        \/ \A e \in Entry :
             /\ scanAt[<<c, e>>] = "done"
             /\ b <= ScanFrontier(fetch_frontier[<<c, e>>], current_block[c], c)
  BY <1>6, <1>8
<1>10. processed_tx_hashes' \subseteq TxHash
  BY <1>1, <1>3, <1>4 DEF TypeOK
<1> QED
  BY <1>1, <1>5, <1>7, <1>9, <1>10

-----------------------------------------------------------------------------
(* Types and sums.                                                         *)

\* Every step keeps the types: the channel stays within its capacity, and no
\* frontier beyond the heights of the nodes is ever persisted.
THEOREM TypeCorrect == Spec => []TypeOK
<1> USE DEF stateVars, scanVars, chainVars, channelVars
<1>1. Init => TypeOK
  BY PassAssumption DEF Init, TypeOK, Age
<1>2. TypeOK /\ [Next]_vars => TypeOK'
  <2> SUFFICES ASSUME TypeOK, [Next]_vars PROVE TypeOK'
    OBVIOUS
  <2>1. CASE StartDiscovery
    BY <2>1 DEF TypeOK, StartDiscovery, DropOriginal
  <2>2. CASE Tick
    <3>1. \A c \in Chain : (IF updated_age[c] > CHAIN_STALE_THRESHOLD
                            THEN updated_age[c] ELSE updated_age[c] + 1) \in Age
      BY PassAssumption DEF TypeOK, Age
    <3>2. updated_age' \in [Chain -> Age]
      BY <2>2, <3>1 DEF Tick
    <3> QED
      BY <2>2, <3>2 DEF TypeOK, Tick
  <2>3. CASE NextPass
    BY <2>3, PassAssumption DEF TypeOK, NextPass, FreshPass
  <2>4. CASE Receive
    <3>1. channel # <<>> /\ channel \in Seq(Deposit)
      BY <2>4 DEF Receive, TypeOK
    <3>2. /\ Head(channel) \in Deposit /\ Tail(channel) \in Seq(Deposit)
          /\ Len(Tail(channel)) <= Len(channel)
      BY <3>1
    <3>3. Len(Tail(channel)) <= CHANNEL_CAPACITY
      BY <3>1, <3>2, PassAssumption DEF TypeOK
    <3> QED
      BY <2>4, <3>2, <3>3 DEF TypeOK, Receive, Taken
  <2>5. ASSUME NEW d \in Deposit, liquidate_one(d) PROVE TypeOK'
    BY <2>5 DEF TypeOK, liquidate_one
  <2>6. ASSUME NEW c \in Chain, ChainStep(c) PROVE TypeOK'
    <3>1. CASE HeightFails(c)
      BY <3>1 DEF TypeOK, HeightFails, Escalate, Return
    <3>2. CASE SkipChain(c) \/ EndChain(c)
      BY <3>2 DEF TypeOK, SkipChain, EndChain, Return
    <3>3. ASSUME NEW b \in 0 .. MaxHeight, get_block_height(c, b) PROVE TypeOK'
      BY <3>3 DEF TypeOK, get_block_height
    <3> QED
      BY <2>6, <3>1, <3>2, <3>3 DEF ChainStep
  <2>7. ASSUME NEW c \in Chain, NEW e \in Entry, ScanStep(c, e) PROVE TypeOK'
    <3>1. <<c, e>> \in Scan
      BY DEF Scan
    <3>2. ASSUME NEW f \in 0 .. MaxHeight, FetchOk(c, e, f) PROVE TypeOK'
      <4>1. PICK R \in SUBSET Transfer : receives' = [receives EXCEPT ![<<c, e>>] = R]
        BY <3>2 DEF FetchOk
      <4> QED
        BY <3>1, <3>2, <4>1 DEF TypeOK, FetchOk
    <3>3. CASE FetchFails(c, e)
      BY <3>1, <3>3 DEF TypeOK, FetchFails, Escalate
    <3>4. CASE EndScan(c, e)
      BY <3>1, <3>4 DEF TypeOK, EndScan
    <3>5. ASSUME NEW t \in Transfer, SkipReceive(c, e, t) PROVE TypeOK'
      BY <3>1, <3>5 DEF TypeOK, SkipReceive
    <3>6. ASSUME NEW t \in Transfer, Send(c, e, t) PROVE TypeOK'
      <4>1. <<e, t>> \in Deposit /\ tx_of[t] \in TxHash
        BY LedgerAssumption DEF Deposit
      <4>2. channel' \in Seq(Deposit) /\ Len(channel') = Len(channel) + 1
        BY <3>6, <4>1 DEF Send, TypeOK
      <4>3. Len(channel') <= CHANNEL_CAPACITY
        BY <3>6, <4>2, PassAssumption DEF Send, RoomInChannel, TypeOK
      <4> QED
        BY <3>1, <3>6, <4>1, <4>2, <4>3 DEF TypeOK, Send
    <3> QED
      BY <2>7, <3>2, <3>3, <3>4, <3>5, <3>6 DEF ScanStep
  <2>8. CASE Merge
    <3>1. processed_tx_hashes' \subseteq TxHash
          /\ last_seen_block' \in [Chain -> SUBSET (0 .. MaxHeight)]
      BY <2>8, MergeEffect
    <3>2. updated_age' \in [Chain -> Age]
      <4>1. 0 \in Age
        BY PassAssumption DEF Age
      <4> QED
        BY <2>8, <4>1 DEF Merge, TypeOK
    <3>3. reported' \subseteq Chain
      <4>1. \A f \in errors : f[1] \in Chain
        BY DEF TypeOK, Scan
      <4> QED
        BY <2>8, <4>1 DEF Merge
    <3> QED
      BY <2>8, <3>1, <3>2, <3>3 DEF TypeOK, Merge
  <2>9. CASE UNCHANGED vars
    BY <2>9 DEF TypeOK, vars
  <2> QED
    BY <2>1, <2>2, <2>3, <2>4, <2>5, <2>6, <2>7, <2>8, <2>9 DEF Next
<1> QED
  BY <1>1, <1>2, PTL DEF Spec

\* The sum of a chain's scans, folded by Add from EMPTY, is the closed form
\* that Sweep saves.
THEOREM SumAgreesHolds == Spec => []SumAgrees
<1>1. TypeOK => SumAgrees
  BY ChainOutcomeSum DEF SumAgrees
<1> QED
  BY <1>1, TypeCorrect, PTL

-----------------------------------------------------------------------------
(* The worker: every deposit in one place.                                 *)

\* The deposit of a transfer for an entry was sent by the scan of its chain and
\* entry, which keeps its hash; and a scan keeps no other hashes. What a scan
\* has still to judge is its own.
SendInv ==
  /\ \A d \in sent : tx_of[d[2]] \in scan_dedup[<<chain_of[tx_of[d[2]]], d[1]>>]
  /\ \A s \in Scan : \A x \in scan_dedup[s] :
       \E d \in sent : tx_of[d[2]] = x
  /\ \A c \in Chain, e \in Entry : \A t \in receives[<<c, e>>] :
       chain_of[tx_of[t]] = c /\ recipient[t] = entry_address[e]

\* The places of a deposit on its way through the worker do not overlap, and
\* the channel has it once.
WorkInv ==
  /\ IsFiniteSet(sent)
  /\ sent = ChannelSet \cup in_flight \cup results
  /\ \A i, j \in 1 .. Len(channel) : channel[i] = channel[j] => i = j
  /\ ChannelSet \cap in_flight = {}
  /\ ChannelSet \cap results = {}
  /\ in_flight \cap results = {}

\* A pass that ended has drained the worker, and the state has its hashes.
EndInv ==
  pass = "ended" =>
    /\ channel = <<>> /\ in_flight = {}
    /\ {tx_of[d[2]] : d \in sent} \subseteq processed_tx_hashes

\* A hash that a scan sent is one of a deposit it sent.
THEOREM SendCorrect == Spec => []SendInv
<1> USE DEF stateVars, scanVars, chainVars, channelVars
<1>1. Init => SendInv
  BY DEF Init, SendInv, Scan
<1>2. TypeOK /\ SendInv /\ [Next]_vars => SendInv'
  <2> SUFFICES ASSUME TypeOK, SendInv, [Next]_vars PROVE SendInv'
    OBVIOUS
  <2>1. ASSUME UNCHANGED <<sent, scan_dedup, receives>> PROVE SendInv'
    BY <2>1 DEF SendInv
  <2>2. CASE StartDiscovery \/ Tick \/ Receive \/ Merge \/ UNCHANGED vars
    BY <2>1, <2>2 DEF StartDiscovery, Tick, Receive, Merge, vars
  <2>3. CASE NextPass
    BY <2>3 DEF NextPass, FreshPass, SendInv, Scan
  <2>4. ASSUME NEW d \in Deposit, liquidate_one(d) PROVE SendInv'
    BY <2>1, <2>4 DEF liquidate_one
  <2>5. ASSUME NEW c \in Chain, ChainStep(c) PROVE SendInv'
    BY <2>1, <2>5 DEF ChainStep, HeightFails, SkipChain, EndChain, get_block_height
  <2>6. ASSUME NEW c \in Chain, NEW e \in Entry, ScanStep(c, e) PROVE SendInv'
    <3>1. <<c, e>> \in Scan /\ \A d \in Chain, g \in Entry : <<d, g>> \in Scan
      BY DEF Scan
    <3>2. ASSUME NEW f \in 0 .. MaxHeight, FetchOk(c, e, f) PROVE SendInv'
      <4>1. UNCHANGED <<sent, scan_dedup>>
        BY <3>2 DEF FetchOk
      <4>2. /\ \A t \in receives'[<<c, e>>] :
                 chain_of[tx_of[t]] = c /\ recipient[t] = entry_address[e]
            /\ \A s \in Scan \ {<<c, e>>} : receives'[s] = receives[s]
        BY <3>1, <3>2 DEF FetchOk, TypeOK
      <4>3. \A d \in Chain, g \in Entry : \A t \in receives'[<<d, g>>] :
              chain_of[tx_of[t]] = d /\ recipient[t] = entry_address[g]
        <5> TAKE d \in Chain, g \in Entry
        <5>1. CASE <<d, g>> = <<c, e>>
          BY <4>2, <5>1
        <5>2. CASE <<d, g>> # <<c, e>>
          BY <3>1, <4>2, <5>2 DEF SendInv
        <5> QED
          BY <5>1, <5>2
      <4> QED
        BY <4>1, <4>3 DEF SendInv
    <3>3. CASE FetchFails(c, e) \/ EndScan(c, e)
      BY <2>1, <3>3 DEF FetchFails, EndScan
    <3>4. ASSUME NEW t \in Transfer,
                 receives' = [receives EXCEPT ![<<c, e>>] = @ \ {t}]
          PROVE  \A d \in Chain, g \in Entry : \A u \in receives'[<<d, g>>] :
                   chain_of[tx_of[u]] = d /\ recipient[u] = entry_address[g]
      <4>1. \A s \in Scan : receives'[s] \subseteq receives[s]
        BY <3>1, <3>4 DEF TypeOK
      <4> QED
        BY <3>1, <4>1 DEF SendInv
    <3>5. ASSUME NEW t \in Transfer, SkipReceive(c, e, t) PROVE SendInv'
      BY <3>4, <3>5 DEF SkipReceive, SendInv
    <3>6. ASSUME NEW t \in Transfer, Send(c, e, t) PROVE SendInv'
      <4>1. /\ sent' = sent \cup {<<e, t>>}
            /\ scan_dedup' = [scan_dedup EXCEPT ![<<c, e>>] = @ \cup {tx_of[t]}]
            /\ chain_of[tx_of[t]] = c
        BY <3>6 DEF Send, SendInv
      <4>2. /\ \A s \in Scan : scan_dedup[s] \subseteq scan_dedup'[s]
            /\ tx_of[t] \in scan_dedup'[<<c, e>>]
            /\ \A s \in Scan : \A x \in scan_dedup'[s] : x \in scan_dedup[s] \/ x = tx_of[t]
        BY <3>1, <4>1 DEF TypeOK
      <4>3. \A d \in sent : <<chain_of[tx_of[d[2]]], d[1]>> \in Scan
        BY LedgerAssumption DEF TypeOK, Deposit, Scan
      <4>4. \A d \in sent' : tx_of[d[2]] \in scan_dedup'[<<chain_of[tx_of[d[2]]], d[1]>>]
        BY <4>1, <4>2, <4>3 DEF SendInv
      <4>5. \A s \in Scan : \A x \in scan_dedup'[s] : \E d \in sent' : tx_of[d[2]] = x
        <5>1. <<e, t>> \in sent' /\ <<e, t>>[2] = t /\ sent \subseteq sent'
          BY <4>1
        <5> QED
          BY <4>2, <5>1 DEF SendInv
      <4>6. receives' = [receives EXCEPT ![<<c, e>>] = @ \ {t}]
        BY <3>6 DEF Send
      <4> QED
        BY <3>4, <4>4, <4>5, <4>6 DEF SendInv
    <3> QED
      BY <2>6, <3>2, <3>3, <3>5, <3>6 DEF ScanStep
  <2> QED
    BY <2>2, <2>3, <2>4, <2>5, <2>6 DEF Next
<1> QED
  BY <1>1, <1>2, TypeCorrect, PTL DEF Spec

\* A deposit added at the end of a queue that does not have it.
LEMMA AppendOnce ==
  ASSUME NEW S, NEW q \in Seq(S), NEW d \in S,
         \A i, j \in 1 .. Len(q) : q[i] = q[j] => i = j,
         d \notin {q[i] : i \in 1 .. Len(q)}
  PROVE  LET r == Append(q, d) IN
         /\ {r[i] : i \in 1 .. Len(r)} = {q[i] : i \in 1 .. Len(q)} \cup {d}
         /\ \A i, j \in 1 .. Len(r) : r[i] = r[j] => i = j
<1> DEFINE r == Append(q, d)
<1>1. /\ Len(r) = Len(q) + 1 /\ Len(q) \in Nat /\ r[Len(q) + 1] = d
      /\ \A i \in 1 .. Len(q) : r[i] = q[i]
  OBVIOUS
<1>2. \A i \in 1 .. Len(r) : i \in 1 .. Len(q) \/ i = Len(q) + 1
  BY <1>1
<1> HIDE DEF r
<1>3. {r[i] : i \in 1 .. Len(r)} = {q[i] : i \in 1 .. Len(q)} \cup {d}
  <2>1. Len(q) + 1 \in 1 .. Len(r) /\ \A i \in 1 .. Len(q) : i \in 1 .. Len(r)
    BY <1>1
  <2> QED
    BY <1>1, <1>2, <2>1
<1>4. \A i, j \in 1 .. Len(r) : r[i] = r[j] => i = j
  BY <1>1, <1>2
<1> QED
  BY <1>3, <1>4 DEF r

\* The head taken off a queue that has it once.
LEMMA TakeOnce ==
  ASSUME NEW S, NEW q \in Seq(S), q # <<>>,
         \A i, j \in 1 .. Len(q) : q[i] = q[j] => i = j
  PROVE  LET r == Tail(q) IN
         /\ {q[i] : i \in 1 .. Len(q)} = {r[i] : i \in 1 .. Len(r)} \cup {Head(q)}
         /\ Head(q) \notin {r[i] : i \in 1 .. Len(r)}
         /\ \A i, j \in 1 .. Len(r) : r[i] = r[j] => i = j
<1> DEFINE r == Tail(q)
<1>1. /\ Len(q) \in Nat \ {0} /\ Len(r) = Len(q) - 1 /\ Head(q) = q[1]
      /\ \A i \in 1 .. Len(r) : r[i] = q[i + 1]
  OBVIOUS
<1>2. \A i \in 1 .. Len(r) : i + 1 \in 1 .. Len(q) /\ i + 1 # 1
  BY <1>1
<1>3. \A i \in 1 .. Len(q) : i = 1 \/ (i - 1 \in 1 .. Len(r) /\ (i - 1) + 1 = i)
  BY <1>1
<1>4. 1 \in 1 .. Len(q)
  BY <1>1
<1> HIDE DEF r
<1>5. {q[i] : i \in 1 .. Len(q)} = {r[i] : i \in 1 .. Len(r)} \cup {Head(q)}
  <2>1. ASSUME NEW i \in 1 .. Len(q)
        PROVE  q[i] \in {r[j] : j \in 1 .. Len(r)} \cup {Head(q)}
    <3>1. CASE i = 1
      BY <1>1, <3>1
    <3>2. CASE i # 1
      <4>1. i - 1 \in 1 .. Len(r) /\ r[i - 1] = q[i]
        BY <1>1, <1>3, <3>2
      <4> QED
        BY <4>1
    <3> QED
      BY <3>1, <3>2
  <2>2. ASSUME NEW i \in 1 .. Len(r) PROVE r[i] \in {q[j] : j \in 1 .. Len(q)}
    BY <1>1, <1>2
  <2>3. Head(q) \in {q[j] : j \in 1 .. Len(q)}
    BY <1>1, <1>4
  <2> QED
    BY <2>1, <2>2, <2>3
<1>6. Head(q) \notin {r[i] : i \in 1 .. Len(r)}
  BY <1>1, <1>2, <1>4
<1>7. \A i, j \in 1 .. Len(r) : r[i] = r[j] => i = j
  BY <1>1, <1>2
<1> QED
  BY <1>5, <1>6, <1>7 DEF r

\* No deposit is in two places on its way through the worker, or in none.
THEOREM WorkCorrect == Spec => []WorkInv
<1> USE DEF stateVars, scanVars, chainVars, channelVars
<1>1. Init => WorkInv
  <2> SUFFICES ASSUME Init PROVE WorkInv
    OBVIOUS
  <2>1. sent = {} /\ in_flight = {} /\ results = {} /\ channel = <<>>
    BY DEF Init
  <2> QED
    BY <2>1, FS_EmptySet DEF WorkInv, ChannelSet
<1>2. TypeOK /\ SendInv /\ WorkInv /\ [Next]_vars => WorkInv'
  <2> SUFFICES ASSUME TypeOK, SendInv, WorkInv, [Next]_vars PROVE WorkInv'
    OBVIOUS
  <2>1. ASSUME UNCHANGED <<sent, channel, in_flight, results>> PROVE WorkInv'
    BY <2>1 DEF WorkInv, ChannelSet
  <2>2. CASE StartDiscovery \/ Tick \/ Merge \/ UNCHANGED vars
    BY <2>1, <2>2 DEF StartDiscovery, Tick, Merge, vars
  <2>3. CASE NextPass
    <3>1. sent' = {} /\ in_flight' = {} /\ results' = {} /\ channel' = <<>>
      BY <2>3 DEF NextPass, FreshPass
    <3> QED
      BY <3>1, FS_EmptySet DEF WorkInv, ChannelSet
  <2>4. ASSUME NEW d \in Deposit, liquidate_one(d) PROVE WorkInv'
    <3>1. /\ in_flight' = in_flight \ {d} /\ results' = results \cup {d}
          /\ d \in in_flight /\ UNCHANGED <<sent, channel>>
      BY <2>4 DEF liquidate_one
    <3>2. ChannelSet' = ChannelSet
      BY <3>1 DEF ChannelSet
    <3> QED
      BY <3>1, <3>2 DEF WorkInv
  <2>5. CASE Receive
    <3> DEFINE h == Head(channel)
    <3>1. /\ in_flight' = in_flight \cup {h} /\ channel' = Tail(channel)
          /\ channel # <<>> /\ UNCHANGED <<sent, results>>
      BY <2>5 DEF Receive, Taken
    <3>2. /\ ChannelSet = ChannelSet' \cup {h} /\ h \notin ChannelSet'
          /\ \A i, j \in 1 .. Len(channel') : channel'[i] = channel'[j] => i = j
      <4>1. channel \in Seq(Deposit)
        BY DEF TypeOK
      <4>2. \A i, j \in 1 .. Len(channel) : channel[i] = channel[j] => i = j
        BY DEF WorkInv
      <4>3. LET r == Tail(channel) IN
            /\ ChannelSet = {r[i] : i \in 1 .. Len(r)} \cup {h}
            /\ h \notin {r[i] : i \in 1 .. Len(r)}
            /\ \A i, j \in 1 .. Len(r) : r[i] = r[j] => i = j
        BY <3>1, <4>1, <4>2, TakeOnce DEF ChannelSet
      <4> QED
        BY <3>1, <4>3 DEF ChannelSet
    <3> HIDE DEF h
    <3> QED
      BY <3>1, <3>2 DEF WorkInv
  <2>6. ASSUME NEW c \in Chain, ChainStep(c) PROVE WorkInv'
    BY <2>1, <2>6 DEF ChainStep, HeightFails, SkipChain, EndChain, get_block_height,
                      Return
  <2>7. ASSUME NEW c \in Chain, NEW e \in Entry, ScanStep(c, e) PROVE WorkInv'
    <3>1. ASSUME NEW t \in Transfer, Send(c, e, t) PROVE WorkInv'
      <4> DEFINE d == <<e, t>>
      <4>1. /\ channel' = Append(channel, d) /\ sent' = sent \cup {d}
            /\ UNCHANGED <<in_flight, results>>
            /\ t \in receives[<<c, e>>] /\ tx_of[t] \notin scan_dedup[<<c, e>>]
        BY <3>1 DEF Send, Unsent
      <4>2. d \in Deposit /\ d[1] = e /\ d[2] = t
        BY DEF Deposit
      <4>3. chain_of[tx_of[t]] = c
        BY <4>1 DEF SendInv
      <4>4. d \notin sent
        BY <4>1, <4>2, <4>3 DEF SendInv
      <4> HIDE DEF d
      <4>5. d \notin ChannelSet
        BY <4>4 DEF WorkInv
      <4>6. /\ ChannelSet' = ChannelSet \cup {d}
            /\ \A i, j \in 1 .. Len(channel') : channel'[i] = channel'[j] => i = j
        BY <4>1, <4>2, <4>5, AppendOnce DEF ChannelSet, WorkInv, TypeOK
      <4>7. IsFiniteSet(sent')
        BY <4>1, FS_AddElement DEF WorkInv
      <4> QED
        BY <4>1, <4>4, <4>6, <4>7 DEF WorkInv
    <3>2. CASE \/ \E f \in 0 .. MaxHeight : FetchOk(c, e, f)
               \/ FetchFails(c, e) \/ EndScan(c, e)
               \/ \E t \in Transfer : SkipReceive(c, e, t)
      BY <2>1, <3>2 DEF FetchOk, FetchFails, EndScan, SkipReceive
    <3> QED
      BY <2>7, <3>1, <3>2 DEF ScanStep
  <2> QED
    BY <2>2, <2>3, <2>4, <2>5, <2>6, <2>7 DEF Next
<1> QED
  BY <1>1, <1>2, TypeCorrect, SendCorrect, PTL DEF Spec

\* Every deposit sent in a pass is in exactly one place, once.
THEOREM SentAccountedHolds == Spec => []SentAccounted
<1>1. TypeOK /\ WorkInv => SentAccounted
  <2> SUFFICES ASSUME TypeOK, WorkInv PROVE SentAccounted
    OBVIOUS
  <2> DEFINE n == Len(channel)
  <2>1. IsFiniteSet(ChannelSet) /\ Cardinality(ChannelSet) = n
    <3>1. n \in Nat
      BY DEF TypeOK
    <3>2. IsFiniteSet(1 .. n) /\ Cardinality(1 .. n) = n
      BY <3>1, FS_Interval
    <3> DEFINE f == [i \in 1 .. n |-> channel[i]]
    <3>3. f \in Bijection(1 .. n, ChannelSet)
      <4>1. f \in [1 .. n -> ChannelSet]
        BY DEF ChannelSet
      <4>2. \A i, j \in 1 .. n : f[i] = f[j] => i = j
        BY DEF WorkInv
      <4>3. \A d \in ChannelSet : \E i \in 1 .. n : f[i] = d
        BY DEF ChannelSet
      <4> QED
        BY <4>1, <4>2, <4>3 DEF Bijection, Injection, Surjection, IsInjective
    <3>4. ExistsBijection(1 .. n, ChannelSet)
      BY <3>3 DEF ExistsBijection
    <3> QED
      BY <3>2, <3>4, FS_Bijection
  <2>2. IsFiniteSet(in_flight) /\ IsFiniteSet(results)
    BY FS_Subset DEF WorkInv
  <2>3. Cardinality({}) = 0
    BY FS_EmptySet
  <2>4. /\ Cardinality(ChannelSet) \in Nat /\ Cardinality(in_flight) \in Nat
        /\ Cardinality(results) \in Nat
    BY <2>1, <2>2, FS_CardinalityType
  <2> DEFINE A == ChannelSet \cup in_flight
  <2>5. IsFiniteSet(A) /\ Cardinality(A) = n + Cardinality(in_flight)
    <3>1. ChannelSet \cap in_flight = {}
      BY DEF WorkInv
    <3>2. IsFiniteSet(A) /\ Cardinality(A) = Cardinality(ChannelSet)
             + Cardinality(in_flight) - Cardinality(ChannelSet \cap in_flight)
      BY <2>1, <2>2, FS_Union
    <3>3. Cardinality(ChannelSet \cap in_flight) = 0
      BY <2>3, <3>1
    <3> QED
      BY <2>1, <2>4, <3>2, <3>3
  <2>6. A \cap results = {}
    BY DEF WorkInv
  <2> HIDE DEF A
  <2>7. Cardinality(A \cup results)
          = Cardinality(A) + Cardinality(results) - Cardinality(A \cap results)
    BY <2>2, <2>5, FS_Union
  <2>8. sent = A \cup results
    BY DEF WorkInv, A
  <2>9. Cardinality(sent) = n + Cardinality(in_flight) + Cardinality(results)
    <3>1. Cardinality(A \cap results) = 0
      BY <2>3, <2>6
    <3>2. n \in Nat
      BY DEF TypeOK
    <3> HIDE DEF n
    <3> QED
      BY <2>4, <2>5, <2>7, <2>8, <3>1, <3>2
  <2> QED
    BY <2>9 DEF SentAccounted, WorkInv
<1> QED
  BY <1>1, TypeCorrect, WorkCorrect, PTL

\* A pass that ended has drained the worker, and the state has its hashes.
THEOREM EndCorrect == Spec => []EndInv
<1> USE DEF stateVars, scanVars, chainVars, channelVars
<1>1. Init => EndInv
  BY DEF Init, EndInv
<1>2. TypeOK /\ WorkInv /\ EndInv /\ [Next]_vars => EndInv'
  <2> SUFFICES ASSUME TypeOK, WorkInv, EndInv, [Next]_vars PROVE EndInv'
    OBVIOUS
  <2>1. ASSUME pass' # "ended" PROVE EndInv'
    BY <2>1 DEF EndInv
  <2>2. CASE StartDiscovery \/ NextPass \/ Receive
    BY <2>1, <2>2 DEF StartDiscovery, NextPass, FreshPass, Receive
  <2>3. CASE Tick \/ UNCHANGED vars
    BY <2>3 DEF Tick, vars, EndInv
  <2>4. ASSUME NEW d \in Deposit, liquidate_one(d) PROVE EndInv'
    BY <2>4 DEF liquidate_one, EndInv
  <2>5. ASSUME NEW c \in Chain, ChainStep(c) PROVE EndInv'
    BY <2>1, <2>5 DEF ChainStep, HeightFails, SkipChain, EndChain, get_block_height
  <2>6. ASSUME NEW c \in Chain, NEW e \in Entry, ScanStep(c, e) PROVE EndInv'
    BY <2>1, <2>6 DEF ScanStep, FetchOk, FetchFails, EndScan, SkipReceive, Send,
                      Scanning
  <2>7. CASE Merge
    <3>1. /\ channel = <<>> /\ in_flight = {}
          /\ UNCHANGED <<channel, in_flight, sent>>
      BY <2>7 DEF Merge, WorkerDone
    <3>2. sent = results
      BY <3>1 DEF WorkInv, ChannelSet
    <3>3. {tx_of[d[2]] : d \in results} \subseteq processed_tx_hashes'
      BY <2>7, MergeEffect
    <3> QED
      BY <3>1, <3>2, <3>3 DEF EndInv
  <2> QED
    BY <2>2, <2>3, <2>4, <2>5, <2>6, <2>7 DEF Next
<1> QED
  BY <1>1, <1>2, TypeCorrect, WorkCorrect, PTL DEF Spec

\* A merged pass has a result for each hash its scans sent, and the state has
\* the hash.
THEOREM MergeCompleteHolds == Spec => []MergeComplete
<1>1. TypeOK /\ SendInv /\ WorkInv /\ EndInv => MergeComplete
  <2> SUFFICES ASSUME TypeOK, SendInv, WorkInv, EndInv, pass = "ended"
               PROVE  /\ UNION {scan_dedup[s] : s \in Scan} = {tx_of[d[2]] : d \in results}
                      /\ results = sent
                      /\ {tx_of[d[2]] : d \in sent} \subseteq processed_tx_hashes
    BY DEF MergeComplete
  <2>1. results = sent
    BY DEF EndInv, WorkInv, ChannelSet
  <2>2. \A d \in sent : <<chain_of[tx_of[d[2]]], d[1]>> \in Scan
    BY LedgerAssumption DEF TypeOK, Deposit, Scan
  <2>3. UNION {scan_dedup[s] : s \in Scan} = {tx_of[d[2]] : d \in sent}
    <3>1. ASSUME NEW s \in Scan, NEW x \in scan_dedup[s]
          PROVE  x \in {tx_of[d[2]] : d \in sent}
      <4>1. PICK d \in sent : tx_of[d[2]] = x
        BY DEF SendInv
      <4> QED
        BY <4>1
    <3>2. ASSUME NEW d \in sent PROVE \E s \in Scan : tx_of[d[2]] \in scan_dedup[s]
      BY <2>2 DEF SendInv
    <3> QED
      BY <3>1, <3>2
  <2> QED
    BY <2>1, <2>3 DEF EndInv
<1> QED
  BY <1>1, TypeCorrect, SendCorrect, WorkCorrect, EndCorrect, PTL

-----------------------------------------------------------------------------
(* What a merged pass leaves behind.                                       *)

\* A transfer is in the window of a scan that got to block f, and eligible but
\* for the dedup sets.
InWindow(c, e, t, since, f) ==
  /\ chain_of[tx_of[t]] = c
  /\ recipient[t] = entry_address[e]
  /\ block_of[tx_of[t]] \in since .. f
  /\ NotDust(t)
  /\ Confirmed(current_block[c], block_of[tx_of[t]], c)

\* A scan under way has everything of its window in one of three places: still
\* to be judged, known before, or sent. Before the height is known no scan has
\* begun, and one that is done has judged everything.
ScanInv(c, e) ==
  /\ chainAt[c] = "height" => scanAt[<<c, e>>] = "fetch"
  /\ scanAt[<<c, e>>] = "done" => receives[<<c, e>>] = {}
  /\ pass # "ended" /\ scanAt[<<c, e>>] \in {"send", "done"} =>
       \E since \in since_block(last_seen_block[c], c) :
         \A t \in Transfer :
           InWindow(c, e, t, since, fetch_frontier[<<c, e>>]) =>
             \/ t \in receives[<<c, e>>]
             \/ tx_of[t] \in processed_tx_hashes \cup scan_dedup[<<c, e>>]

WindowInv == \A c \in Chain, e \in Entry : ScanInv(c, e)

\* A scan keeps track of its whole window, in whatever order scans, sends and
\* jobs of the pass take their steps.
THEOREM WindowCorrect == Spec => []WindowInv
<1> USE DEF stateVars, scanVars, chainVars, channelVars
<1>1. Init => WindowInv
  <2> SUFFICES ASSUME Init, NEW c \in Chain, NEW e \in Entry PROVE ScanInv(c, e)
    BY DEF WindowInv
  <2>1. scanAt[<<c, e>>] = "fetch"
    BY DEF Init, Scan
  <2> QED
    BY <2>1 DEF ScanInv
<1>2. TypeOK /\ WindowInv /\ [Next]_vars => WindowInv'
  <2> SUFFICES ASSUME TypeOK, WindowInv, [Next]_vars PROVE WindowInv'
    OBVIOUS
  <2>0. \A d \in Chain, g \in Entry : <<d, g>> \in Scan
    BY DEF Scan
  <2>1. ASSUME NEW d \in Chain, NEW g \in Entry,
               pass' = "ended" \/ (pass # "ended"
                   /\ UNCHANGED <<processed_tx_hashes, last_seen_block>>),
               chainAt'[d] = chainAt[d] \/ chainAt'[d] # "height",
               UNCHANGED <<current_block[d], scanAt[<<d, g>>], receives[<<d, g>>],
                           fetch_frontier[<<d, g>>], scan_dedup[<<d, g>>]>>
        PROVE  ScanInv(d, g)'
    <3>1. ScanInv(d, g)
      BY DEF WindowInv
    <3>2. \A t, since, f : InWindow(d, g, t, since, f)' <=> InWindow(d, g, t, since, f)
      BY <2>1 DEF InWindow, Confirmed
    <3> QED
      BY <2>1, <3>1, <3>2 DEF ScanInv
  <2>2. CASE UNCHANGED <<processed_tx_hashes, last_seen_block, pass, chainVars, scanVars>>
    BY <2>2 DEF WindowInv, ScanInv, InWindow
  <2>3. CASE Tick \/ Receive \/ UNCHANGED vars
    BY <2>2, <2>3 DEF Tick, Receive, vars
  <2>4. ASSUME NEW d \in Deposit, liquidate_one(d) PROVE WindowInv'
    BY <2>2, <2>4 DEF liquidate_one
  <2>5. CASE StartDiscovery
    BY <2>1, <2>5 DEF StartDiscovery, WindowInv
  <2>6. CASE Merge
    BY <2>1, <2>6 DEF Merge, WindowInv
  <2>7. CASE NextPass
    <3> SUFFICES ASSUME NEW c \in Chain, NEW e \in Entry PROVE ScanInv(c, e)'
      BY DEF WindowInv
    <3>1. scanAt'[<<c, e>>] = "fetch"
      BY <2>0, <2>7 DEF NextPass, FreshPass
    <3> QED
      BY <3>1 DEF ScanInv
  <2>8. ASSUME NEW c \in Chain, ChainStep(c) PROVE WindowInv'
    <3>1. CASE HeightFails(c) \/ SkipChain(c) \/ EndChain(c)
      <4>1. /\ pass = "running"
            /\ UNCHANGED <<processed_tx_hashes, last_seen_block, current_block, scanVars>>
            /\ chainAt' = [chainAt EXCEPT ![c] = "returned"]
        BY <3>1 DEF HeightFails, SkipChain, EndChain, Return
      <4>2. \A d \in Chain : chainAt'[d] = chainAt[d] \/ chainAt'[d] # "height"
        BY <4>1 DEF TypeOK
      <4> QED
        BY <2>1, <4>1, <4>2 DEF WindowInv
    <3>2. ASSUME NEW b \in 0 .. MaxHeight, get_block_height(c, b) PROVE WindowInv'
      <4>1. /\ pass = "running" /\ chainAt[c] = "height"
            /\ UNCHANGED <<processed_tx_hashes, last_seen_block, scanVars>>
            /\ chainAt' = [chainAt EXCEPT ![c] = "scan"]
            /\ current_block' = [current_block EXCEPT ![c] = b]
        BY <3>2 DEF get_block_height
      <4> SUFFICES ASSUME NEW d \in Chain, NEW g \in Entry PROVE ScanInv(d, g)'
        BY DEF WindowInv
      <4>2. CASE d = c
        <5>1. scanAt'[<<d, g>>] = "fetch"
          BY <4>1, <4>2 DEF WindowInv, ScanInv
        <5> QED
          BY <5>1 DEF ScanInv
      <4>3. CASE d # c
        <5>1. chainAt'[d] = chainAt[d] /\ current_block'[d] = current_block[d]
          BY <4>1, <4>3 DEF TypeOK
        <5> QED
          BY <2>1, <4>1, <5>1
      <4> QED
        BY <4>2, <4>3
    <3> QED
      BY <2>8, <3>1, <3>2 DEF ChainStep
  <2>9. ASSUME NEW c \in Chain, NEW e \in Entry, ScanStep(c, e) PROVE WindowInv'
    <3> DEFINE me == <<c, e>>
    <3>1. /\ pass = "running" /\ chainAt[c] = "scan"
          /\ UNCHANGED <<processed_tx_hashes, last_seen_block, pass, chainAt, current_block>>
      BY <2>9 DEF ScanStep, FetchOk, FetchFails, EndScan, SkipReceive, Send, Scanning
    <3>2. \A s \in Scan \ {me} :
            UNCHANGED <<scanAt[s], receives[s], fetch_frontier[s], scan_dedup[s]>>
      BY <2>0, <2>9 DEF ScanStep, FetchOk, FetchFails, EndScan, SkipReceive, Send, TypeOK
    <3>3. ASSUME NEW d \in Chain, NEW g \in Entry, <<d, g>> # me PROVE ScanInv(d, g)'
      <4>1. UNCHANGED <<scanAt[<<d, g>>], receives[<<d, g>>],
                        fetch_frontier[<<d, g>>], scan_dedup[<<d, g>>]>>
        BY <2>0, <3>2, <3>3
      <4> QED
        BY <2>1, <3>1, <4>1
    <3>4. ScanInv(c, e)'
      <4>1. \A t, since, f : InWindow(c, e, t, since, f)' <=> InWindow(c, e, t, since, f)
        BY <3>1 DEF InWindow, Confirmed
      <4>2. ScanInv(c, e)
        BY DEF WindowInv
      <4>3. ASSUME NEW f \in 0 .. MaxHeight, FetchOk(c, e, f) PROVE ScanInv(c, e)'
        <5>1. PICK since \in since_block(last_seen_block[c], c) :
                receives'[me] = {t \in Transfer :
                                   /\ chain_of[tx_of[t]] = c
                                   /\ recipient[t] = entry_address[e]
                                   /\ block_of[tx_of[t]] \in since .. f}
          BY <2>0, <4>3 DEF FetchOk, TypeOK
        <5>2. scanAt'[me] = "send" /\ fetch_frontier'[me] = f
          BY <2>0, <4>3 DEF FetchOk, TypeOK
        <5>3. \A t \in Transfer : InWindow(c, e, t, since, f) => t \in receives'[me]
          BY <5>1 DEF InWindow
        <5> QED
          BY <3>1, <4>1, <5>1, <5>2, <5>3 DEF ScanInv
      <4>4. CASE FetchFails(c, e)
        <5>1. scanAt'[me] = "failed"
          BY <2>0, <4>4 DEF FetchFails, TypeOK
        <5> QED
          BY <3>1, <5>1 DEF ScanInv
      <4>5. CASE EndScan(c, e)
        <5>1. /\ scanAt[me] = "send" /\ scanAt'[me] = "done" /\ receives[me] = {}
              /\ UNCHANGED <<receives, fetch_frontier, scan_dedup>>
          BY <2>0, <4>5 DEF EndScan, Scanning, TypeOK
        <5> QED
          BY <3>1, <4>1, <4>2, <5>1 DEF ScanInv
      <4>6. ASSUME NEW u \in Transfer,
                   scanAt[me] = "send", UNCHANGED <<scanAt, fetch_frontier>>,
                   receives' = [receives EXCEPT ![me] = @ \ {u}],
                   scan_dedup[me] \subseteq scan_dedup'[me],
                   \A since : InWindow(c, e, u, since, fetch_frontier[me]) =>
                     tx_of[u] \in processed_tx_hashes \cup scan_dedup'[me]
            PROVE  ScanInv(c, e)'
        <5>1. receives'[me] = receives[me] \ {u}
          BY <2>0, <4>6 DEF TypeOK
        <5>2. PICK since \in since_block(last_seen_block[c], c) :
                \A t \in Transfer :
                  InWindow(c, e, t, since, fetch_frontier[me]) =>
                    \/ t \in receives[me]
                    \/ tx_of[t] \in processed_tx_hashes \cup scan_dedup[me]
          BY <3>1, <4>2, <4>6 DEF ScanInv
        <5>3. \A t \in Transfer :
                InWindow(c, e, t, since, fetch_frontier[me]) =>
                  \/ t \in receives'[me]
                  \/ tx_of[t] \in processed_tx_hashes \cup scan_dedup'[me]
          BY <4>6, <5>1, <5>2
        <5> QED
          BY <3>1, <4>1, <4>6, <5>3 DEF ScanInv
      <4>7. ASSUME NEW u \in Transfer, SkipReceive(c, e, u) PROVE ScanInv(c, e)'
        <5>1. \A since : InWindow(c, e, u, since, fetch_frontier[me]) =>
                tx_of[u] \in processed_tx_hashes \cup scan_dedup[me]
          BY <4>7 DEF SkipReceive, Unsent, Eligible, Fresh, InWindow
        <5> QED
          BY <4>6, <4>7, <5>1 DEF SkipReceive, Scanning
      <4>8. ASSUME NEW u \in Transfer, Send(c, e, u) PROVE ScanInv(c, e)'
        <5>1. scan_dedup'[me] = scan_dedup[me] \cup {tx_of[u]}
          BY <2>0, <4>8 DEF Send, TypeOK
        <5> QED
          BY <4>6, <4>8, <5>1 DEF Send, Scanning
      <4> QED
        BY <2>9, <4>3, <4>4, <4>5, <4>7, <4>8 DEF ScanStep
    <3> QED
      BY <3>3, <3>4 DEF WindowInv
  <2> QED
    BY <2>3, <2>4, <2>5, <2>6, <2>7, <2>8, <2>9 DEF Next
<1> QED
  BY <1>1, <1>2, TypeCorrect, PTL DEF Spec

\* Below the persisted frontier no monitored deposit is left behind.
THEOREM NothingLeftBehindHolds == Spec => []NothingLeftBehind
<1> USE DEF stateVars, scanVars, chainVars, channelVars
<1>1. Init => NothingLeftBehind
  BY LedgerAssumption DEF Init, NothingLeftBehind
<1>2. TypeOK /\ WindowInv /\ NothingLeftBehind /\ [Next]_vars => NothingLeftBehind'
  <2> SUFFICES ASSUME TypeOK, WindowInv, NothingLeftBehind, [Next]_vars
               PROVE  NothingLeftBehind'
    OBVIOUS
  <2>1. CASE UNCHANGED <<last_seen_block, processed_tx_hashes>>
    BY <2>1 DEF NothingLeftBehind
  <2>2. CASE \/ StartDiscovery \/ NextPass \/ Receive \/ Tick \/ UNCHANGED vars
             \/ \E d \in Deposit : liquidate_one(d)
    BY <2>1, <2>2 DEF StartDiscovery, NextPass, Receive, Tick, vars, liquidate_one
  <2>3. ASSUME NEW c \in Chain, ChainStep(c) PROVE NothingLeftBehind'
    BY <2>1, <2>3 DEF ChainStep, HeightFails, SkipChain, EndChain, get_block_height
  <2>4. ASSUME NEW c \in Chain, NEW e \in Entry, ScanStep(c, e)
        PROVE  NothingLeftBehind'
    BY <2>1, <2>4 DEF ScanStep, FetchOk, FetchFails, EndScan, SkipReceive, Send
  <2>5. CASE Merge
    <3> SUFFICES ASSUME NEW t \in Transfer,
                        NEW b \in last_seen_block'[chain_of[tx_of[t]]],
                        NotDust(t),
                        NEW e \in Entry, recipient[t] = entry_address[e],
                        NEW s \in start_block_for(chain_of[tx_of[t]]),
                        s <= block_of[tx_of[t]], block_of[tx_of[t]] <= b,
                        tx_of[t] \notin processed_tx_hashes'
                 PROVE  FALSE
      BY DEF NothingLeftBehind
    <3> DEFINE x == tx_of[t]
               c == chain_of[x]
               n == block_of[x]
    <3>1. x \in TxHash /\ c \in Chain /\ n \in 1 .. MaxHeight /\ MaxHeight \in Nat
      BY LedgerAssumption, PassAssumption
    <3>2. x \notin processed_tx_hashes
      BY <2>5, MergeEffect
    <3>3. \A b0 \in last_seen_block[c] : ~ (n <= b0)
      BY <3>2 DEF NothingLeftBehind
    <3>4. /\ scanAt[<<c, e>>] = "done"
          /\ b <= ScanFrontier(fetch_frontier[<<c, e>>], current_block[c], c)
      BY <2>5, <3>1, <3>3, MergeEffect
    <3>5. /\ fetch_frontier[<<c, e>>] \in Nat /\ current_block[c] \in Nat
          /\ b \in Nat
      <4>1. <<c, e>> \in Scan
        BY <3>1 DEF Scan
      <4>2. last_seen_block' \in [Chain -> SUBSET (0 .. MaxHeight)]
        BY <2>5, MergeEffect
      <4> QED
        BY <3>1, <4>1, <4>2 DEF TypeOK
    <3>6. confirmation_blocks_for(c) \in Nat
      BY ConfigAssumption DEF confirmation_blocks_for
    <3>7. /\ n <= fetch_frontier[<<c, e>>]
          /\ n + confirmation_blocks_for(c) <= current_block[c]
      <4> DEFINE g == ScanFrontier(fetch_frontier[<<c, e>>], current_block[c], c)
      <4>1. /\ g \in Nat /\ g <= fetch_frontier[<<c, e>>]
            /\ g = 0 \/ g + confirmation_blocks_for(c) <= current_block[c]
        BY <3>1, <3>5, ScanFrontierBound
      <4> HIDE DEF g
      <4>2. b <= g
        BY <3>4 DEF g
      <4> QED
        BY <3>1, <3>5, <3>6, <4>1, <4>2
    <3>8. Confirmed(current_block[c], n, c)
      BY <3>1, <3>5, <3>6, <3>7 DEF Confirmed, SaturatingSub
    <3>9. PICK since \in since_block(last_seen_block[c], c) :
            \A u \in Transfer :
              InWindow(c, e, u, since, fetch_frontier[<<c, e>>]) =>
                \/ u \in receives[<<c, e>>]
                \/ tx_of[u] \in processed_tx_hashes \cup scan_dedup[<<c, e>>]
      <4>1. pass # "ended" /\ ScanInv(c, e)
        BY <2>5, <3>1 DEF Merge, WindowInv
      <4> QED
        BY <3>4, <4>1 DEF ScanInv
    <3>10. receives[<<c, e>>] = {}
      BY <3>1, <3>4 DEF WindowInv, ScanInv
    <3>11. since \in Nat /\ since <= n
      <4>1. CASE last_seen_block[c] # {}
        <5>1. since \in last_seen_block[c] /\ since \in Nat
          BY <3>1, <3>9, <4>1 DEF since_block, TypeOK
        <5> QED
          BY <3>1, <3>3, <5>1
      <4>2. CASE last_seen_block[c] = {}
        <5>1. since \in start_block_for(c)
          BY <3>9, <4>2 DEF since_block
        <5>2. since = s /\ since \in Nat
          BY <5>1, ConfigAssumption DEF start_block_for
        <5> QED
          BY <5>2
      <4> QED
        BY <4>1, <4>2
    <3>12. InWindow(c, e, t, since, fetch_frontier[<<c, e>>])
      BY <3>1, <3>5, <3>7, <3>8, <3>11 DEF InWindow
    <3>13. x \in scan_dedup[<<c, e>>]
      BY <3>2, <3>9, <3>10, <3>12
    <3>14. <<c, e>> \in Scan
      BY <3>1 DEF Scan
    <3>15. scan_dedup[<<c, e>>] \subseteq processed_tx_hashes'
      BY <2>5, <3>4, <3>14, MergeEffect
    <3> QED
      BY <3>13, <3>15
  <2> QED
    BY <2>2, <2>3, <2>4, <2>5 DEF Next
<1> QED
  BY <1>1, <1>2, TypeCorrect, WindowCorrect, PTL DEF Spec

-----------------------------------------------------------------------------
(* No one waits for ever.                                                  *)

\* A chain check gives up its sending handle when it returns, and run its own
\* before it waits.
SendersInv ==
  /\ pass = "starting" => \A c \in Chain : chainAt[c] # "returned"
  /\ pass # "starting" => senders \subseteq {c \in Chain : chainAt[c] # "returned"}

\* Only chain checks that have not returned keep the channel open.
THEOREM SendersCorrect == Spec => []SendersInv
<1> USE DEF stateVars, scanVars, chainVars, channelVars
<1>1. Init => SendersInv
  BY DEF Init, SendersInv
<1>2. TypeOK /\ SendersInv /\ [Next]_vars => SendersInv'
  <2> SUFFICES ASSUME TypeOK, SendersInv, [Next]_vars PROVE SendersInv'
    OBVIOUS
  <2>1. ASSUME UNCHANGED <<pass, chainAt, senders>> PROVE SendersInv'
    BY <2>1 DEF SendersInv
  <2>2. CASE Tick \/ Receive \/ UNCHANGED vars
    BY <2>1, <2>2 DEF Tick, Receive, vars
  <2>3. CASE StartDiscovery
    BY <2>3 DEF StartDiscovery, DropOriginal, SendersInv, TypeOK
  <2>4. CASE Merge
    BY <2>4 DEF Merge, SendersInv
  <2>5. CASE NextPass
    BY <2>5 DEF NextPass, FreshPass, SendersInv
  <2>6. ASSUME NEW d \in Deposit, liquidate_one(d) PROVE SendersInv'
    BY <2>1, <2>6 DEF liquidate_one
  <2>7. ASSUME NEW c \in Chain, ChainStep(c) PROVE SendersInv'
    <3>1. ASSUME pass = "running", UNCHANGED pass, Return(c) PROVE SendersInv'
      BY <3>1 DEF Return, SendersInv, TypeOK
    <3>2. CASE HeightFails(c) \/ SkipChain(c) \/ EndChain(c)
      BY <3>1, <3>2 DEF HeightFails, SkipChain, EndChain
    <3>3. ASSUME NEW b \in 0 .. MaxHeight, get_block_height(c, b) PROVE SendersInv'
      BY <3>3 DEF get_block_height, SendersInv, TypeOK
    <3> QED
      BY <2>7, <3>2, <3>3 DEF ChainStep
  <2>8. ASSUME NEW c \in Chain, NEW e \in Entry, ScanStep(c, e) PROVE SendersInv'
    BY <2>1, <2>8 DEF ScanStep, FetchOk, FetchFails, EndScan, SkipReceive, Send
  <2> QED
    BY <2>2, <2>3, <2>4, <2>5, <2>6, <2>7, <2>8 DEF Next
<1> QED
  BY <1>1, <1>2, TypeCorrect, PTL DEF Spec

\* Scans, worker and run never wait for each other, whatever the capacity of
\* the channel and the number of jobs, as long as neither is zero.
THEOREM NoDeadlockHolds == Spec => []NoDeadlock
<1>1. TypeOK /\ SendersInv => NoDeadlock
  <2> SUFFICES ASSUME TypeOK, SendersInv, pass = "running", in_flight = {},
                      \A c \in Chain : ~ ChainRuns(c)
               PROVE  \/ channel # <<>> /\ RoomForJob
                      \/ (\A c \in Chain : chainAt[c] = "returned") /\ WorkerDone
    BY DEF NoDeadlock
  <2>1. RoomForJob
    BY FS_EmptySet, PassAssumption DEF RoomForJob
  <2> SUFFICES ASSUME channel = <<>>
               PROVE  (\A c \in Chain : chainAt[c] = "returned") /\ WorkerDone
    BY <2>1
  <2>2. RoomInChannel
    BY PassAssumption DEF RoomInChannel
  <2>3. ASSUME NEW c \in Chain, NEW e \in Entry, chainAt[c] = "scan"
        PROVE  scanAt[<<c, e>>] \in {"failed", "done"}
    <3>1. ~ ScanRuns(c, e)
      BY <2>3 DEF ChainRuns
    <3>2. scanAt[<<c, e>>] \in {"fetch", "send", "failed", "done"}
      BY DEF TypeOK, Scan
    <3> QED
      BY <2>2, <3>1, <3>2 DEF ScanRuns
  <2>4. \A c \in Chain : chainAt[c] = "returned"
    BY <2>3 DEF ChainRuns, TypeOK
  <2>5. senders = {}
    BY <2>4 DEF SendersInv
  <2> QED
    BY <2>4, <2>5 DEF WorkerDone
<1> QED
  BY <1>1, TypeCorrect, SendersCorrect, PTL

=============================================================================

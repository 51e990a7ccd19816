----------------------------- MODULE DepositCheck -----------------------------
(***************************************************************************)
(* DepositCheck::run, pass after pass: the chain checks and their address  *)
(* scans run concurrently with the Coinbase worker, joined by a bounded    *)
(* channel; when both sides are done the results are merged into the state *)
(* and the errors of the pass are reported.                                *)
(*                                                                         *)
(* The loaded state survives from pass to pass, as it does through a       *)
(* successful save. Instead of the clock the module keeps ages: how many   *)
(* ticks ago a chain's updated_at was set, capped just above the staleness *)
(* threshold, so that no bound on the number of passes is needed. Coinbase *)
(* is a call that returns: its outcomes do not matter here.                *)
(***************************************************************************)
EXTENDS DepositRules, ChainResult, Sequences, FiniteSets

CONSTANTS
  block_of,                     \* [TxHash -> Nat]: the block of each transaction
  MaxHeight,                    \* bound: block heights a node may report
  CHANNEL_CAPACITY,
  MAX_CONCURRENT_JOBS,
  CHAIN_STALE_THRESHOLD         \* the six hours, in ticks

ASSUME PassAssumption ==
  /\ IsFiniteSet(Entry)
  /\ block_of \in [TxHash -> 1 .. MaxHeight]
  /\ MaxHeight \in Nat /\ MaxHeight < U64Max
  /\ CHANNEL_CAPACITY \in Nat \ {0}
  /\ MAX_CONCURRENT_JOBS \in Nat \ {0}
  /\ CHAIN_STALE_THRESHOLD \in Nat

VARIABLES
  processed_tx_hashes,  \* the persisted dedup set
  last_seen_block,      \* [Chain -> Option of a block number]
  updated_age,          \* [Chain -> ticks since updated_at], if there is one
  pass,                 \* "starting", "running" or "ended"
  chainAt,              \* [Chain -> "height", "scan" or "returned"]
  current_block,        \* [Chain -> the height the check works with]
  receives,             \* [Chain \X Entry -> receives the scan has still to judge]
  scanAt,               \* [Chain \X Entry -> "fetch", "send", "failed" or "done"]
  fetch_frontier,       \* [Chain \X Entry -> how far the fetch got]
  scan_dedup,           \* [Chain \X Entry -> hashes the scan has sent]
  errors,               \* what the pass will report: chains, and chain entries
  senders,              \* live handles of the channel's sending side
  channel,              \* deposits sent and not yet received
  in_flight,            \* deposits being sold and withdrawn
  results,              \* deposits with a LiquidationResult
  sent,                 \* history: deposits that send returned Ok for
  reported              \* history: chains of the last message to the operator

stateVars   == <<processed_tx_hashes, last_seen_block, updated_age>>
scanVars    == <<receives, scanAt, fetch_frontier, scan_dedup>>
chainVars   == <<chainAt, current_block>>
channelVars == <<senders, channel, in_flight, results, sent>>
vars == <<stateVars, pass, chainVars, scanVars, channelVars, errors, reported>>

Scan == Chain \X Entry

\* The handle that run itself holds until the futures are built.
Original == "original"

\* What an EligibleDeposit is told apart by: its entry and its transfer.
Deposit == Entry \X Transfer

Age == 0 .. CHAIN_STALE_THRESHOLD + 1

\* The locals of a pass as run builds them.
FreshPass ==
  /\ pass' = "starting"
  /\ chainAt' = [c \in Chain |-> "height"]
  /\ current_block' = [c \in Chain |-> 0]
  /\ receives' = [s \in Scan |-> {}]
  /\ scanAt' = [s \in Scan |-> "fetch"]
  /\ fetch_frontier' = [s \in Scan |-> 0]
  /\ scan_dedup' = [s \in Scan |-> {}]
  /\ errors' = {}
  /\ senders' = Chain \cup {Original}
  /\ channel' = <<>>
  /\ in_flight' = {}
  /\ results' = {}
  /\ sent' = {}

Init ==
  /\ processed_tx_hashes = {}
  /\ last_seen_block = [c \in Chain |-> {}]
  /\ updated_age = [c \in Chain |-> 0]
  /\ pass = "starting"
  /\ chainAt = [c \in Chain |-> "height"]
  /\ current_block = [c \in Chain |-> 0]
  /\ receives = [s \in Scan |-> {}]
  /\ scanAt = [s \in Scan |-> "fetch"]
  /\ fetch_frontier = [s \in Scan |-> 0]
  /\ scan_dedup = [s \in Scan |-> {}]
  /\ errors = {}
  /\ senders = Chain \cup {Original}
  /\ channel = <<>>
  /\ in_flight = {}
  /\ results = {}
  /\ sent = {}
  /\ reported = {}

Tick ==
  /\ updated_age' = [c \in Chain |-> IF updated_age[c] > CHAIN_STALE_THRESHOLD
                                     THEN updated_age[c]
                                     ELSE updated_age[c] + 1]
  /\ UNCHANGED <<processed_tx_hashes, last_seen_block, pass, chainVars,
                 scanVars, channelVars, errors, reported>>

-----------------------------------------------------------------------------
(* Discovery.                                                              *)

\* Faulty variant: run keeps its own sending handle.
KeepOriginal(handles) == handles

DropOriginal(handles) == handles \ {Original}

\* The futures hold clones of the sender; run drops its own handle.
StartDiscovery ==
  /\ pass = "starting"
  /\ pass' = "running"
  /\ senders' = DropOriginal(senders)
  /\ UNCHANGED <<stateVars, chainVars, scanVars, channel, in_flight, results,
                 sent, errors, reported>>

\* A chain that was never seen is stale at once.
is_chain_stale(c) ==
  last_seen_block[c] = {} \/ updated_age[c] > CHAIN_STALE_THRESHOLD

\* A failure is reported if the chain is stale, else only logged.
Escalate(c, failure) ==
  errors' = IF is_chain_stale(c) THEN errors \cup {failure} ELSE errors

Return(c) ==
  /\ chainAt' = [chainAt EXCEPT ![c] = "returned"]
  /\ senders' = senders \ {c}

HeightFails(c) ==
  /\ pass = "running"
  /\ chainAt[c] = "height"
  /\ Escalate(c, <<c>>)
  /\ Return(c)
  /\ UNCHANGED <<stateVars, pass, current_block, scanVars, channel, in_flight,
                 results, sent, reported>>

\* No frontier and no start block: skipped.
SkipChain(c) ==
  /\ pass = "running"
  /\ chainAt[c] = "height"
  /\ since_block(last_seen_block[c], c) = {}
  /\ Return(c)
  /\ UNCHANGED <<stateVars, pass, current_block, scanVars, channel, in_flight,
                 results, sent, errors, reported>>

get_block_height(c, b) ==
  /\ pass = "running"
  /\ chainAt[c] = "height"
  /\ since_block(last_seen_block[c], c) # {}
  /\ chainAt' = [chainAt EXCEPT ![c] = "scan"]
  /\ current_block' = [current_block EXCEPT ![c] = b]
  /\ UNCHANGED <<stateVars, pass, scanVars, channelVars, errors, reported>>

Scanning(c, e, at) ==
  /\ pass = "running"
  /\ chainAt[c] = "scan"
  /\ scanAt[<<c, e>>] = at

\* The fetch returns the receives of the window up to block f.
FetchOk(c, e, f) ==
  /\ Scanning(c, e, "fetch")
  /\ \E since \in since_block(last_seen_block[c], c) :
       /\ f \in FetchFrontiers(since, current_block[c])
       /\ receives' = [receives EXCEPT ![<<c, e>>] =
            {t \in Transfer : /\ chain_of[tx_of[t]] = c
                              /\ recipient[t] = entry_address[e]
                              /\ block_of[tx_of[t]] \in since .. f}]
  /\ fetch_frontier' = [fetch_frontier EXCEPT ![<<c, e>>] = f]
  /\ scanAt' = [scanAt EXCEPT ![<<c, e>>] = "send"]
  /\ UNCHANGED <<stateVars, pass, chainVars, scan_dedup, channelVars, errors,
                 reported>>

FetchFails(c, e) ==
  /\ Scanning(c, e, "fetch")
  /\ Escalate(c, <<c, e>>)
  /\ scanAt' = [scanAt EXCEPT ![<<c, e>>] = "failed"]
  /\ UNCHANGED <<stateVars, pass, chainVars, receives, fetch_frontier,
                 scan_dedup, channelVars, reported>>

\* Dust, duplicates and unconfirmed receives are not sent. Receives are taken
\* in any order.
Unsent(c, e, t) ==
  \/ ~ Eligible(processed_tx_hashes, current_block[c], t, block_of[tx_of[t]])
  \/ tx_of[t] \in scan_dedup[<<c, e>>]

SkipReceive(c, e, t) ==
  /\ Scanning(c, e, "send")
  /\ t \in receives[<<c, e>>]
  /\ Unsent(c, e, t)
  /\ receives' = [receives EXCEPT ![<<c, e>>] = @ \ {t}]
  /\ UNCHANGED <<stateVars, pass, chainVars, scanAt, fetch_frontier, scan_dedup,
                 channelVars, errors, reported>>

\* Faulty variant: the channel is not bounded.
RoomAlways == TRUE

RoomInChannel == Len(channel) < CHANNEL_CAPACITY

\* send awaits room in the channel.
Send(c, e, t) ==
  /\ Scanning(c, e, "send")
  /\ t \in receives[<<c, e>>]
  /\ ~ Unsent(c, e, t)
  /\ RoomInChannel
  /\ channel' = Append(channel, <<e, t>>)
  /\ sent' = sent \cup {<<e, t>>}
  /\ receives' = [receives EXCEPT ![<<c, e>>] = @ \ {t}]
  /\ scan_dedup' = [scan_dedup EXCEPT ![<<c, e>>] = @ \cup {tx_of[t]}]
  /\ UNCHANGED <<stateVars, pass, chainVars, scanAt, fetch_frontier, senders,
                 in_flight, results, errors, reported>>

EndScan(c, e) ==
  /\ Scanning(c, e, "send")
  /\ receives[<<c, e>>] = {}
  /\ scanAt' = [scanAt EXCEPT ![<<c, e>>] = "done"]
  /\ UNCHANGED <<stateVars, pass, chainVars, receives, fetch_frontier,
                 scan_dedup, channelVars, errors, reported>>

\* join_all of the scans: the check returns and drops its sender.
EndChain(c) ==
  /\ pass = "running"
  /\ chainAt[c] = "scan"
  /\ \A e \in Entry : scanAt[<<c, e>>] \in {"failed", "done"}
  /\ Return(c)
  /\ UNCHANGED <<stateVars, pass, current_block, scanVars, channel, in_flight,
                 results, sent, errors, reported>>

-----------------------------------------------------------------------------
(* The worker.                                                             *)

RoomForJob == Cardinality(in_flight) < MAX_CONCURRENT_JOBS

\* Faulty variant: the deposit taken stays in the channel.
PeekOnly(queue) == queue

Taken(queue) == Tail(queue)

\* buffer_unordered pulls from the channel while it has room for a job.
Receive ==
  /\ pass = "running"
  /\ channel # <<>>
  /\ RoomForJob
  /\ in_flight' = in_flight \cup {Head(channel)}
  /\ channel' = Taken(channel)
  /\ UNCHANGED <<stateVars, pass, chainVars, scanVars, senders, results, sent,
                 errors, reported>>

\* A job ends, in whatever order the Coinbase calls return.
liquidate_one(d) ==
  /\ d \in in_flight
  /\ in_flight' = in_flight \ {d}
  /\ results' = results \cup {d}
  /\ UNCHANGED <<stateVars, pass, chainVars, scanVars, senders, channel, sent,
                 errors, reported>>

\* Faulty variant: jobs in flight are not awaited.
WorkerDoneEarly == senders = {} /\ channel = <<>>

\* The stream ends when every sender is gone and the channel is drained.
WorkerDone == senders = {} /\ channel = <<>> /\ in_flight = {}

-----------------------------------------------------------------------------
(* Merge.                                                                  *)

\* The ChainResult of one address scan; errors are kept apart.
ScanOutcome(c, e) ==
  IF scanAt[<<c, e>>] = "done"
  THEN ChainResultOf(scan_dedup[<<c, e>>],
                     {ScanFrontier(fetch_frontier[<<c, e>>], current_block[c], c)},
                     {})
  ELSE ChainResultOf({}, {}, {})

ChainOutcome(c) == Sum([e \in Entry |-> ScanOutcome(c, e)])

\* Faulty variant: the time is refreshed whether or not there is a frontier.
RefreshAlways(c, seen) == TRUE

\* updated_at is set together with the block number.
Refreshed(c, seen) == seen # {}

\* Both sides are done: frontiers, hashes and results go into the state, and
\* the pass reports its errors.
Merge ==
  /\ pass = "running"
  /\ \A c \in Chain : chainAt[c] = "returned"
  /\ WorkerDone
  /\ LET seen(c) == latest_seen_block(ChainOutcome(c))
     IN  /\ last_seen_block' = [c \in Chain |->
                IF seen(c) # {} THEN seen(c) ELSE last_seen_block[c]]
         /\ updated_age' = [c \in Chain |->
                IF Refreshed(c, seen(c)) THEN 0 ELSE updated_age[c]]
  /\ processed_tx_hashes' =
       processed_tx_hashes
         \cup (UNION {ChainOutcome(c).processed_tx_hashes : c \in Chain})
         \cup {tx_of[d[2]] : d \in results}
  /\ reported' = {f[1] : f \in errors}
  /\ pass' = "ended"
  /\ UNCHANGED <<chainVars, scanVars, channelVars, errors>>

\* The next run of cron.
NextPass ==
  /\ pass = "ended"
  /\ FreshPass
  /\ UNCHANGED <<stateVars, reported>>

-----------------------------------------------------------------------------

ChainStep(c) ==
  \/ HeightFails(c) \/ SkipChain(c) \/ EndChain(c)
  \/ \E b \in 0 .. MaxHeight : get_block_height(c, b)

ScanStep(c, e) ==
  \/ \E f \in 0 .. MaxHeight : FetchOk(c, e, f)
  \/ FetchFails(c, e) \/ EndScan(c, e)
  \/ \E t \in Transfer : SkipReceive(c, e, t) \/ Send(c, e, t)

Next ==
  \/ StartDiscovery \/ Merge \/ NextPass \/ Receive \/ Tick
  \/ \E c \in Chain : ChainStep(c) \/ \E e \in Entry : ScanStep(c, e)
  \/ \E d \in Deposit : liquidate_one(d)

Spec == Init /\ [][Next]_vars

\* The runtime polls every future that can make progress, every call returns,
\* cron keeps starting passes, and time passes.
Fairness ==
  /\ WF_vars(StartDiscovery) /\ WF_vars(Merge) /\ WF_vars(NextPass)
  /\ WF_vars(Receive) /\ WF_vars(Tick)
  /\ \A c \in Chain : /\ WF_vars(ChainStep(c))
                      /\ \A e \in Entry : WF_vars(ScanStep(c, e))
  /\ \A d \in Deposit : WF_vars(liquidate_one(d))

LiveSpec == Spec /\ Fairness

\* The same without a word on the nodes: a request to one may stay unanswered,
\* as no request is given a timeout.
FairnessButNodes ==
  /\ WF_vars(StartDiscovery) /\ WF_vars(Merge) /\ WF_vars(NextPass)
  /\ WF_vars(Receive) /\ WF_vars(Tick)
  /\ \A c \in Chain :
       /\ WF_vars(EndChain(c))
       /\ \A e \in Entry :
            WF_vars(EndScan(c, e)
                      \/ \E t \in Transfer : SkipReceive(c, e, t) \/ Send(c, e, t))
  /\ \A d \in Deposit : WF_vars(liquidate_one(d))

SilentNodeSpec == Spec /\ FairnessButNodes

-----------------------------------------------------------------------------
(* Properties.                                                             *)

\* Types of the variables; the channel holds at most CHANNEL_CAPACITY deposits,
\* and the identity U64Max of the minimum is never persisted as a frontier.
TypeOK ==
  /\ processed_tx_hashes \subseteq TxHash
  /\ last_seen_block \in [Chain -> SUBSET (0 .. MaxHeight)]
  /\ updated_age \in [Chain -> Age]
  /\ pass \in {"starting", "running", "ended"}
  /\ chainAt \in [Chain -> {"height", "scan", "returned"}]
  /\ current_block \in [Chain -> 0 .. MaxHeight]
  /\ receives \in [Scan -> SUBSET Transfer]
  /\ scanAt \in [Scan -> {"fetch", "send", "failed", "done"}]
  /\ fetch_frontier \in [Scan -> 0 .. MaxHeight]
  /\ scan_dedup \in [Scan -> SUBSET TxHash]
  /\ errors \subseteq {<<c>> : c \in Chain} \cup Scan
  /\ senders \subseteq Chain \cup {Original}
  /\ channel \in Seq(Deposit) /\ Len(channel) <= CHANNEL_CAPACITY
  /\ in_flight \subseteq Deposit /\ results \subseteq Deposit
  /\ sent \subseteq Deposit /\ reported \subseteq Chain

ChannelSet == {channel[i] : i \in 1 .. Len(channel)}

\* Every deposit sent in a pass is in exactly one place on its way through the
\* worker, once: none is lost when the channel closes, none is run twice.
SentAccounted ==
  /\ sent = ChannelSet \cup in_flight \cup results
  /\ Cardinality(sent)
       = Len(channel) + Cardinality(in_flight) + Cardinality(results)

\* A merged pass has a result for each hash its scans sent, and the state has
\* the hash: what the scans report and what the worker did agree.
MergeComplete ==
  pass = "ended" =>
    /\ UNION {scan_dedup[s] : s \in Scan} = {tx_of[d[2]] : d \in results}
    /\ results = sent
    /\ {tx_of[d[2]] : d \in sent} \subseteq processed_tx_hashes

\* The sum of a chain's scans, folded by Add from EMPTY, is the closed form
\* that the module Sweep saves: None if a scan failed, else the least frontier.
SumAgrees ==
  \A c \in Chain :
    latest_seen_block(ChainOutcome(c))
      = SumFrontier([e \in Entry |-> ScanOutcome(c, e).confirmed_frontier])

\* Below the persisted frontier no monitored deposit is left behind, whatever
\* the order in which scans, sends and jobs end.
NothingLeftBehind ==
  \A t \in Transfer :
    LET c == chain_of[tx_of[t]] IN
    \A b \in last_seen_block[c] :
      (/\ NotDust(t)
       /\ \E e \in Entry : recipient[t] = entry_address[e]
       /\ \E s \in start_block_for(c) : s <= block_of[tx_of[t]]
       /\ block_of[tx_of[t]] <= b)
      => tx_of[t] \in processed_tx_hashes

\* A future of the pass that is not waiting for another one: a scan whose fetch
\* can return, that is through, or that can judge a receive without awaiting
\* room in the channel.
ScanRuns(c, e) ==
  \/ scanAt[<<c, e>>] = "fetch"
  \/ /\ scanAt[<<c, e>>] = "send"
     /\ \/ receives[<<c, e>>] = {}
        \/ \E t \in receives[<<c, e>>] : Unsent(c, e, t) \/ RoomInChannel

ChainRuns(c) ==
  \/ chainAt[c] = "height"
  \/ /\ chainAt[c] = "scan"
     /\ \/ \E e \in Entry : ScanRuns(c, e)
        \/ \A e \in Entry : scanAt[<<c, e>>] \in {"failed", "done"}

\* Scans that await room in the channel, a worker that awaits a deposit or the
\* end of the channel, and a run that awaits both never wait for each other:
\* in a running pass something else than the clock can always go on.
NoDeadlock ==
  pass = "running" =>
    \/ \E c \in Chain : ChainRuns(c)
    \/ channel # <<>> /\ RoomForJob
    \/ in_flight # {}
    \/ (\A c \in Chain : chainAt[c] = "returned") /\ WorkerDone

\* Every pass ends: the channel closes and the worker stops.
PassEnds == []<>(pass = "ended")

\* A pass that had a window to scan on the chain and got no frontier.
Failed(c) ==
  /\ since_block(last_seen_block[c], c) # {}
  /\ latest_seen_block(ChainOutcome(c)) = {}

\* A chain whose checks keep failing is reported to the operator again and
\* again: suppressing errors on recent data never hides an outage for good.
OutageReported ==
  \A c \in Chain :
    (<>[](pass = "ended" => Failed(c))) => []<>(c \in reported)

-----------------------------------------------------------------------------
(* What the documentation says of the program.                             *)

\* explorer.rs: a provider is built with retry and timeout configuration. A
\* request that is not answered then fails, and the pass ends all the same.
TimeoutsEndPass == []<>(pass = "ended")

=============================================================================

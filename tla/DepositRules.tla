----------------------------- MODULE DepositRules -----------------------------
(***************************************************************************)
(* The rules of a deposit check that hold no state: the configuration, the *)
(* filters a USDC receive passes before it is liquidated, the frontier a   *)
(* scan may claim, the identity of an audit record, and the pruning of the *)
(* persisted state.                                                        *)
(*                                                                         *)
(* An Option is a set of at most one element: {} is None, {x} is Some(x).  *)
(* Block numbers are naturals; 0 stands for "in no block", which no        *)
(* transfer of a deployed USDC contract can be in.                         *)
(***************************************************************************)
EXTENDS Blocks

CONSTANTS
  Chain,                        \* enum Chain
  Entry,                        \* the entries of config.deposit_addresses
  Address,                      \* on-chain addresses
  TxHash,                       \* on-chain transactions
  Transfer,                     \* ERC-20 Transfer logs, what UsdcReceive is parsed from
  entry_address,                \* [Entry -> Address]
  chain_of,                     \* [TxHash -> Chain]
  tx_of,                        \* [Transfer -> TxHash]: the transaction of the log
  recipient,                    \* [Transfer -> Address]
  amount,                       \* [Transfer -> Nat]
  tx_prefix,                    \* [TxHash -> prefixes]: first 8 characters of a hash
  confirmation_blocks,          \* HashMap<Chain, u64>, may lack chains
  start_blocks,                 \* HashMap<Chain, u64>, may lack chains
  DEFAULT_CONFIRMATION_BLOCKS,
  USDC_DUST_THRESHOLD,
  max_auto_amount,
  Retention,                    \* the 90 days of prune_stale_entries, in clock ticks
  TicksPerDay                   \* clock ticks to a UTC date

\* CryptoSweepConfig::load rejects an empty deposit_addresses list.
ASSUME ConfigAssumption ==
  /\ Entry # {}
  /\ entry_address \in [Entry -> Address]
  /\ DOMAIN confirmation_blocks \subseteq Chain
  /\ \A c \in DOMAIN confirmation_blocks : confirmation_blocks[c] \in Nat
  /\ DOMAIN start_blocks \subseteq Chain
  /\ \A c \in DOMAIN start_blocks : start_blocks[c] \in Nat
  /\ DEFAULT_CONFIRMATION_BLOCKS \in Nat
  /\ USDC_DUST_THRESHOLD \in Nat
  /\ max_auto_amount \in Nat
  /\ Retention \in Nat
  /\ TicksPerDay \in Nat \ {0}

ASSUME LedgerAssumption ==
  /\ chain_of \in [TxHash -> Chain]
  /\ tx_of \in [Transfer -> TxHash]
  /\ recipient \in [Transfer -> Address]
  /\ amount \in [Transfer -> Nat]

\* No address is configured twice, which load does not check.
DistinctEntries ==
  \A d, e \in Entry : entry_address[d] = entry_address[e] => d = e

-----------------------------------------------------------------------------
(* config.rs *)

confirmation_blocks_for(c) ==
  IF c \in DOMAIN confirmation_blocks
  THEN confirmation_blocks[c]
  ELSE DEFAULT_CONFIRMATION_BLOCKS

start_block_for(c) ==
  IF c \in DOMAIN start_blocks THEN {start_blocks[c]} ELSE {}

-----------------------------------------------------------------------------
(* orchestrator.rs: where a scan starts, what it sends, how far it got.    *)

\* The scan window starts at the persisted frontier, else at the configured
\* start block; None skips the chain. seen is the persisted frontier.
since_block(seen, c) == IF seen # {} THEN seen ELSE start_block_for(c)

\* Faulty variant: one confirmation too few.
ConfirmedOneShort(current, b, c) ==
  SaturatingSub(current, b) + 1 >= confirmation_blocks_for(c)

Confirmed(current, b, c) ==
  SaturatingSub(current, b) >= confirmation_blocks_for(c)

NotDust(t) == amount[t] >= USDC_DUST_THRESHOLD

\* Faulty variant: the persisted hashes are not consulted.
FreshAlways(processed, t) == TRUE

Fresh(processed, t) == tx_of[t] \notin processed

\* The three filters of send_if_eligible, for a receive t in block b.
Eligible(processed, current, t, b) ==
  /\ NotDust(t)
  /\ Fresh(processed, t)
  /\ Confirmed(current, b, chain_of[tx_of[t]])

\* scan_dedup lets one receive per transaction hash through in one address
\* scan: the first of the hash in the order of the logs. Every choice of one
\* receive per hash is some order of the logs.
OnePerHash(receives) ==
  {S \in SUBSET receives :
     /\ \A t, u \in S : tx_of[t] = tx_of[u] => t = u
     /\ \A t \in receives : \E u \in S : tx_of[u] = tx_of[t]}

\* Faulty variant: the confirmation floor does not cap the frontier.
ScannedOnly(scanned, current, c) == scanned

\* The frontier an address scan reports: no further than it scanned and no
\* further than the newest block with enough confirmations.
ScanFrontier(scanned, current, c) ==
  LET floor == SaturatingSub(current, confirmation_blocks_for(c))
  IN  IF scanned <= floor THEN scanned ELSE floor

\* Faulty variant: a failed address scan is left out of the minimum.
SumOfSuccesses(f) ==
  LET all == UNION {f[e] : e \in Entry}
  IN  {b \in all : \A b2 \in all : b <= b2}

\* The frontier of a chain, ChainResult summed over its address scans: None
\* if any scan reports None, else the least of the reported blocks.
SumFrontier(f) ==
  LET all == UNION {f[e] : e \in Entry}
  IN  {b \in all : (\A e \in Entry : f[e] # {}) /\ (\A b2 \in all : b <= b2)}

-----------------------------------------------------------------------------
(* types.rs: audit records, and the persisted state.                       *)

\* The key of an audit record: the UTC date it was processed on and the first
\* eight characters of the hash.
make_id(at, tx) == <<at \div TicksPerDay, tx_prefix[tx]>>

Outcome == {"initiated", "failed"}

\* The fields of BankPayment the properties tell apart.
BankPayment(at, t, out) ==
  [id |-> make_id(at, tx_of[t]), deposit_tx_hash |-> tx_of[t],
   processed_at |-> at, outcome |-> out]

Payment ==
  [id : Nat \X {tx_prefix[x] : x \in TxHash}, deposit_tx_hash : TxHash,
   processed_at : Nat, outcome : Outcome]

PersistedState ==
  [bank_payments : SUBSET Payment,
   processed_tx_hashes : SUBSET TxHash,
   last_seen_block : [Chain -> SUBSET Nat]]

DefaultState ==
  [bank_payments |-> {}, processed_tx_hashes |-> {},
   last_seen_block |-> [c \in Chain |-> {}]]

-----------------------------------------------------------------------------
(* persistence.rs *)

IsStale(r, now) == r.processed_at < now - Retention

\* Faulty variant: the records go, their hashes stay.
PruneRecordsOnly(s, now) ==
  [s EXCEPT !.bank_payments = {r \in @ : ~ IsStale(r, now)}]

\* Records older than the retention period go, and their hashes with them.
prune_stale_entries(s, now) ==
  LET stale == {r \in s.bank_payments : IsStale(r, now)}
  IN  [s EXCEPT !.bank_payments = @ \ stale,
                !.processed_tx_hashes = @ \ {r.deposit_tx_hash : r \in stale}]

=============================================================================

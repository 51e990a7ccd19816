# cryptosweep in TLA+

cryptosweep is a cron job: every quarter of an hour it looks for USDC deposits
on several EVM chains, converts confirmed ones to USD on Coinbase and withdraws
the proceeds to a bank. This directory holds TLA+ models of it, the TLC
configurations that check them, and TLAPS proofs. Source paths are relative to
the directory above this one (`src/src/...`).

## The system

| Component | State | Operations | Correct when |
| --- | --- | --- | --- |
| `main.rs` process | the lock it holds, the loaded state | config, lock, load, pass, prune, save, alert, exit | runs do not overlap; what a pass did is saved |
| `persistence.rs` | `state.json`, lock file | `load_state`, `save_state`, `prune_stale_entries`, `acquire_lock` | hashes are forgotten only when they cannot matter |
| `orchestrator.rs` `DepositCheck` | channel, join of discovery and worker | `run`, merge | nothing is lost between scan, worker and state; a pass ends |
| `orchestrator.rs` `ChainDepositCheck` | scan window, `scan_dedup`, `ChainResult` | `run`, `address_scan`, `send_if_eligible`, `is_chain_stale` | the frontier never passes an unhandled deposit; only final deposits are sent; outages are reported |
| `cbworker.rs` | up to 5 jobs in flight | `run`, `liquidate_one`, `liquidate_pipeline`, `fail` | one sale per deposit, no withdrawal without its sale |
| `explorer.rs` | a provider per chain | `get_block_height`, `fetch_usdc_receives` | receives complete up to the frontier it returns |
| `coinbase/` | HTTP client, signing key | `sell_usdc`, `withdraw_usd`, `find_account`, JWT | an `Ok` means it happened |
| `config.rs`, `types.rs` | configuration, records | `load`, `confirmation_blocks_for`, `start_block_for`, `make_id` | defaults apply; ids are unique |
| `notifier/` | Telegram bot | `new`, `notify` | what a run escalates is passed on to it |

Chain checks run concurrently, and so do the address scans in each. They send
deposits over a bounded channel to the worker, which runs at the same time.
When every sender is dropped and the worker is idle, the results are merged
into the state in memory, which is pruned and written to disk once. Between
processes only the state file and an advisory lock are shared.

What is hard here: the external world changes between two calls (a height is
read, then the logs, then the sale is made, while the chain grows and
reorganizes); a call can fail after it took effect; one scan of several can
fail; the process can die anywhere before its only save; the state file forgets
after 90 days; deposits are credited and conversions settle when Coinbase gets
to it, on balances that all jobs share. `PROJECT.json` lists these hazards at the line where they bite.

## Modules

| Module | Models |
| --- | --- |
| `Blocks` | saturating `u64` arithmetic; the frontiers a fetch may report |
| `DepositRules` | configuration, the filters of `send_if_eligible`, the frontier of a scan and of a chain, audit records and ids, pruning. No state |
| `Sweep` | many processes over the life of a deployment: chains, clock, lock, state file, pass at the grain of external calls, Coinbase's ledger, crashes |
| `ChainResult` | the monoid `ChainResult` with `EMPTY`, `Add`, `Sum`, `latest_seen_block` |
| `DepositCheck` | one pass in detail, over and over: futures, sender handles, bounded channel, worker, merge, staleness and alerts |
| `FetchContract` | abstract: what the trait `BlockExplorer` promises of `fetch_usdc_receives` |
| `Explorer` | the chunk loop that implements it |
| `LiquidationContract` | abstract: what a job may take from the trait `CoinbaseClient` |
| `Coinbase` | the client that implements it, request by request, the jobs that use it, and Coinbase's accounts |
| `StateRegister` | abstract: the state file as a register |
| `Process` | `main` and `run` step by step: configuration, notifier, lock, load, client, save through a temporary file, alerts |
| `SweepProofs`, `DepositCheckProofs`, `ExplorerProofs`, `CoinbaseProofs`, `ProcessProofs` | theorems and proofs about the module of that name |
| `ChainResultProofs`, `SumLemmas` | what the folds of `ChainResult` and of `Coinbase` compute over finite sets |
| `MCSweep`, `MCDepositCheck`, `MCExplorer`, `MCCoinbase`, `MCProcess` | instances for TLC |

How they fit together: `Explorer` implements `FetchContract`, and `Sweep` and
`DepositCheck` take from a fetch exactly what that contract allows
(`FetchFrontiers`). `Sweep` uses a closed form, `SumFrontier`, for the sum of a
chain's scans; `SumAgrees` says in `DepositCheck` that it equals the fold of
`Add` from `EMPTY`. `Sweep` lets a queued deposit be liquidated at any later
step of the pass; `DepositCheck` shows that channel and worker hand on every
deposit exactly once. `Sweep`'s `sell_usdc`, `SellFails`, `withdraw_usd` and
`WithdrawFails` are the four steps of `LiquidationContract`, which `Coinbase`
implements. `Sweep` loads and saves its state in one step each; `Process` shows
that the file, written in several steps by processes that may be killed,
behaves as the register `StateRegister`.

### Correspondence

An `Option` is a set of at most one element. Transfers (logs), transactions,
addresses, chains and configuration entries are model values; a ledger of
constant tables says which transaction a log belongs to, who receives it and
how much. The order of logs is abstracted: `OnePerHash` takes any one receive
per hash, as `scan_dedup` does for some order. A record keeps its id, hash,
time and outcome. Time is in ticks, `Retention` and `TicksPerDay` are the 90
days and the calendar day.

In `Sweep` a process goes through `off`, `start`, `locked`, `pass`, `exit`. In
a pass each chain goes from `height` to `scan` to `done`, and each deposit is a
job: `queued`, `sold`, then `initiated` or `failed`. `save_state` is the whole
end of `run`: merge, prune, save. `RunFails` is every `?` in `run`; `LockBusy`
every error of `acquire_lock`. `sold` and `paid` are what Coinbase did, which
is not what the process learned: `SellFails` and `WithdrawFails` choose whether
the call took effect.

External, modelled from how the code uses them: a node's height is at most
`HeightLag` behind its chain and its logs at most `LogLag`; a reorganization
moves only transactions with fewer than `confirmation_blocks` confirmations.
A node serves the logs of the chain as it is, never those of an abandoned fork.
The assumption `LogLag <= confirmation_blocks` is what the operator chooses
that setting for. `PassTicks <= Retention` says that a pass is shorter than the
retention period.

In `DepositCheck` the clock is replaced by the age of `updated_at`, capped just
above the threshold, so that the number of passes is not bounded. The error
arm of `send` (the receiver is gone) is not an action: the receiver lives in the
same `join!` until all senders are dropped.

In `Coinbase` a job goes through the requests `quote`, `commit`, `account` and
`withdraw`, with the sleep in between. A request carries a token, of which only
the age matters, and an answer is a status and, if it is JSON of the right
shape, the set of fields it has. `Needed` is what the code asks of each. The
jobs are those within `max_auto_amount`; the check for it is in `Sweep`. The
branch of `find_account` for a configured id is not modelled, as `withdraw_usd`,
its only caller outside of the tests, asks only when there is none. Coinbase
(external) has one USDC and one USD balance; a commit is executed, and a
withdrawal made, whenever the balance suffices, whoever's money it is. A
connection that failed is not served later. A commit is executed or refused with
an HTTP error; an answer of status 200 about a trade that will not be executed
would be taken for a sale, as the client only logs the trade's status, and the
refinement rests on Coinbase not giving one. `faults` records what went
wrong for a job outside of the program. For the refinement an effect counts when
the call that caused it returns: nothing can look at it before.

In `Process` a run is a number, and the state file holds the set of runs whose
results are in it, so pruning is left to `Sweep`. `fs::write` is two steps, the
truncated file and the whole one. `Kill` is possible before every step and loses
nothing that the kernel already has; a loss of power may, since nothing is
synced, and is not modelled. The results of a run include when it polled the
chain, if it did (`updated_at`), so the time a state has for the chain is the
latest of its runs; `is_chain_stale` compares it with the clock when a check
fails, and a failure on recent data is logged and not reported. One chain stands
for each of them, as none looks at another's data. `LockFails` needs no other holder, as opening the
lock file can fail too. `told` are the attempts to notify: the code makes one
and only logs its failure. Exit codes are left out.

## Runs

Passing:

| Run | Shows |
| --- | --- |
| `sweep_safety` | two processes, two deposits, one above the limit, every failure: `FrontierCovers`, `SoldOnceUnlessLost`, `OnlyFinalSold`, `WithdrawBacked`, `AuditMatchesDedup`, `InitiatedIsPaid`, `HashesOnlyPruned` |
| `sweep_live` | two addresses, three blocks, one crash: `DepositsHandled`, every final monitored deposit is handled in the end; the inductive invariant `IndInv`, with those of its parts that need distinct addresses, prefixes and entries |
| `check` | a channel of one, two jobs, a second chain that is not configured: `SentAccounted`, `MergeComplete`, `SumAgrees`, `NothingLeftBehind`, `NoDeadlock`, and `PassEnds`, `OutageReported` |
| `explorer` | every window over seven blocks, chunks of two: `LoopInv`, `ErrWithoutProgress`, `RequestBounded`, `Returns`, and the refinement `ImplementsContract` |
| `coinbase` | two jobs on shared balances, every request lost, refused, late or damaged: the refinement `ImplementsContract`; `FailuresHaveACause`, `SettledBeforeWithdrawal`, `OnlyFailedStranded`, `JobsEnd` |
| `process` | two slots, three runs, a kill, failing saves, a chain that fails, an operator who edits the configuration: the refinement `AtomicState`; `FinishedIsSaved`, `NothingUntold`, `AddressesParse` |

Violated, each one a statement of the repository that the code does not keep
(quoted under `findings`):

| Run | The trace |
| --- | --- |
| `sweep_crash` | sold, killed before the save, sold again by the next run |
| `sweep_outage` | a deposit in the frontier block; the machine or chain is away for longer than the retention period; the first run back cannot reach the chain but prunes, the next one sells again |
| `sweep_repeated_entry` | an address listed twice is scanned twice; both scans send the deposit |
| `sweep_two_addresses` | one transaction pays two addresses; one scan fails, the other's hash hides the missed transfer |
| `check_silent_node` | a node that never answers keeps the pass and the lock |
| `coinbase_transient` | the connection is lost while a quote is asked for: the deposit is recorded as failed, for good |

Some divergences are visible without a run. `types.rs:218` says that audit
records are "Retained indefinitely" while `prune_stale_entries` drops them after
90 days. `config.rs:52` says that a chain without a start block is skipped while
its height is fetched first, and an error of that request is reported. The
repository's README says that Telegram messages are sent "when deposits are
processed, withdrawals are initiated"; a success is only logged. `make_id` keeps
eight characters of a hash, `0x` included: two deposits of one day that agree in
six digits share one audit record. The cause of `sweep_two_addresses`, dedup by
hash and not by log, also loses the second of two transfers to one address in
one transaction.

`SoldOnceUnlessLost`, `HashesOnlyPruned` and `FrontierCovers` say what remains
true: which losses (the history variable `lost`) a second sale needs, and that
a transaction, as opposed to a single transfer, is never left behind.
`FailuresHaveACause` and `OnlyFailedStranded` do the same for `Failed`: there is
always a reason outside of the program, though not a permanent one, and money
that stays on the account is that of jobs the operator is told about.
`SettledBeforeWithdrawal` says what the sleep buys: conversions that settle in
less time never make a withdrawal fail.

### Bounds

`MaxHead`, `MaxTime`, `MaxCrash`, `MaxSaveFail`, `MaxHeight` cap blocks, ticks,
crashes, failed saves and reported heights. With one confirmation four blocks
hold a deposit, its confirmation, a lagging node and a later scan; three are
enough for a frontier to move past a deposit (`sweep_live`); two ticks
with a retention of one let a record age out after its pass. A second crash or
failed save repeats the first. Two entries or two transfers are enough for
every interaction of scans, since scans meet only in a minimum and a union. The
channel of one and two jobs are the smallest at which a full channel, a waiting
sender and completion out of order happen together. `Explorer` needs windows
shorter than, equal to and longer than a chunk, and an empty one. `Coinbase` has
two jobs, one with a fee, so that gross and net amounts differ and one job can
spend the other's money; latencies below and above the life of a token;
conversions that settle within the sleep and just not; and the USD account
configured, within the limit of the list and beyond it. `MaxRuns` and `MaxKills`
of `Process` allow a run that is killed in its save, one that overlaps it, and
one that finds what they left; there is one configuration for every check
that can fail. One tick with a threshold of zero makes the data of an earlier
run recent or stale. The process symmetry of `sweep_safety` and `process` is
sound as no constant names a process; it is not used with liveness.

### Fairness

`Sweep`: cron starts processes for ever and steps of a process are not delayed
for ever (weak fairness of `Step`). Calls that may fail succeed again and again
if tried again and again (strong fairness of the lock, the load, the height, and
of a scan that gets to the end of its window); sales and withdrawals get no
such assumption, as a failed one is recorded and counts as handled. There is
none on crashes, which are bounded. `DepositCheck`: the runtime polls every
future that can go on, time passes, cron goes on. `Coinbase`: the runtime
polls the jobs, every request is served or refused, conversions settle and time
passes; nothing is assumed about credits or about answers being good. All
assume that calls return. The code does not force that, as no request has a timeout:
`check_silent_node` drops the assumption for nodes, and the pass no longer ends.

## Proofs

Every theorem holds for all values of the constants, under the assumptions named
in the modules and nothing else. Each follows the same plan: an inductive
invariant is first checked by TLC, then `Init => Inv`,
`Inv /\ [Next]_vars => Inv'` and `Inv => Property` are proved, the second one
action by action.

### `SweepProofs`

For every set of chains, entries, transfers and processes and all bounds:

- `TypeCorrect`: `Spec => []TypeOK`;
- `LockCorrect`: one process past the lock, whose loaded state equals the file
  for the length of its pass;
- `FinalityCorrect`, `OnlyFinalSoldHolds`: heights trail the chain, so a deposit
  with enough confirmations at a lagging height is final, stays final, and only
  such deposits become jobs; frontiers are settled;
- `CoverCorrect`, `FrontierCoversHolds`: a scan that reports a frontier has each
  deposit of its window up to there in the loaded dedup set or among the jobs;
  the chain's frontier is below that of each of its scans; so the merge covers
  the new frontier. Finality is needed, since a reorganization below the
  frontier would undo this, and so is `LogLag <= confirmation_blocks`;
- `JobsCorrect`, `SalesCorrect`, `SoldOnceHolds`, `WithdrawBackedHolds`, for
  entries with distinct addresses (`DistinctEntries`): a sale not lost is in the
  state file or belongs to a job of the running pass that is past `queued`, so no
  job for the same transaction can be sold again;
- `HashesOnlyPrunedHolds`: from the lock;
- `PaidCorrect`, `InitiatedIsPaidHolds`: a job becomes `initiated` only in the
  step in which Coinbase pays, and records come from jobs;
- `AuditCorrect`, `AuditMatchesDedupHolds`, if the eight characters of `make_id`
  tell transactions apart (`UniquePrefixes`) and no transaction pays two entries
  (`OneEntryPerTx`): there is one record to a hash in the file and one job to a
  transaction in a pass, so the merge adds a record with each hash and pruning
  takes no hash that another record still has.

The invariants above are inductive only together, in this order: types and
lock, then finality, cover, jobs, sales, payments and the audit trail. Their
conjunction is `IndInv`, proved as `IndInvHolds` and checked by `sweep_live`.

Both hypotheses of `AuditMatchesDedupHolds` are needed. Colliding prefixes make
two deposits share a record. And when one transaction pays two entries, its two
jobs can end on different dates: they leave two records with one hash, the older
ages out first and takes the hash along while the younger record stays (TLC finds
this within two ticks when `OneEntryPerTx` is dropped). `sweep_safety` has one
transfer to a transaction and so satisfies them.

### `DepositCheckProofs`

For every configuration, ledger, channel capacity and number of jobs above zero:

- `TypeCorrect`: the channel keeps its bound, and `U64Max` is never a frontier;
- `SumIsClosed` (in `ChainResultProofs`): the fold `Sum` is, over any finite
  family of scans, the union of the hashes and None or the least frontier.
  `SumAgreesHolds` applies it to the scans of a chain. The fold of the community
  modules is a `CHOOSE` of a recursive function; the closed form is shown to
  satisfy its equation, and a set on which the two differ has, being finite, a
  minimal one, which contradicts that equation;
- `SendCorrect`, `WorkCorrect`, `SentAccountedHolds`: `scan_dedup` lets a scan
  send a hash once, a scan has only receives of its own chain and entry, so no
  deposit is sent twice in a pass; queue, jobs and results are therefore disjoint
  and free of repetition, and the cardinalities add up;
- `EndCorrect`, `MergeCompleteHolds`: when all checks have returned and the
  worker is done, everything sent has a result, and each hash of a scan was sent;
- `WindowCorrect`, `NothingLeftBehindHolds`: a scan that is past its fetch has,
  for each eligible receive between the frontier it started from and the one it
  reached, the receive still before it, or its hash among those sent, or in the
  persisted set; `ScanFrontier` stays below the confirmation floor, so nothing
  below it was skipped as unconfirmed;
- `SendersCorrect`, `NoDeadlockHolds`: only chain checks that have not returned
  keep the channel open, so when nothing is queued, in flight or scanning, the
  worker ends and the pass is merged.

Assumptions: `ConfigAssumption`, `LedgerAssumption` and `PassAssumption`. The
last one says that there are finitely many entries (a `Vec` of the
configuration) and that no height is `u64::MAX`.

### `CoinbaseProofs`

For any jobs, amounts, fees, delays, latencies and settlement times:

- `TypeCorrect`: balances stay natural numbers; a token is as old as its request;
- `EffectCorrect`, `Refinement`: `Spec => ImplementsContract`. An accepted answer
  to a commit or a withdrawal means that the effect happened, once, and nothing
  is withdrawn before the sale was seen. Each step of a client maps to a step of
  `LiquidationContract` or to a stutter, as does everything Coinbase does;
- `SettledBeforeWithdrawalHolds`: while a job sleeps, the age of its trade and
  the rest of the delay add up to at least the delay;
- `BooksBalance`: what was credited is there or was sold, what settled is there or
  was paid out. `OnlyFailedStrandedHolds` follows, with the effects: once all is
  settled the jobs sold and not paid out are failed ones. `SumLemmas` has what is
  needed of sums over finite sets (adding an element, sets that differ by one);
- `EarlyCorrect`, `FailuresHaveACauseHolds`: a job sold or paid before its own
  money is there carries that fault. If no job does, the books balance to enough
  for whoever is next, so a refusal has a fault of its own.

The assumption is `CoinbaseAssumption` (natural numbers, fees below amounts, a
list with at least one place).

### `ProcessProofs`

For any number of processes, runs and kills and any set of configurations:

- `TypeCorrect`: types; a process that ended or was killed holds no lock;
- `LockCorrect`: no two processes are past the lock;
- `DiskCorrect`: under the lock the memory of a process is the file, later the
  file and its own pass; what is about to be renamed is whole and is that memory;
  a run is in the file from its rename on, not before. `FinishedIsSavedHolds` and
  `AtomicStateHolds` (the refinement of `StateRegister`) follow: only a rename
  changes the file, and it adds one pass;
- `NothingUntoldHolds`: what went wrong is told or among the errors to report,
  but for a failed chain that was not stale. Then the state in memory, which is
  the file's under the lock, has a run that polled the chain recently, and no
  later step takes that run out of the file or changes its time. So a poll that
  was lost with a kill or a failed save never silences a failure;
- `AddressesParseHolds`: what a process works with passed `load`, which is at
  least as strict as the explorer's parser.

### `ExplorerProofs`

For every chunk size, window and set of logs: `TypeCorrect`, `LoopInv`,
bounded requests, errors without progress, and `Refinement`:
`Spec => ImplementsContract`. The assumption is that no height is `u64::MAX`, at
which the loop would not end.

### Only model-checked

Liveness: `DepositsHandled`, `PassEnds`, `OutageReported`, `JobsEnd`, `Returns`.
They rest on fairness, whose `ENABLED` the prover does not handle. `NoDeadlock`
is the part of `PassEnds` that is a safety property. The violated statements
are refuted by TLC's traces. Every invariant and every refinement of the passing
runs has a theorem.

## Not modelled

Signing and encoding of tokens, JSON and TOML beyond what parses and what does
not, number formats, delivery of messages by Telegram, retries inside the HTTP
provider, decoding of logs, logging, the test support. Each is pure computation
or I/O that shows up in the models as a call that may fail. What a file system
keeps after a loss of power is not determined by the code.

## Plan

1. Done: `DepositRules`, `Sweep`, `DepositCheck`, `ChainResult`, `Explorer`
   with its contract; proofs of `Sweep` and `Explorer`.
2. Done: `Coinbase` with `LiquidationContract`, `Process` with `StateRegister`.
3. Done: proofs about `Process`, `Coinbase` and `DepositCheck`, refinements
   included, and about the audit trail in `Sweep`.
4. Left: conditions under which the violated statements do hold, as theorems: no
   second sale at all without crashes, failed saves and outages longer than the
   retention period; every transfer handled when transactions pay once.

-------------------------------- MODULE Sweep --------------------------------
(***************************************************************************)
(* The life of a cryptosweep deployment: cron starts processes, one of     *)
(* them takes the file lock, loads the state file, scans every chain,      *)
(* sells and withdraws what it found, merges the results, prunes and saves *)
(* the state file, and exits. Meanwhile the chains grow and reorganize,    *)
(* nodes answer late, partially or not at all, Coinbase calls fail before  *)
(* or after they took effect, and a process can die at any step.           *)
(*                                                                         *)
(* One pass is modelled at the grain of its external calls. Its channel,   *)
(* its worker and its alerts are left to a module of their own: here a     *)
(* queued deposit may be liquidated at any later step of the pass.         *)
(***************************************************************************)
EXTENDS DepositRules

CONSTANTS
  Proc,          \* process slots that cron can start
  HeightLag,     \* a node's block height is at most this far behind the chain
  LogLag,        \* a node's logs are at most this far behind the chain
  PassTicks,     \* a deposit is liquidated and saved within this many ticks
  MaxHead,       \* bound: blocks per chain
  MaxTime,       \* bound: clock ticks
  MaxCrash,      \* bound: processes killed
  MaxSaveFail    \* bound: failed saves

\* What confirmation_blocks has to be chosen for: a block that deep is in
\* every node's logs. And a pass is shorter than the retention period.
ASSUME EnvironmentAssumption ==
  /\ HeightLag \in Nat
  /\ LogLag \in Nat
  /\ \A c \in Chain : LogLag <= confirmation_blocks_for(c)
  /\ PassTicks \in 0 .. Retention
  /\ MaxHead \in Nat /\ MaxTime \in Nat
  /\ MaxCrash \in Nat /\ MaxSaveFail \in Nat

VARIABLES
  head,       \* [Chain -> Nat]: newest block of each chain
  block,      \* [TxHash -> Nat]: block of each transaction, 0 if in none
  now,        \* the clock, Utc::now()
  sold,       \* [Transfer -> Nat]: sales Coinbase executed for a transfer
  paid,       \* [Transfer -> Nat]: withdrawals Coinbase initiated for it
  lock,       \* processes holding the lock file's advisory lock
  disk,       \* the state file
  pc,         \* where each process is
  mem,        \* the PersistedState each process loaded
  stage,      \* where each chain's check is: height, scan, done
  height,     \* current_block of each chain's check
  fetched,    \* config entries whose scan of the chain has ended
  frontier,   \* confirmed_frontier of each scan, an Option
  jobs,       \* deposits sent to the worker, and how far each one got
  crashes, saveFails,
  handled,    \* history: transfers whose liquidation a saved pass recorded
  lost        \* history: hashes the state file never received, or pruned

chainVars   == <<head, block, now>>
coinbaseVars == <<sold, paid>>
passVars    == <<stage, height, fetched, frontier, jobs>>
procVars    == <<pc, mem, lock>>
boundVars   == <<crashes, saveFails>>
historyVars == <<handled, lost>>
vars == <<chainVars, coinbaseVars, passVars, procVars, disk, boundVars,
          historyVars>>

JobState == {"queued", "sold", "initiated", "failed"}

\* EligibleDeposit on its way through the worker. amount, address and payment
\* method follow from the entry and the transfer.
Job == [entry : Entry, transfer : Transfer, processed_at : Nat,
        state : JobState]

Init ==
  /\ head = [c \in Chain |-> 0]
  /\ block = [x \in TxHash |-> 0]
  /\ now = 0
  /\ sold = [t \in Transfer |-> 0]
  /\ paid = [t \in Transfer |-> 0]
  /\ lock = {}
  /\ disk = DefaultState
  /\ pc = [p \in Proc |-> "off"]
  /\ mem = [p \in Proc |-> DefaultState]
  /\ stage = [p \in Proc |-> [c \in Chain |-> "height"]]
  /\ height = [p \in Proc |-> [c \in Chain |-> 0]]
  /\ fetched = [p \in Proc |-> [c \in Chain |-> {}]]
  /\ frontier = [p \in Proc |-> [c \in Chain |-> [e \in Entry |-> {}]]]
  /\ jobs = [p \in Proc |-> {}]
  /\ crashes = 0
  /\ saveFails = 0
  /\ handled = {}
  /\ lost = {}

-----------------------------------------------------------------------------
(* The chains and the clock (external).                                    *)

\* A transaction buried under the configured number of confirmations.
Final(x) ==
  /\ block[x] # 0
  /\ head[chain_of[x]] - block[x] >= confirmation_blocks_for(chain_of[x])

\* A new block with some of the pending transactions.
Extend(c, S) ==
  /\ head[c] < MaxHead
  /\ head' = [head EXCEPT ![c] = @ + 1]
  /\ block' = [x \in TxHash |-> IF x \in S THEN head[c] + 1 ELSE block[x]]
  /\ UNCHANGED <<now, coinbaseVars, passVars, procVars, disk, boundVars,
                 historyVars>>

\* A reorganization of blocks that are not final yet moves a transaction to
\* another of them, or back to the pending ones.
Reorg(x) ==
  LET c == chain_of[x]
      suffix == {b \in 1 .. head[c] : head[c] - b < confirmation_blocks_for(c)}
  IN  /\ block[x] \in suffix
      /\ \E b \in suffix \cup {0} : block' = [block EXCEPT ![x] = b]
      /\ UNCHANGED <<head, now, coinbaseVars, passVars, procVars, disk,
                     boundVars, historyVars>>

\* The clock moves on, and every chain grows meanwhile. A
\* pass does not outlive PassTicks of them.
Tick ==
  /\ now < MaxTime
  /\ \A c \in Chain : head[c] < MaxHead
  /\ \A p \in Proc : \A j \in jobs[p] : now < j.processed_at + PassTicks
  /\ now' = now + 1
  /\ head' = [c \in Chain |-> head[c] + 1]
  /\ UNCHANGED <<block, coinbaseVars, passVars, procVars, disk, boundVars,
                 historyVars>>

-----------------------------------------------------------------------------
(* main.rs and persistence.rs: start, lock, load.                          *)

Start(p) ==
  /\ pc[p] = "off"
  /\ pc' = [pc EXCEPT ![p] = "start"]
  /\ UNCHANGED <<chainVars, coinbaseVars, passVars, mem, lock, disk, boundVars,
                 historyVars>>

\* Faulty variant: a lock that two processes can hold.
SharedLock == TRUE

\* try_lock_exclusive succeeds.
LockFree == lock = {}

acquire_lock(p) ==
  /\ pc[p] = "start"
  /\ LockFree
  /\ lock' = lock \cup {p}
  /\ pc' = [pc EXCEPT ![p] = "locked"]
  /\ UNCHANGED <<chainVars, coinbaseVars, passVars, mem, disk, boundVars,
                 historyVars>>

\* Any error of acquire_lock, the lock held or the file not opened, is taken
\* for another instance: notify and exit(0).
LockBusy(p) ==
  /\ pc[p] = "start"
  /\ pc' = [pc EXCEPT ![p] = "off"]
  /\ UNCHANGED <<chainVars, coinbaseVars, passVars, mem, lock, disk, boundVars,
                 historyVars>>

\* The state file is read and every chain's check begins.
load_state(p) ==
  /\ pc[p] = "locked"
  /\ mem' = [mem EXCEPT ![p] = disk]
  /\ pc' = [pc EXCEPT ![p] = "pass"]
  /\ UNCHANGED <<chainVars, coinbaseVars, passVars, lock, disk, boundVars,
                 historyVars>>

\* An unreadable state file or a Coinbase client that cannot be built is
\* fatal: notify and exit(1).
RunFails(p) ==
  /\ pc[p] = "locked"
  /\ pc' = [pc EXCEPT ![p] = "exit"]
  /\ UNCHANGED <<chainVars, coinbaseVars, passVars, mem, lock, disk, boundVars,
                 historyVars>>

-----------------------------------------------------------------------------
(* orchestrator.rs: ChainDepositCheck::run and address_scan.               *)

Since(p, c) == since_block(mem[p].last_seen_block[c], c)

\* The height is known; a chain without a scan window is skipped.
get_block_height(p, c) ==
  /\ pc[p] = "pass"
  /\ stage[p][c] = "height"
  /\ \E b \in SaturatingSub(head[c], HeightLag) .. head[c] :
        height' = [height EXCEPT ![p][c] = b]
  /\ stage' = [stage EXCEPT ![p][c] = IF Since(p, c) = {} THEN "done"
                                                          ELSE "scan"]
  /\ UNCHANGED <<chainVars, coinbaseVars, fetched, frontier, jobs, procVars,
                 disk, boundVars, historyVars>>

\* No height, no scan: the chain's result has frontier None.
HeightFails(p, c) ==
  /\ pc[p] = "pass"
  /\ stage[p][c] = "height"
  /\ stage' = [stage EXCEPT ![p][c] = "done"]
  /\ UNCHANGED <<chainVars, coinbaseVars, height, fetched, frontier, jobs,
                 procVars, disk, boundVars, historyVars>>

Scanning(p, c, e) ==
  /\ pc[p] = "pass"
  /\ stage[p][c] = "scan"
  /\ e \in Entry \ fetched[p][c]

\* The logs a node that has seen the chain up to block v returns: those of the
\* chain as it is now, never of an abandoned fork.
Receives(c, e, since, to, v) ==
  {t \in Transfer :
     /\ chain_of[tx_of[t]] = c
     /\ recipient[t] = entry_address[e]
     /\ block[tx_of[t]] # 0
     /\ block[tx_of[t]] \in since .. to
     /\ block[tx_of[t]] <= v}

NewJob(e, t) ==
  [entry |-> e, transfer |-> t, processed_at |-> now, state |-> "queued"]

\* A scan whose fetch got to block f queues what is eligible.
ScanTo(p, c, e, f) ==
  /\ Scanning(p, c, e)
  /\ \E since \in Since(p, c), v \in SaturatingSub(head[c], LogLag) .. head[c] :
       /\ f \in FetchFrontiers(since, height[p][c])
       /\ \E picked \in OnePerHash(
              {t \in Receives(c, e, since, f, v) :
                 Eligible(mem[p].processed_tx_hashes, height[p][c], t,
                          block[tx_of[t]])}) :
            jobs' = [jobs EXCEPT ![p] = @ \cup {NewJob(e, t) : t \in picked}]
  /\ fetched' = [fetched EXCEPT ![p][c] = @ \cup {e}]
  /\ frontier' = [frontier EXCEPT ![p][c][e] =
                    {ScanFrontier(f, height[p][c], c)}]
  /\ UNCHANGED <<chainVars, coinbaseVars, stage, height, procVars, disk,
                 boundVars, historyVars>>

address_scan(p, c, e) == \E f \in 0 .. height[p][c] : ScanTo(p, c, e, f)

\* The fetch failed without progress: frontier None.
ScanFails(p, c, e) ==
  /\ Scanning(p, c, e)
  /\ fetched' = [fetched EXCEPT ![p][c] = @ \cup {e}]
  /\ UNCHANGED <<chainVars, coinbaseVars, stage, height, frontier, jobs,
                 procVars, disk, boundVars, historyVars>>

-----------------------------------------------------------------------------
(* cbworker.rs: liquidate_pipeline, one step per Coinbase call.            *)

MoveJob(p, j, s) ==
  jobs' = [jobs EXCEPT ![p] = (@ \ {j}) \cup {[j EXCEPT !.state = s]}]

\* Above max_auto_amount a deposit is recorded as failed and not sold.
RejectLarge(p, j) ==
  /\ j.state = "queued"
  /\ amount[j.transfer] > max_auto_amount
  /\ MoveJob(p, j, "failed")
  /\ UNCHANGED <<chainVars, coinbaseVars, stage, height, fetched, frontier,
                 procVars, disk, boundVars, historyVars>>

Sellable(j) ==
  /\ j.state = "queued"
  /\ amount[j.transfer] <= max_auto_amount

sell_usdc(p, j) ==
  /\ Sellable(j)
  /\ sold' = [sold EXCEPT ![j.transfer] = @ + 1]
  /\ MoveJob(p, j, "sold")
  /\ UNCHANGED <<chainVars, paid, stage, height, fetched, frontier, procVars,
                 disk, boundVars, historyVars>>

\* An error, before the commit or after it took effect at Coinbase.
SellFails(p, j) ==
  /\ Sellable(j)
  /\ \E effect \in {0, 1} : sold' = [sold EXCEPT ![j.transfer] = @ + effect]
  /\ MoveJob(p, j, "failed")
  /\ UNCHANGED <<chainVars, paid, stage, height, fetched, frontier, procVars,
                 disk, boundVars, historyVars>>

\* Faulty variant: the withdrawal does not wait for the sale.
WithdrawableEarly(j) == j.state \in {"queued", "sold"}

Withdrawable(j) == j.state = "sold"

withdraw_usd(p, j) ==
  /\ Withdrawable(j)
  /\ paid' = [paid EXCEPT ![j.transfer] = @ + 1]
  /\ MoveJob(p, j, "initiated")
  /\ UNCHANGED <<chainVars, sold, stage, height, fetched, frontier, procVars,
                 disk, boundVars, historyVars>>

\* Faulty variant: the error of the withdrawal is ignored.
WithdrawErrorIgnored(p, j) ==
  /\ Withdrawable(j)
  /\ \E effect \in {0, 1} : paid' = [paid EXCEPT ![j.transfer] = @ + effect]
  /\ MoveJob(p, j, "initiated")
  /\ UNCHANGED <<chainVars, sold, stage, height, fetched, frontier, procVars,
                 disk, boundVars, historyVars>>

WithdrawFails(p, j) ==
  /\ Withdrawable(j)
  /\ \E effect \in {0, 1} : paid' = [paid EXCEPT ![j.transfer] = @ + effect]
  /\ MoveJob(p, j, "failed")
  /\ UNCHANGED <<chainVars, sold, stage, height, fetched, frontier, procVars,
                 disk, boundVars, historyVars>>

Liquidate(p) ==
  /\ pc[p] = "pass"
  /\ \E j \in jobs[p] :
       \/ RejectLarge(p, j) \/ sell_usdc(p, j) \/ SellFails(p, j)
       \/ withdraw_usd(p, j) \/ WithdrawFails(p, j)

-----------------------------------------------------------------------------
(* The end of a pass: merge, prune, save, exit.                            *)

ChainDone(p, c) ==
  stage[p][c] = "done" \/ (stage[p][c] = "scan" /\ fetched[p][c] = Entry)

PassDone(p) ==
  /\ pc[p] = "pass"
  /\ \A c \in Chain : ChainDone(p, c)
  /\ \A j \in jobs[p] : j.state \in {"initiated", "failed"}

Record(j) == BankPayment(j.processed_at, j.transfer, j.state)

JobTxs(p) == {tx_of[j.transfer] : j \in jobs[p]}

\* BTreeMap::insert keeps one record per id, the last of the pass to finish;
\* which one that is among equal ids is left open.
OnePerId(records) ==
  {S \in SUBSET records :
     /\ \A r, q \in S : r.id = q.id => r = q
     /\ \A r \in records : \E q \in S : q.id = r.id}

\* Faulty variant: a chain without a new frontier loses the one it had.
OverwriteSeen(old, new) == new

\* Only a chain that reports a frontier has its entry replaced.
MergeSeen(old, new) == IF new = {} THEN old ELSE new

\* DepositCheck::run after the join, for the records kept per id.
Merged(p, kept) ==
  [bank_payments |->
     {r \in mem[p].bank_payments : \A q \in kept : q.id # r.id} \cup kept,
   processed_tx_hashes |-> mem[p].processed_tx_hashes \cup JobTxs(p),
   last_seen_block |->
     [c \in Chain |-> MergeSeen(mem[p].last_seen_block[c],
                                SumFrontier(frontier[p][c]))]]

save_state(p) ==
  /\ PassDone(p)
  /\ \E kept \in OnePerId({Record(j) : j \in jobs[p]}) :
       LET merged == Merged(p, kept)
           pruned == prune_stale_entries(merged, now)
       IN  /\ disk' = pruned
           /\ lost' = lost \cup (merged.processed_tx_hashes
                                   \ pruned.processed_tx_hashes)
  /\ handled' = handled \cup {j.transfer : j \in jobs[p]}
  /\ pc' = [pc EXCEPT ![p] = "exit"]
  /\ UNCHANGED <<chainVars, coinbaseVars, passVars, mem, lock, boundVars>>

\* A failed save is reported and not fatal: the results of the pass are gone.
SaveFails(p) ==
  /\ PassDone(p)
  /\ saveFails < MaxSaveFail
  /\ saveFails' = saveFails + 1
  /\ lost' = lost \cup JobTxs(p)
  /\ pc' = [pc EXCEPT ![p] = "exit"]
  /\ UNCHANGED <<chainVars, coinbaseVars, passVars, mem, lock, disk, crashes,
                 handled>>

\* A process is gone: its memory with it, and its lock released.
Gone(p) ==
  /\ lock' = lock \ {p}
  /\ pc' = [pc EXCEPT ![p] = "off"]
  /\ mem' = [mem EXCEPT ![p] = DefaultState]
  /\ stage' = [stage EXCEPT ![p] = [c \in Chain |-> "height"]]
  /\ height' = [height EXCEPT ![p] = [c \in Chain |-> 0]]
  /\ fetched' = [fetched EXCEPT ![p] = [c \in Chain |-> {}]]
  /\ frontier' = [frontier EXCEPT ![p] =
                    [c \in Chain |-> [e \in Entry |-> {}]]]
  /\ jobs' = [jobs EXCEPT ![p] = {}]

Exit(p) ==
  /\ pc[p] = "exit"
  /\ Gone(p)
  /\ UNCHANGED <<chainVars, coinbaseVars, disk, boundVars, historyVars>>

Crash(p) ==
  /\ pc[p] \in {"locked", "pass"}
  /\ crashes < MaxCrash
  /\ crashes' = crashes + 1
  /\ lost' = lost \cup JobTxs(p)
  /\ Gone(p)
  /\ UNCHANGED <<chainVars, coinbaseVars, disk, saveFails, handled>>

-----------------------------------------------------------------------------

Environment ==
  \/ \E c \in Chain :
       \E S \in SUBSET {x \in TxHash : chain_of[x] = c /\ block[x] = 0} :
         Extend(c, S)
  \/ \E x \in TxHash : Reorg(x)
  \/ Tick

Step(p) ==
  \/ Start(p) \/ acquire_lock(p) \/ LockBusy(p) \/ load_state(p) \/ RunFails(p)
  \/ \E c \in Chain :
       \/ get_block_height(p, c) \/ HeightFails(p, c)
       \/ \E e \in Entry : address_scan(p, c, e) \/ ScanFails(p, c, e)
  \/ Liquidate(p)
  \/ save_state(p) \/ SaveFails(p) \/ Exit(p)

Next ==
  \/ Environment
  \/ \E p \in Proc : Step(p) \/ Crash(p)

Spec == Init /\ [][Next]_vars

\* Cron keeps starting processes and every call of a process returns. A call
\* to a node that is tried again and again succeeds again and again, with a
\* whole scan; the lock file can be opened and the state file read again and
\* again.
Fairness ==
  \A p \in Proc :
    /\ WF_vars(Step(p))
    /\ SF_vars(acquire_lock(p)) /\ SF_vars(load_state(p))
    /\ \A c \in Chain :
         /\ SF_vars(get_block_height(p, c))
         /\ \A e \in Entry : SF_vars(ScanTo(p, c, e, height[p][c]))

LiveSpec == Spec /\ Fairness

-----------------------------------------------------------------------------
(* Properties.                                                             *)

\* Types of all the variables; block numbers and frontiers never go below
\* zero, which is what the saturating subtractions are for.
TypeOK ==
  /\ head \in [Chain -> Nat] /\ block \in [TxHash -> Nat] /\ now \in Nat
  /\ sold \in [Transfer -> Nat] /\ paid \in [Transfer -> Nat]
  /\ lock \subseteq Proc
  /\ disk \in PersistedState
  /\ pc \in [Proc -> {"off", "start", "locked", "pass", "exit"}]
  /\ mem \in [Proc -> PersistedState]
  /\ stage \in [Proc -> [Chain -> {"height", "scan", "done"}]]
  /\ height \in [Proc -> [Chain -> Nat]]
  /\ fetched \in [Proc -> [Chain -> SUBSET Entry]]
  /\ frontier \in [Proc -> [Chain -> [Entry -> SUBSET Nat]]]
  /\ jobs \in [Proc -> SUBSET Job]
  /\ crashes \in Nat /\ saveFails \in Nat
  /\ handled \subseteq Transfer /\ lost \subseteq TxHash

\* A transfer the configuration asks to be liquidated: to one of the monitored
\* addresses, not dust, mined at or after the configured start block.
Monitored(t) ==
  /\ \E e \in Entry : recipient[t] = entry_address[e]
  /\ NotDust(t)
  /\ block[tx_of[t]] # 0
  /\ \E s \in start_block_for(chain_of[tx_of[t]]) : block[tx_of[t]] >= s

\* The saved frontier never moves past a deposit: every monitored transfer at
\* or below last_seen_block has had its transaction handled by a saved pass.
\* This is what the minimum over scans, the absorbing None and the cap at the
\* confirmation floor are for: a block left behind is never scanned again.
FrontierCovers ==
  \A t \in Transfer :
    \A b \in disk.last_seen_block[chain_of[tx_of[t]]] :
      Monitored(t) /\ block[tx_of[t]] <= b
        => \E u \in handled : tx_of[u] = tx_of[t]

\* A deposit is sold at most once, unless the pass that sold it died or failed
\* to save, or its hash was pruned: what processed_tx_hashes and the lock
\* promise together, for entries with distinct addresses.
SoldOnceUnlessLost ==
  \A t \in Transfer : sold[t] > 1 => tx_of[t] \in lost

\* No sale for a transaction that a reorganization can still undo.
OnlyFinalSold ==
  \A t \in Transfer : sold[t] > 0 => Final(tx_of[t])

\* No withdrawal without a sale: Coinbase never pays out more often for a
\* transfer than it sold for it, whichever calls fail.
WithdrawBacked == \A t \in Transfer : paid[t] <= sold[t]

\* Every hash in the dedup set has an audit record, so that pruning the record
\* lets go of the hash, and every record's hash is in the dedup set.
AuditMatchesDedup ==
  {r.deposit_tx_hash : r \in disk.bank_payments} = disk.processed_tx_hashes

\* A record that says "initiated" stands for a withdrawal that was made.
InitiatedIsPaid ==
  \A r \in disk.bank_payments : r.outcome = "initiated" =>
    \E t \in Transfer : tx_of[t] = r.deposit_tx_hash /\ paid[t] > 0

\* A hash leaves the state file only when a record of it is past the retention
\* period: no pass overwrites what another one saved.
HashesOnlyPruned ==
  [][\A x \in disk.processed_tx_hashes \ disk'.processed_tx_hashes :
       \E r \in disk.bank_payments :
         r.deposit_tx_hash = x /\ IsStale(r, now)]_vars

\* Every final monitored deposit is handled in the end, whatever calls fail on
\* the way.
DepositsHandled ==
  \A t \in Transfer :
    (Monitored(t) /\ Final(tx_of[t]))
      ~> (\E u \in handled : tx_of[u] = tx_of[t])

-----------------------------------------------------------------------------
(* What the documentation says of the program.                             *)

\* README: a deposit is never liquidated twice.
NeverLiquidatedTwice == \A t \in Transfer : sold[t] <= 1

\* PersistedState: a hash that a saved pass recorded as processed is never
\* sent to the worker again.
NeverReprocessed ==
  [][\A p \in Proc : \A j \in jobs'[p] \ jobs[p] : j.state = "queued" =>
       \A u \in handled : tx_of[u] # tx_of[j.transfer]]_vars

\* README: deposits are liquidated automatically. Each monitored transfer
\* below the frontier was sent to the worker itself.
EveryTransferHandled ==
  \A t \in Transfer :
    \A b \in disk.last_seen_block[chain_of[tx_of[t]]] :
      Monitored(t) /\ block[tx_of[t]] <= b => t \in handled

-----------------------------------------------------------------------------
(* The inductive strengthening of the safety properties.                   *)

\* A block no reorganization reaches any more.
Settled(c, b) == b = 0 \/ head[c] - b >= confirmation_blocks_for(c)

\* One process at a time is past the lock; during its pass the state file is
\* what it loaded; a process that has not loaded has found nothing.
LockInv ==
  /\ \A p, q \in lock : p = q
  /\ \A p \in Proc :
       /\ pc[p] \in {"locked", "pass", "exit"} => p \in lock
       /\ pc[p] = "pass" => mem[p] = disk
       /\ pc[p] \in {"off", "start", "locked"} =>
            /\ jobs[p] = {}
            /\ \A c \in Chain, e \in Entry : frontier[p][c][e] = {}

\* Whatever a process acts on is final: heights trail the chains, frontiers
\* are settled, and only final transactions are queued or sold.
FinalityInv ==
  /\ \A p \in Proc, c \in Chain : height[p][c] <= head[c]
  /\ \A p \in Proc, c \in Chain, e \in Entry :
       \A b \in frontier[p][c][e] : Settled(c, b)
  /\ \A c \in Chain : \A b \in disk.last_seen_block[c] : Settled(c, b)
  /\ \A p \in Proc : \A j \in jobs[p] : Final(tx_of[j.transfer])
  /\ OnlyFinalSold

\* Block b is covered by entry e's scan from block s: each of its deposits is
\* in the loaded dedup set or queued in this pass.
Covered(p, c, e, s, b) ==
  \A t \in Transfer :
    /\ chain_of[tx_of[t]] = c
    /\ recipient[t] = entry_address[e]
    /\ NotDust(t)
    /\ block[tx_of[t]] # 0
    /\ s <= block[tx_of[t]] /\ block[tx_of[t]] <= b
    => tx_of[t] \in mem[p].processed_tx_hashes \cup JobTxs(p)

CoverInv ==
  /\ \A x \in disk.processed_tx_hashes : \E u \in handled : tx_of[u] = x
  /\ FrontierCovers
  /\ \A p \in Proc : pc[p] = "pass" =>
       \A c \in Chain, e \in Entry : \A b \in frontier[p][c][e] :
         \E s \in Since(p, c) : Covered(p, c, e, s, b)

\* The jobs of a pass: each from the scan of its own entry, none of a
\* transaction the loaded state knows, and one to a transfer unless an address
\* is configured twice.
JobInv ==
  \A p \in Proc : \A j \in jobs[p] :
    /\ recipient[j.transfer] = entry_address[j.entry]
    /\ j.entry \in fetched[p][chain_of[tx_of[j.transfer]]]
    /\ pc[p] = "pass" => tx_of[j.transfer] \notin mem[p].processed_tx_hashes
    /\ DistinctEntries => \A k \in jobs[p] : k.transfer = j.transfer => k = j

\* Where the sales are that the state file does not know of: in a job of the
\* running pass. A sold job's withdrawal is still owed.
SaleInv ==
  /\ \A t \in Transfer : sold[t] > 0 /\ tx_of[t] \notin lost =>
       \/ tx_of[t] \in disk.processed_tx_hashes
       \/ \E p \in Proc : \E j \in jobs[p] :
            pc[p] = "pass" /\ j.transfer = t /\ j.state # "queued"
  /\ \A p \in Proc : \A j \in jobs[p] :
       pc[p] = "pass" /\ j.state = "sold" => paid[j.transfer] < sold[j.transfer]
  /\ SoldOnceUnlessLost
  /\ WithdrawBacked

\* No withdrawal is reported that was not made: neither in the file nor in a
\* pass that has yet to write its records.
PaidInv ==
  /\ InitiatedIsPaid
  /\ \A p \in Proc : \A j \in jobs[p] :
       j.state = "initiated" => paid[j.transfer] > 0

\* The first eight characters of a hash tell the transactions apart.
UniquePrefixes ==
  \A x, y \in TxHash : tx_prefix[x] = tx_prefix[y] => x = y

\* No transaction pays two configured entries.
OneEntryPerTx ==
  \A t, u \in Transfer, d, e \in Entry :
    /\ tx_of[t] = tx_of[u]
    /\ recipient[t] = entry_address[d] /\ recipient[u] = entry_address[e]
    => d = e

\* One record to a hash in the file and one job to a transaction in a pass, so
\* that pruning a record never takes the hash of another one along.
AuditInv ==
  /\ AuditMatchesDedup
  /\ \A r \in disk.bank_payments :
       r.id = make_id(r.processed_at, r.deposit_tx_hash)
  /\ \A r, q \in disk.bank_payments :
       r.deposit_tx_hash = q.deposit_tx_hash => r = q
  /\ \A p \in Proc : \A j, k \in jobs[p] :
       tx_of[j.transfer] = tx_of[k.transfer] => j = k

\* The conjunction is inductive. The part about sales needs entries with
\* distinct addresses, the part about the audit trail needs transactions that
\* are told apart by their prefix and pay one entry; the rest needs neither.
IndInv ==
  /\ TypeOK /\ LockInv /\ FinalityInv /\ CoverInv /\ JobInv /\ PaidInv
  /\ DistinctEntries => SaleInv
  /\ UniquePrefixes /\ OneEntryPerTx => AuditInv

=============================================================================

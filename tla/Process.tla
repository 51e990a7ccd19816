------------------------------- MODULE Process -------------------------------
(***************************************************************************)
(* main and run, step by step: configuration, notifier, lock, state file,  *)
(* pass, save and alert, for processes that cron starts while others may   *)
(* still run. The save is modelled at the grain of the file system: a      *)
(* temporary file is written and renamed. A process can be killed before   *)
(* any step, and the operator may edit the configuration at any time.      *)
(*                                                                         *)
(* The pass itself is one step here, known by the number of its run. Every *)
(* chain has its own time of the last poll; one chain is followed. Alerts  *)
(* are what the program tries to send; whether Telegram delivers them is   *)
(* not known to it. A killed process does not lose what the kernel already *)
(* has; a machine that loses power may, as nothing is synced to the disk.  *)
(***************************************************************************)
EXTENDS Integers

CONSTANTS
  Proc,         \* process slots that cron can start
  ConfigFile,   \* what the operator may write into config.toml
  CHAIN_STALE_THRESHOLD,        \* the six hours, in ticks
  MaxRuns,      \* bound: processes started
  MaxKills,     \* bound: processes killed
  MaxTime       \* bound: ticks

\* An address: its length, its prefix, and whether the rest is hexadecimal.
Address == [len : Nat, prefix : BOOLEAN, hex : BOOLEAN]

\* A configuration file, as far as the program's checks tell files apart: is it
\* there and TOML of the right shape, is the chat id a number, the secret a key?
CryptoSweepConfig ==
  [parses : BOOLEAN, deposit_addresses : SUBSET Address,
   coinbase_api_secret : BOOLEAN, telegram_chat_id : BOOLEAN]

ASSUME ProcessAssumption ==
  /\ ConfigFile \subseteq CryptoSweepConfig
  /\ CHAIN_STALE_THRESHOLD \in Nat
  /\ MaxRuns \in Nat /\ MaxKills \in Nat /\ MaxTime \in Nat

VARIABLES
  config_file,  \* config.toml
  file, tmp,    \* the state file and its temporary neighbour, Options
  lock,         \* processes holding the lock
  pc,           \* where each process is
  run,          \* the number of each process's run
  config,       \* the configuration each process loaded, an Option
  state,        \* the passes whose results each process has in memory
  updated_at,   \* [run -> when its pass polled the chain, an Option]: part of
                \* the run's results, in every state that has them
  errors,       \* what each process will report at its end
  trouble,      \* history: what went wrong in each process's run
  failed_at,    \* history: when each process's check of the chain failed
  told,         \* history: what each process tried to tell the operator
  now,          \* Utc::now(), which does not go back
  runs, kills

diskVars == <<config_file, file, tmp>>
runVars  == <<run, config, state>>
pollVars == <<updated_at, failed_at, now>>
newsVars == <<errors, trouble, told>>
vars == <<diskVars, lock, pc, runVars, pollVars, newsVars, runs, kills>>

Trouble == {"config", "chat_id", "lock", "load", "client", "deposit", "chain",
            "save"}

Locked == {"load", "client", "pass", "save", "write", "rename", "alert"}

Place == {"config", "notifier", "lock", "done", "killed"} \cup Locked

Time == 0 .. MaxTime

\* The contents of a file: whole JSON, or the beginning of it.
Whole(passes) == [whole |-> TRUE, passes |-> passes]
Partial == [whole |-> FALSE, passes |-> {}]

Init ==
  /\ config_file \in ConfigFile
  /\ file = {} /\ tmp = {}
  /\ lock = {}
  /\ pc = [p \in Proc |-> "done"]
  /\ run = [p \in Proc |-> 0]
  /\ config = [p \in Proc |-> {}]
  /\ state = [p \in Proc |-> {}]
  /\ errors = [p \in Proc |-> {}]
  /\ trouble = [p \in Proc |-> {}]
  /\ told = [p \in Proc |-> {}]
  /\ updated_at = [n \in 1 .. MaxRuns |-> {}]
  /\ failed_at = [p \in Proc |-> {}]
  /\ now = 0
  /\ runs = 0 /\ kills = 0

-----------------------------------------------------------------------------

Goto(p, place) == pc' = [pc EXCEPT ![p] = place]

At(p, from, to) == pc[p] = from /\ Goto(p, to)

\* The process ends, and the lock with its file handle.
End(p, place) ==
  /\ Goto(p, place)
  /\ lock' = lock \ {p}

Meets(p, what) == trouble' = [trouble EXCEPT ![p] = @ \cup what]

\* notify: whether it succeeds changes nothing.
Tells(p, what) == told' = [told EXCEPT ![p] = @ \cup what]

Edit ==
  /\ \E c \in ConfigFile : config_file' = c
  /\ UNCHANGED <<pollVars, file, tmp, lock, pc, runVars, newsVars, runs, kills>>

Tick ==
  /\ now < MaxTime
  /\ now' = now + 1
  /\ UNCHANGED <<updated_at, failed_at, diskVars, lock, pc, runVars, newsVars,
                 runs, kills>>

Start(p) ==
  /\ pc[p] \in {"done", "killed"}
  /\ runs < MaxRuns
  /\ runs' = runs + 1
  /\ run' = [run EXCEPT ![p] = runs + 1]
  /\ config' = [config EXCEPT ![p] = {}]
  /\ state' = [state EXCEPT ![p] = {}]
  /\ errors' = [errors EXCEPT ![p] = {}]
  /\ trouble' = [trouble EXCEPT ![p] = {}]
  /\ told' = [told EXCEPT ![p] = {}]
  /\ failed_at' = [failed_at EXCEPT ![p] = {}]
  /\ Goto(p, "config")
  /\ UNCHANGED <<diskVars, lock, updated_at, now, kills>>

-----------------------------------------------------------------------------
(* config.rs and notifier/mod.rs *)

\* Faulty variant: the digits are not looked at.
validate_length(a) == a.len = 42 /\ a.prefix

validate_eth_address(a) == a.len = 42 /\ a.prefix /\ a.hex

\* CryptoSweepConfig::load: a file that cannot be read, TOML of another shape,
\* no address, or one that is not valid, is an error.
load(c) ==
  /\ c.parses
  /\ c.deposit_addresses # {}
  /\ \A a \in c.deposit_addresses : validate_eth_address(a)

LoadConfig(p) ==
  /\ load(config_file)
  /\ config' = [config EXCEPT ![p] = {config_file}]
  /\ At(p, "config", "notifier")
  /\ UNCHANGED <<pollVars, diskVars, lock, run, state, newsVars, runs, kills>>

\* Logged only: there is no one to notify yet.
ConfigFails(p) ==
  /\ pc[p] = "config"
  /\ ~ load(config_file)
  /\ End(p, "done")
  /\ Meets(p, {"config"})
  /\ UNCHANGED <<pollVars, diskVars, runVars, errors, told, runs, kills>>

\* TelegramNotifier::new parses the chat id, and sends nothing.
NewNotifier(p) ==
  /\ \A c \in config[p] : c.telegram_chat_id
  /\ At(p, "notifier", "lock")
  /\ UNCHANGED <<pollVars, diskVars, lock, runVars, newsVars, runs, kills>>

NotifierFails(p) ==
  /\ pc[p] = "notifier"
  /\ \E c \in config[p] : ~ c.telegram_chat_id
  /\ End(p, "done")
  /\ Meets(p, {"chat_id"})
  /\ UNCHANGED <<pollVars, diskVars, runVars, errors, told, runs, kills>>

-----------------------------------------------------------------------------
(* The lock, and what run needs before its pass.                           *)

\* Faulty variant: a lock that two processes can hold.
SharedLock == TRUE

LockFree == lock = {}

acquire_lock(p) ==
  /\ LockFree
  /\ At(p, "lock", "load")
  /\ lock' = lock \cup {p}
  /\ UNCHANGED <<pollVars, diskVars, runVars, newsVars, runs, kills>>

\* The lock is held, or its file cannot be opened: notify, exit(0).
LockFails(p) ==
  /\ pc[p] = "lock"
  /\ End(p, "done")
  /\ Meets(p, {"lock"}) /\ Tells(p, {"lock"})
  /\ UNCHANGED <<pollVars, diskVars, runVars, errors, runs, kills>>

\* No state file is an empty state.
load_state(p) ==
  /\ \A f \in file : f.whole
  /\ state' = [state EXCEPT ![p] = UNION {f.passes : f \in file}]
  /\ At(p, "load", "client")
  /\ UNCHANGED <<pollVars, diskVars, lock, run, config, newsVars, runs, kills>>

\* LiveCoinbaseClient::new, for which parse_pem_key has to take the secret.
NewClient(p) ==
  /\ \A c \in config[p] : c.coinbase_api_secret
  /\ At(p, "client", "pass")
  /\ UNCHANGED <<pollVars, diskVars, lock, runVars, newsVars, runs, kills>>

\* An error of run: notify, exit(1).
Fatal(p, what) ==
  /\ End(p, "done")
  /\ Meets(p, {what}) /\ Tells(p, {what})
  /\ UNCHANGED <<pollVars, diskVars, runVars, errors, runs, kills>>

\* A partial file is no JSON; any other file may fail to be read.
LoadFails(p) == pc[p] = "load" /\ Fatal(p, "load")

ClientFails(p) ==
  /\ pc[p] = "client"
  /\ \E c \in config[p] : ~ c.coinbase_api_secret
  /\ Fatal(p, "client")

-----------------------------------------------------------------------------
(* The pass and its end.                                                   *)

\* When the passes in a state polled the chain. The state itself keeps the
\* latest of these times, as the clock does not go back.
Polls(passes) == UNION {updated_at[r] : r \in passes}

\* Faulty variant: a chain that was never seen is not stale.
NeverSeenIsRecent(p) ==
  /\ Polls(state[p]) # {}
  /\ \A u \in Polls(state[p]) : now - u > CHAIN_STALE_THRESHOLD

is_chain_stale(p) ==
  \A u \in Polls(state[p]) : now - u > CHAIN_STALE_THRESHOLD

\* A failed deposit is reported at once. A failed check of the chain is reported
\* at the end if the chain is stale, else only logged. A check that gets a
\* frontier sets updated_at; one without a start block that was never seen is
\* skipped. The results are merged into the state and old entries pruned.
Pass(p, bad, seen) ==
  /\ At(p, "pass", "save")
  /\ IF "chain" \in bad THEN seen = {}
     ELSE seen = {now} \/ Polls(state[p]) = {}
  /\ state' = [state EXCEPT ![p] = @ \cup {run[p]}]
  /\ updated_at' = [updated_at EXCEPT ![run[p]] = seen]
  /\ failed_at' = [failed_at EXCEPT ![p] = {t \in {now} : "chain" \in bad}]
  /\ Meets(p, bad)
  /\ Tells(p, bad \cap {"deposit"})
  /\ errors' = [errors EXCEPT ![p] =
                  {what \in bad \cap {"chain"} : is_chain_stale(p)}]
  /\ UNCHANGED <<diskVars, lock, run, config, now, runs, kills>>

\* Faulty variant: the state file itself is opened and truncated.
TruncateFile(p) ==
  /\ At(p, "save", "write")
  /\ file' = {Partial}
  /\ UNCHANGED <<config_file, tmp, lock, runVars, pollVars, newsVars, runs,
                 kills>>

\* create_dir_all, and the temporary file opened and truncated.
TruncateTmp(p) ==
  /\ At(p, "save", "write")
  /\ tmp' = {Partial}
  /\ UNCHANGED <<config_file, file, lock, runVars, pollVars, newsVars, runs,
                 kills>>

WriteTmp(p) ==
  /\ At(p, "write", "rename")
  /\ tmp' = {Whole(state[p])}
  /\ UNCHANGED <<config_file, file, lock, runVars, pollVars, newsVars, runs,
                 kills>>

Rename(p) ==
  /\ tmp # {}
  /\ At(p, "rename", "alert")
  /\ file' = tmp
  /\ tmp' = {}
  /\ UNCHANGED <<pollVars, config_file, lock, runVars, newsVars, runs, kills>>

\* Faulty variant: the error of the save is logged only.
SaveErrorLogged(p) ==
  /\ pc[p] \in {"save", "write", "rename"}
  /\ Goto(p, "alert")
  /\ Meets(p, {"save"})
  /\ UNCHANGED <<pollVars, diskVars, lock, runVars, errors, told, runs, kills>>

\* Any step of the save fails: its error joins those of the pass, and the
\* temporary file stays as it is.
SaveFails(p) ==
  /\ pc[p] \in {"save", "write", "rename"}
  /\ Goto(p, "alert")
  /\ Meets(p, {"save"})
  /\ errors' = [errors EXCEPT ![p] = @ \cup {"save"}]
  /\ UNCHANGED <<pollVars, diskVars, lock, runVars, told, runs, kills>>

\* One message with all the errors, if there are any; then main returns.
Alert(p) ==
  /\ pc[p] = "alert"
  /\ End(p, "done")
  /\ Tells(p, errors[p])
  /\ UNCHANGED <<pollVars, diskVars, runVars, errors, trouble, runs, kills>>

\* Faulty variant: a lock that is a file, left behind by a killed process.
LeavesLock(p) ==
  /\ pc[p] \notin {"done", "killed"}
  /\ kills < MaxKills
  /\ kills' = kills + 1
  /\ Goto(p, "killed")
  /\ UNCHANGED <<pollVars, diskVars, lock, runVars, newsVars, runs>>

\* The kernel closes the files of a killed process, and so frees the lock.
Kill(p) ==
  /\ pc[p] \notin {"done", "killed"}
  /\ kills < MaxKills
  /\ kills' = kills + 1
  /\ End(p, "killed")
  /\ UNCHANGED <<pollVars, diskVars, runVars, newsVars, runs>>

-----------------------------------------------------------------------------

Step(p) ==
  \/ LoadConfig(p) \/ ConfigFails(p) \/ NewNotifier(p) \/ NotifierFails(p)
  \/ acquire_lock(p) \/ LockFails(p) \/ load_state(p) \/ LoadFails(p)
  \/ NewClient(p) \/ ClientFails(p)
  \/ \E bad \in SUBSET {"deposit", "chain"}, seen \in SUBSET {now} :
       Pass(p, bad, seen)
  \/ TruncateTmp(p) \/ WriteTmp(p) \/ Rename(p) \/ SaveFails(p) \/ Alert(p)

Next ==
  \/ Edit \/ Tick
  \/ \E p \in Proc : Start(p) \/ Step(p) \/ Kill(p)

Spec == Init /\ [][Next]_vars

-----------------------------------------------------------------------------
(* Properties.                                                             *)

Contents == [whole : BOOLEAN, passes : SUBSET (1 .. MaxRuns)]

\* Types of the variables; the lock belongs to a process that is past it.
TypeOK ==
  /\ config_file \in ConfigFile
  /\ file \in SUBSET Contents /\ tmp \in SUBSET Contents
  /\ pc \in [Proc -> Place]
  /\ lock \in SUBSET {p \in Proc : pc[p] \in Locked}
  /\ run \in [Proc -> 0 .. MaxRuns]
  /\ config \in [Proc -> SUBSET ConfigFile]
  /\ state \in [Proc -> SUBSET (1 .. MaxRuns)]
  /\ errors \in [Proc -> SUBSET Trouble]
  /\ trouble \in [Proc -> SUBSET Trouble]
  /\ told \in [Proc -> SUBSET Trouble]
  /\ updated_at \in [1 .. MaxRuns -> SUBSET Time]
  /\ failed_at \in [Proc -> SUBSET Time] /\ now \in Time
  /\ runs \in 0 .. MaxRuns /\ kills \in 0 .. MaxKills

Saved == UNION {f.passes : f \in file}

Register == INSTANCE StateRegister WITH content <- Saved

\* The state file behaves as the register that Sweep saves to and loads from,
\* and is readable at all times, although a process may be killed or fail
\* between any two steps of its save and leave a temporary file behind.
AtomicState == Register!Spec /\ [](\A f \in file : f.whole)

\* A run that ended without a word about its configuration, lock, state or
\* client has its results in the state file, where later runs leave them.
FinishedIsSaved ==
  \A p \in Proc :
    (pc[p] = "done" /\ run[p] # 0 /\ trouble[p] \subseteq {"deposit", "chain"})
      => run[p] \in Saved

\* The process had in its memory, and the state file has, the results of a run
\* that polled the chain no longer than the threshold before the failure.
RecentPollSaved(p) ==
  \E r \in state[p] \cap Saved : \E u \in updated_at[r], t \in failed_at[p] :
    t - u <= CHAIN_STALE_THRESHOLD

\* A run that ends by itself has told the operator of what went wrong in it, but
\* for what happens before there is a notifier, and for a failed chain of which
\* the state file has recent data. A poll whose run was killed, or could not be
\* saved, never silences a later failure, nor does the absence of any poll.
NothingUntold ==
  \A p \in Proc : pc[p] = "done" =>
    \A what \in trouble[p] \ told[p] :
      \/ what \in {"config", "chat_id"}
      \/ what = "chain" /\ RecentPollSaved(p)

\* The explorer's parser, as LiveBlockExplorer applies it to an address.
parse_address(a) == a.hex /\ a.len = (IF a.prefix THEN 42 ELSE 40)

\* No pass works with an address that the explorer cannot parse: the check of
\* the configuration is at least as strict, whatever the operator edits.
AddressesParse ==
  \A p \in Proc : pc[p] = "pass" =>
    \A c \in config[p] : \A a \in c.deposit_addresses : parse_address(a)

=============================================================================

------------------------------- MODULE Coinbase -------------------------------
(***************************************************************************)
(* LiveCoinbaseClient and the worker's jobs that use it, at the grain of   *)
(* HTTP requests: a sale is a quote and a commit, a withdrawal a lookup of *)
(* the USD account, if none is configured, and a transfer. Every request   *)
(* carries a token of its own. A request or its answer can be lost,        *)
(* refused, garbled or lack a field, before or after it took effect.       *)
(*                                                                         *)
(* Coinbase (external) keeps one USDC and one USD balance for all jobs. A  *)
(* deposit is credited, and a conversion settles, in its own time.         *)
(*                                                                         *)
(* Time is kept as ages and remaining delays, so that no run is too long.  *)
(* A connection that failed is not served later. The check of              *)
(* max_auto_amount, which comes before any call, is left to Sweep.         *)
(***************************************************************************)
EXTENDS Integers, Functions

CONSTANTS
  Job,                      \* EligibleDeposits within max_auto_amount
  usdc_amount,              \* [Job -> Nat]
  total_fee,                \* [Job -> Nat]: what Coinbase keeps of a conversion
  sell_settle_delay,        \* sell_settle_delay_secs, in ticks
  TokenLife,                \* the 120 seconds of a token, in ticks
  AccountLimit,             \* limit=300 of the account list
  MaxLatency,               \* a request reaches Coinbase within so many ticks
  SettleLags                \* how long a conversion may take to settle, in ticks

ASSUME CoinbaseAssumption ==
  /\ usdc_amount \in [Job -> Nat] /\ total_fee \in [Job -> Nat]
  /\ \A j \in Job : total_fee[j] <= usdc_amount[j]
  /\ sell_settle_delay \in Nat
  /\ AccountLimit \in Nat \ {0}
  /\ MaxLatency \in Nat /\ SettleLags \subseteq Nat
  /\ TokenLife \in Nat

VARIABLES
  usd_account_id,   \* is the account configured?
  usd_position,     \* where Coinbase lists the USD account
  uptime,           \* age of the client, capped just above TokenLife
  at,               \* [Job -> where liquidate_pipeline is]
  request,          \* [Job -> Option of the request under way]
  answer,           \* [Job -> Option of the answer under way]
  wait,             \* [Job -> ticks left to sleep]
  settle_lag,       \* a conversion settles within so many ticks
  credited,         \* deposits Coinbase has credited
  usdc, usd,        \* the balances
  trade,            \* [Job -> "none", "executed" or "settled"]
  trade_age,        \* [Job -> ticks since the conversion was executed]
  sold, paid,       \* [Job -> Nat]: conversions and withdrawals made for it
  faults            \* history: what went wrong for each job, in the world

fixedVars  == <<usd_account_id, usd_position, settle_lag>>
netVars    == <<request, answer>>
serverVars == <<credited, usdc, usd, trade, trade_age, sold, paid>>
vars == <<fixedVars, uptime, at, netVars, wait, serverVars, faults>>

Place == {"queued", "quote", "commit", "sleep", "account", "withdraw",
          "initiated", "failed"}

Fault == {"network", "server", "credit", "settlement", "account"}

\* The total of a conversion: usd_received.
Total(j) == usdc_amount[j] - total_fee[j]

\* All jobs wait; the operator may or may not have configured the account.
Init ==
  /\ usd_account_id \in BOOLEAN
  /\ usd_position \in IF usd_account_id THEN {1} ELSE 1 .. AccountLimit + 1
  /\ uptime = 0
  /\ at = [j \in Job |-> "queued"]
  /\ request = [j \in Job |-> {}]
  /\ answer = [j \in Job |-> {}]
  /\ wait = [j \in Job |-> 0]
  /\ settle_lag \in SettleLags
  /\ credited = {}
  /\ usdc = 0 /\ usd = 0
  /\ trade = [j \in Job |-> "none"]
  /\ trade_age = [j \in Job |-> 0]
  /\ sold = [j \in Job |-> 0]
  /\ paid = [j \in Job |-> 0]
  /\ faults = [j \in Job |-> {}]

-----------------------------------------------------------------------------
(* auth.rs and the client's plumbing.                                      *)

\* Faulty variant: one token, made when the client was built.
TokenOfClient(client_age) == client_age

\* The age of a new token, for a client of some age: nbf is now.
build_jwt(client_age) == 0

\* A request with its own token leaves, and the job waits for its answer.
send(j, place) ==
  /\ at' = [at EXCEPT ![j] = place]
  /\ request' = [request EXCEPT ![j] = {[token |-> build_jwt(uptime),
                                         flight |-> 0]}]
  /\ answer' = [answer EXCEPT ![j] = {}]

\* A status that is no success is an error; so is a body that is no JSON of the
\* expected type, a body that could not be read included. Else its fields.
deserialize(a) == IF a.success THEN a.body ELSE {}

\* The fields that tell apart the answers of each endpoint: of a quoted and of a
\* committed trade, of the page of accounts, and of a transfer.
QuoteFields == {"trade", "id"}
TradeFields == {"trade", "total", "user_entered_amount"}
AccountFields == {"USD"}
TransferFields == {"id", "cancellation_reason"}

\* Faulty variant: a withdrawal without a transfer id passes.
AnyTransfer == {}

\* An answer with an empty id is an error, with a cancellation_reason or not; a
\* cancellation_reason next to an id does not matter.
TransferNeeds == {"id"}

\* The fields that an answer must have. The status of a trade is not looked at.
Needed == [quote |-> QuoteFields, commit |-> TradeFields,
           account |-> AccountFields, withdraw |-> TransferNeeds]

Accepted(j, place) ==
  /\ at[j] = place
  /\ \E a \in answer[j] : \E f \in deserialize(a) : Needed[place] \subseteq f

-----------------------------------------------------------------------------
(* cbworker.rs: liquidate_pipeline, with sell_usdc and withdraw_usd.       *)

RequestQuote(j) ==
  /\ at[j] = "queued"
  /\ send(j, "quote")
  /\ UNCHANGED <<fixedVars, uptime, wait, serverVars, faults>>

CommitTrade(j) ==
  /\ Accepted(j, "quote")
  /\ send(j, "commit")
  /\ UNCHANGED <<fixedVars, uptime, wait, serverVars, faults>>

\* Faulty variant: the withdrawal follows at once.
NoDelay == 0

SettleDelay == sell_settle_delay

\* sell_usdc returned Ok: sleep.
Sleep(j) ==
  /\ Accepted(j, "commit")
  /\ at' = [at EXCEPT ![j] = "sleep"]
  /\ answer' = [answer EXCEPT ![j] = {}]
  /\ wait' = [wait EXCEPT ![j] = SettleDelay]
  /\ UNCHANGED <<fixedVars, uptime, request, serverVars, faults>>

\* With a configured account the withdrawal needs no lookup.
withdraw_usd(j) ==
  /\ at[j] = "sleep"
  /\ wait[j] = 0
  /\ send(j, IF usd_account_id THEN "withdraw" ELSE "account")
  /\ UNCHANGED <<fixedVars, uptime, wait, serverVars, faults>>

\* find_account returned Ok.
RequestWithdrawal(j) ==
  /\ Accepted(j, "account")
  /\ send(j, "withdraw")
  /\ UNCHANGED <<fixedVars, uptime, wait, serverVars, faults>>

Initiated(j) ==
  /\ Accepted(j, "withdraw")
  /\ at' = [at EXCEPT ![j] = "initiated"]
  /\ answer' = [answer EXCEPT ![j] = {}]
  /\ UNCHANGED <<fixedVars, uptime, request, wait, serverVars, faults>>

\* The job ends as failed; there is no second attempt.
fail(j) ==
  /\ at' = [at EXCEPT ![j] = "failed"]
  /\ request' = [request EXCEPT ![j] = {}]
  /\ answer' = [answer EXCEPT ![j] = {}]

\* Faulty variant: a refused withdrawal is tried again.
RetryRefused(j) ==
  /\ answer[j] # {}
  /\ ~ Accepted(j, at[j])
  /\ IF at[j] = "withdraw" THEN send(j, "withdraw") ELSE fail(j)
  /\ UNCHANGED <<fixedVars, uptime, wait, serverVars, faults>>

\* An answer that is an error, or lacks a field.
Refused(j) ==
  /\ answer[j] # {}
  /\ ~ Accepted(j, at[j])
  /\ fail(j)
  /\ UNCHANGED <<fixedVars, uptime, wait, serverVars, faults>>

\* The connection fails, before the request was served or after.
Disconnected(j) ==
  /\ request[j] # {} \/ answer[j] # {}
  /\ fail(j)
  /\ faults' = [faults EXCEPT ![j] = @ \cup {"network"}]
  /\ UNCHANGED <<fixedVars, uptime, wait, serverVars>>

ClientStep(j) ==
  \/ RequestQuote(j) \/ CommitTrade(j) \/ Sleep(j) \/ withdraw_usd(j)
  \/ RequestWithdrawal(j) \/ Initiated(j) \/ Refused(j)

-----------------------------------------------------------------------------
(* Coinbase (external).                                                    *)

Arrived(j, place) ==
  at[j] = place /\ \E r \in request[j] : r.token <= TokenLife

HttpError == [success |-> FALSE, body |-> {}]
Garbled == [success |-> TRUE, body |-> {}]
Body(fields) == [success |-> TRUE, body |-> {fields}]

Respond(j, a) ==
  /\ request' = [request EXCEPT ![j] = {}]
  /\ answer' = [answer EXCEPT ![j] = {a}]

\* What may come back instead of the answer to a request that was served.
Damaged(fields) ==
  {HttpError, Garbled} \cup {Body(fields \ {f}) : f \in fields}

\* The answer to a served request, as it should be or damaged.
Deliver(j, fields, early) ==
  \/ /\ Respond(j, Body(fields))
     /\ faults' = [faults EXCEPT ![j] = @ \cup early]
  \/ /\ \E a \in Damaged(fields) : Respond(j, a)
     /\ faults' = [faults EXCEPT ![j] = @ \cup early \cup {"server"}]

Unless(happened, fault) == IF happened THEN {} ELSE {fault}

\* A quote; a balance that is too small may be noticed here already.
ServeQuote(j) ==
  /\ Arrived(j, "quote")
  /\ \/ Deliver(j, QuoteFields, {})
     \/ /\ usdc < usdc_amount[j]
        /\ Respond(j, HttpError)
        /\ faults' = [faults EXCEPT ![j] = @ \cup Unless(j \in credited, "credit")]
  /\ UNCHANGED <<fixedVars, uptime, at, wait, serverVars>>

\* The trade is executed if the USDC are there, whoever's deposit they are, and
\* refused otherwise: the client only logs the status of a trade in an answer.
ServeCommit(j) ==
  LET early == Unless(j \in credited, "credit") IN
  /\ Arrived(j, "commit")
  /\ IF usdc >= usdc_amount[j]
     THEN /\ usdc' = usdc - usdc_amount[j]
          /\ sold' = [sold EXCEPT ![j] = @ + 1]
          /\ trade' = [trade EXCEPT ![j] = "executed"]
          /\ trade_age' = [trade_age EXCEPT ![j] = 0]
          /\ Deliver(j, TradeFields, early)
     ELSE /\ Respond(j, HttpError)
          /\ faults' = [faults EXCEPT ![j] = @ \cup early]
          /\ UNCHANGED <<usdc, sold, trade, trade_age>>
  /\ UNCHANGED <<fixedVars, uptime, at, wait, credited, usd, paid>>

\* The first AccountLimit accounts, and the first of them in USD.
find_account(j) ==
  /\ Arrived(j, "account")
  /\ IF usd_position <= AccountLimit
     THEN Deliver(j, AccountFields, {})
     ELSE Deliver(j, {}, {"account"})
  /\ UNCHANGED <<fixedVars, uptime, at, wait, serverVars>>

\* Faulty variant: the deposit's amount is withdrawn, fees and all.
GrossAmount(j) == usdc_amount[j]

\* The amount of a WithdrawalRequest: usd_received of the sale.
WithdrawalAmount(j) == Total(j)

\* A transfer, possibly with a cancellation_reason; or one refused with a
\* success status, a cancellation_reason and an empty id.
ServeWithdrawal(j) ==
  LET early == Unless(trade[j] = "settled", "settlement") IN
  /\ Arrived(j, "withdraw")
  /\ IF usd >= WithdrawalAmount(j)
     THEN /\ usd' = usd - WithdrawalAmount(j)
          /\ paid' = [paid EXCEPT ![j] = @ + 1]
          /\ \/ Deliver(j, {"id"}, early)
             \/ Deliver(j, TransferFields, early)
     ELSE /\ Respond(j, Body({"cancellation_reason"}))
          /\ faults' = [faults EXCEPT ![j] = @ \cup early]
          /\ UNCHANGED <<usd, paid>>
  /\ UNCHANGED <<fixedVars, uptime, at, wait, credited, usdc, sold, trade,
                 trade_age>>

\* An outage of Coinbase.
ServerFails(j) ==
  /\ request[j] # {}
  /\ Respond(j, HttpError)
  /\ faults' = [faults EXCEPT ![j] = @ \cup {"server"}]
  /\ UNCHANGED <<fixedVars, uptime, at, wait, serverVars>>

\* A token past its exp is refused: the network's fault, if it took that long.
Unauthorized(j) ==
  /\ \E r \in request[j] :
       /\ r.token > TokenLife
       /\ faults' = [faults EXCEPT ![j] =
                       @ \cup Unless(r.flight <= TokenLife, "network")]
  /\ Respond(j, HttpError)
  /\ UNCHANGED <<fixedVars, uptime, at, wait, serverVars>>

Serve(j) ==
  \/ ServeQuote(j) \/ ServeCommit(j) \/ find_account(j) \/ ServeWithdrawal(j)
  \/ ServerFails(j) \/ Unauthorized(j)

Credit(j) ==
  /\ j \notin credited
  /\ credited' = credited \cup {j}
  /\ usdc' = usdc + usdc_amount[j]
  /\ UNCHANGED <<fixedVars, uptime, at, netVars, wait, usd, trade, trade_age,
                 sold, paid, faults>>

Settle(j) ==
  /\ trade[j] = "executed"
  /\ trade' = [trade EXCEPT ![j] = "settled"]
  /\ usd' = usd + Total(j)
  /\ trade_age' = [trade_age EXCEPT ![j] = 0]
  /\ UNCHANGED <<fixedVars, uptime, at, netVars, wait, credited, usdc, sold,
                 paid, faults>>

\* Time passes, but no request is under way and no trade unsettled for longer
\* than the bounds say.
Tick ==
  /\ \A j \in Job : \A r \in request[j] : r.flight < MaxLatency
  /\ \A j \in Job : trade[j] = "executed" => trade_age[j] < settle_lag
  /\ uptime' = IF uptime > TokenLife THEN uptime ELSE uptime + 1
  /\ request' = [j \in Job |->
       {[token |-> r.token + 1, flight |-> r.flight + 1] : r \in request[j]}]
  /\ wait' = [j \in Job |-> IF wait[j] = 0 THEN 0 ELSE wait[j] - 1]
  /\ trade_age' = [j \in Job |-> IF trade[j] = "executed" THEN trade_age[j] + 1
                                                          ELSE trade_age[j]]
  /\ UNCHANGED <<fixedVars, at, answer, credited, usdc, usd, trade, sold, paid,
                 faults>>

-----------------------------------------------------------------------------

Next ==
  \/ \E j \in Job : ClientStep(j) \/ Disconnected(j) \/ Serve(j)
  \/ \E j \in Job : Credit(j) \/ Settle(j)
  \/ Tick

Spec == Init /\ [][Next]_vars

\* The runtime polls the jobs, every request is served or fails, conversions
\* settle and time passes.
Fairness ==
  /\ \A j \in Job : WF_vars(ClientStep(j)) /\ WF_vars(Serve(j))
  /\ \A j \in Job : WF_vars(Settle(j))
  /\ WF_vars(Tick)

LiveSpec == Spec /\ Fairness

-----------------------------------------------------------------------------
(* Properties.                                                             *)

Answer == [success : BOOLEAN,
           body : SUBSET (SUBSET (QuoteFields \cup TradeFields \cup AccountFields
                                    \cup TransferFields))]

\* Types of the variables; no balance goes below zero, and no token is older
\* than the request that carries it can be.
TypeOK ==
  /\ usd_account_id \in BOOLEAN /\ usd_position \in 1 .. AccountLimit + 1
  /\ uptime \in 0 .. TokenLife + 1
  /\ at \in [Job -> Place]
  /\ \A j \in Job : request[j] \subseteq
       [token : 0 .. MaxLatency, flight : 0 .. MaxLatency]
  /\ \A j \in Job : \A a \in answer[j] : a \in Answer
  /\ wait \in [Job -> 0 .. sell_settle_delay]
  /\ credited \subseteq Job /\ usdc \in Nat /\ usd \in Nat
  /\ trade \in [Job -> {"none", "executed", "settled"}]
  /\ settle_lag \in SettleLags
  /\ trade_age \in [Job -> 0 .. settle_lag]
  /\ sold \in [Job -> Nat] /\ paid \in [Job -> Nat]
  /\ faults \in [Job -> SUBSET Fault]

Selling(j) == at[j] \in {"queued", "quote", "commit"}
Over(j) == at[j] \in {"initiated", "failed"}

\* What the worker has seen of a job, for the contract: an effect counts when
\* the call returns.
State ==
  [j \in Job |-> IF Selling(j) THEN "queued"
                 ELSE IF Over(j) THEN at[j] ELSE "sold"]
SoldSeen == [j \in Job |-> IF Selling(j) THEN 0 ELSE sold[j]]
PaidSeen == [j \in Job |-> IF Over(j) THEN paid[j] ELSE 0]

Contract == INSTANCE LiquidationContract
  WITH state <- State, sold <- SoldSeen, paid <- PaidSeen

\* Quote, commit, lookup and transfer keep the contract that Sweep relies on: an
\* Ok stands for exactly one effect and an error for at most one, whatever is
\* lost or damaged on the way.
ImplementsContract == Contract!Spec

\* A job fails only if something went wrong outside of the
\* program for it, or another job spent its money early: tokens are fresh, the
\* accounts cover every job, and no answer is misread.
FailuresHaveACause ==
  \A j \in Job : at[j] = "failed" =>
    \/ faults[j] # {}
    \/ \E k \in Job : faults[k] \cap {"credit", "settlement"} # {}

\* What sell_settle_delay_secs is for: if conversions settle in less time, no
\* withdrawal asks for money that is not there yet.
SettledBeforeWithdrawal ==
  settle_lag < sell_settle_delay =>
    \A j \in Job : "settlement" \notin faults[j]

\* When all is over, what is left on the USD account is the proceeds of the
\* failed jobs that were sold and not paid out: jobs sharing the account never
\* pay out more or less than their own.
OnlyFailedStranded ==
  ((\A j \in Job : Over(j)) /\ (\A j \in Job : trade[j] # "executed"))
    => usd = SumFunctionOnSet([j \in Job |-> Total(j)],
               {j \in Job : at[j] = "failed" /\ sold[j] > paid[j]})

\* Every job ends.
JobsEnd == \A j \in Job : <>Over(j)

-----------------------------------------------------------------------------
(* What the documentation says of the program.                             *)

\* BankPaymentOutcome: a job within the limit is recorded as failed only if a
\* permanent error occurred. A lost connection, a deposit not yet credited
\* and a conversion not yet settled are not permanent.
FailedIsPermanent ==
  \A j \in Job :
    at[j] = "failed" => faults[j] \cap {"network", "credit", "settlement"} = {}

=============================================================================

---------------------------- MODULE CoinbaseProofs ----------------------------
(***************************************************************************)
(* Proofs about Coinbase, for every set of jobs, every amount, fee, delay, *)
(* latency and settlement lag: types, the contract that Sweep relies on,   *)
(* the settlement delay, the causes of failures, and the balances.         *)
(***************************************************************************)
EXTENDS Coinbase, SumLemmas

Request == [token : 0 .. MaxLatency, flight : 0 .. MaxLatency]

\* A token is exactly as old as its request: every request has a new one.
TypeInv ==
  /\ TypeOK
  /\ request \in [Job -> SUBSET Request]
  /\ answer \in [Job -> SUBSET Answer]
  /\ \A j \in Job : \A r \in request[j] : r.token = r.flight

\* A fault is added to those of a job.
AddsFaults(j, more) == faults' = [faults EXCEPT ![j] = @ \cup more]

\* An answer to a served request: as it should be, or damaged and then with
\* the fault that says so.
LEMMA DeliverStep ==
  ASSUME NEW j \in Job, NEW fields, NEW early \in SUBSET Fault,
         fields \in {QuoteFields, TradeFields, AccountFields, TransferFields,
                     {"id"}, {}},
         Deliver(j, fields, early)
  PROVE  \E a \in Answer, more \in SUBSET Fault :
           /\ Respond(j, a) /\ AddsFaults(j, more)
           /\ early \subseteq more /\ more \subseteq early \cup {"server"}
           /\ a = Body(fields) \/ (a \in Damaged(fields) /\ "server" \in more)
<1>1. fields \in SUBSET (QuoteFields \cup TradeFields \cup AccountFields
                            \cup TransferFields)
  BY DEF TransferFields
<1>2. \A a \in {Body(fields)} \cup Damaged(fields) : a \in Answer
  <2> DEFINE Field == QuoteFields \cup TradeFields \cup AccountFields
                        \cup TransferFields
  <2>1. Answer = [success : BOOLEAN, body : SUBSET (SUBSET Field)]
    BY DEF Answer
  <2> HIDE DEF Field
  <2>2. HttpError \in Answer /\ Garbled \in Answer
    BY <2>1 DEF HttpError, Garbled
  <2>3. ASSUME NEW g \in SUBSET Field PROVE Body(g) \in Answer
    BY <2>1 DEF Body
  <2>4. \A f : fields \ {f} \in SUBSET Field
    BY <1>1 DEF Field
  <2> QED
    BY <1>1, <2>2, <2>3, <2>4 DEF Damaged, Field
<1>3. early \cup {"server"} \in SUBSET Fault
  BY DEF Fault
<1>4. CASE Respond(j, Body(fields)) /\ AddsFaults(j, early)
  BY <1>2, <1>4
<1>5. CASE /\ \E a \in Damaged(fields) : Respond(j, a)
           /\ faults' = [faults EXCEPT ![j] = @ \cup early \cup {"server"}]
  <2>1. PICK a \in Damaged(fields) : Respond(j, a)
    BY <1>5
  <2>2. AddsFaults(j, early \cup {"server"})
    BY <1>5 DEF AddsFaults
  <2> QED
    BY <1>2, <1>3, <2>1, <2>2
<1> QED
  BY <1>4, <1>5 DEF Deliver, AddsFaults

\* Serving a request answers it, and may add to the faults of its job.
LEMMA ServeStep ==
  ASSUME NEW j \in Job, Serve(j)
  PROVE  /\ request[j] # {}
         /\ UNCHANGED <<fixedVars, uptime, at, wait, credited>>
         /\ \E a \in Answer, more \in SUBSET Fault :
              /\ Respond(j, a) /\ AddsFaults(j, more)
              /\ "settlement" \in more
                   => at[j] = "withdraw" /\ trade[j] # "settled"
<1> DEFINE Early == at[j] = "withdraw" /\ trade[j] # "settled"
           Answered == \E a \in Answer, more \in SUBSET Fault :
                         /\ Respond(j, a) /\ AddsFaults(j, more)
                         /\ "settlement" \in more => Early
<1>1. HttpError \in Answer /\ Body({"cancellation_reason"}) \in Answer
  BY DEF HttpError, Body, Answer, TransferFields
<1>2. /\ Unless(j \in credited, "credit") \in SUBSET Fault
      /\ Unless(trade[j] = "settled", "settlement") \in SUBSET Fault
      /\ {"server"} \in SUBSET Fault /\ {"account"} \in SUBSET Fault
      /\ {} \in SUBSET Fault
  BY DEF Fault, Unless
<1>3. \A place : Arrived(j, place) => request[j] # {}
  BY DEF Arrived
<1>4. CASE ServeQuote(j)
  <2>1. ASSUME Deliver(j, QuoteFields, {}) PROVE Answered
    BY <1>2, <2>1, DeliverStep
  <2> QED
    BY <1>1, <1>2, <1>3, <1>4, <2>1
    DEF ServeQuote, AddsFaults, serverVars, Unless
<1>5. CASE ServeCommit(j)
  <2> DEFINE early == Unless(j \in credited, "credit")
  <2>1. "settlement" \notin early
    BY DEF Unless
  <2>2. ASSUME Deliver(j, TradeFields, early) PROVE Answered
    BY <1>2, <2>1, <2>2, DeliverStep
  <2> QED
    BY <1>1, <1>2, <1>3, <1>5, <2>1, <2>2 DEF ServeCommit, AddsFaults
<1>6. CASE find_account(j)
  <2>1. ASSUME Deliver(j, AccountFields, {}) \/ Deliver(j, {}, {"account"})
        PROVE  Answered
    BY <1>2, <2>1, DeliverStep
  <2> QED
    BY <1>3, <1>6, <2>1 DEF find_account, serverVars
<1>7. CASE ServeWithdrawal(j)
  <2> DEFINE early == Unless(trade[j] = "settled", "settlement")
  <2>1. "settlement" \in early => Early
    BY <1>7 DEF Unless, ServeWithdrawal, Arrived
  <2>2. ASSUME Deliver(j, {"id"}, early) \/ Deliver(j, TransferFields, early)
        PROVE  Answered
    BY <1>2, <2>1, <2>2, DeliverStep
  <2> QED
    BY <1>1, <1>2, <1>3, <1>7, <2>1, <2>2 DEF ServeWithdrawal, AddsFaults
<1>8. CASE ServerFails(j)
  BY <1>1, <1>2, <1>8 DEF ServerFails, AddsFaults, serverVars
<1>9. CASE Unauthorized(j)
  <2>1. PICK r \in request[j] :
          AddsFaults(j, Unless(r.flight <= TokenLife, "network"))
    BY <1>9 DEF Unauthorized, AddsFaults
  <2>2. /\ Unless(r.flight <= TokenLife, "network") \in SUBSET Fault
        /\ "settlement" \notin Unless(r.flight <= TokenLife, "network")
    BY DEF Unless, Fault
  <2> QED
    BY <1>1, <1>9, <2>1, <2>2 DEF Unauthorized, serverVars
<1> QED
  BY <1>4, <1>5, <1>6, <1>7, <1>8, <1>9 DEF Serve

\* Every step keeps the types.
LEMMA TypeInvariance == Spec => []TypeInv
<1> USE DEF fixedVars, netVars, serverVars
<1>1. Init => TypeInv
  BY CoinbaseAssumption DEF Init, TypeInv, TypeOK, Place
<1>2. TypeInv /\ [Next]_vars => TypeInv'
  <2> SUFFICES ASSUME TypeInv, [Next]_vars PROVE TypeInv'
    OBVIOUS
  <2> USE DEF TypeInv, TypeOK
  <2>1. [token |-> 0, flight |-> 0] \in Request
    BY CoinbaseAssumption DEF Request
  <2>2. ASSUME NEW j \in Job, NEW place \in Place, send(j, place),
               UNCHANGED <<fixedVars, uptime, wait, serverVars, faults>>
        PROVE  TypeInv'
    <3>1. request' = [request EXCEPT ![j] = {[token |-> 0, flight |-> 0]}]
      BY <2>2 DEF send, build_jwt
    <3>2. request' \in [Job -> SUBSET Request]
      BY <2>1, <3>1
    <3>3. \A k \in Job : \A r \in request'[k] : r.token = r.flight
      BY <3>1
    <3> QED
      BY <2>2, <3>2, <3>3 DEF send, Request
  <2>3. ASSUME NEW j \in Job,
               RequestQuote(j) \/ CommitTrade(j) \/ withdraw_usd(j)
                 \/ RequestWithdrawal(j)
        PROVE  TypeInv'
    BY <2>2, <2>3
    DEF RequestQuote, CommitTrade, withdraw_usd, RequestWithdrawal, Place
  <2>4. ASSUME NEW j \in Job, Sleep(j) \/ Initiated(j) PROVE TypeInv'
    BY <2>4, CoinbaseAssumption DEF Sleep, Initiated, SettleDelay, Place, Request
  <2>5. ASSUME NEW j \in Job, Refused(j) \/ Disconnected(j) PROVE TypeInv'
    BY <2>5 DEF Refused, Disconnected, fail, Place, Fault, Request
  <2>6. ASSUME NEW j \in Job, Serve(j) PROVE TypeInv'
    <3>1. PICK a \in Answer, more \in SUBSET Fault :
            Respond(j, a) /\ AddsFaults(j, more)
      BY <2>6, ServeStep
    <3>2. UNCHANGED <<fixedVars, uptime, at, wait, credited>>
      BY <2>6, ServeStep
    <3>3. /\ request' = [request EXCEPT ![j] = {}]
          /\ answer' = [answer EXCEPT ![j] = {a}]
          /\ faults' \in [Job -> SUBSET Fault]
      BY <3>1 DEF Respond, AddsFaults
    <3>4. /\ usdc' \in Nat /\ usd' \in Nat
          /\ trade' \in [Job -> {"none", "executed", "settled"}]
          /\ trade_age' \in [Job -> 0 .. settle_lag]
          /\ sold' \in [Job -> Nat] /\ paid' \in [Job -> Nat]
      <4>1. CASE ServeCommit(j)
        BY <4>1, CoinbaseAssumption DEF ServeCommit
      <4>2. CASE ServeWithdrawal(j)
        BY <4>2, CoinbaseAssumption
        DEF ServeWithdrawal, WithdrawalAmount, Total
      <4> QED
        BY <2>6, <4>1, <4>2
        DEF Serve, ServeQuote, find_account, ServerFails, Unauthorized
    <3>5. answer' \in [Job -> SUBSET Answer]
      BY <3>3
    <3>6. request' \in [Job -> SUBSET Request]
      BY <3>3
    <3> QED
      BY <3>2, <3>3, <3>4, <3>5, <3>6 DEF Request
  <2>7. ASSUME NEW j \in Job, Credit(j) \/ Settle(j) PROVE TypeInv'
    BY <2>7, CoinbaseAssumption DEF Credit, Settle, Total
  <2>8. CASE Tick
    <3>1. ASSUME NEW j \in Job, NEW r \in request[j]
          PROVE  [token |-> r.token + 1, flight |-> r.flight + 1] \in Request
      BY <2>8, CoinbaseAssumption DEF Tick, Request
    <3>2. request' \in [Job -> SUBSET Request]
      BY <2>8, <3>1 DEF Tick
    <3>3. \A j \in Job : \A r \in request'[j] : r.token = r.flight
      BY <2>8 DEF Tick
    <3>4. uptime' \in 0 .. TokenLife + 1
      BY <2>8, CoinbaseAssumption DEF Tick
    <3>5. wait' \in [Job -> 0 .. sell_settle_delay]
      <4>1. wait' = [j \in Job |-> IF wait[j] = 0 THEN 0 ELSE wait[j] - 1]
        BY <2>8 DEF Tick
      <4>2. \A j \in Job : wait[j] \in 0 .. sell_settle_delay
        OBVIOUS
      <4>3. \A n \in 0 .. sell_settle_delay :
              (IF n = 0 THEN 0 ELSE n - 1) \in 0 .. sell_settle_delay
        BY CoinbaseAssumption
      <4> QED
        BY <4>1, <4>2, <4>3
    <3>6. trade_age' \in [Job -> 0 .. settle_lag]
      BY <2>8, CoinbaseAssumption DEF Tick
    <3> QED
      BY <2>8, <3>2, <3>3, <3>4, <3>5, <3>6 DEF Tick, Request
  <2>9. CASE UNCHANGED vars
    BY <2>9 DEF vars
  <2> QED
    BY <2>3, <2>4, <2>5, <2>6, <2>7, <2>8, <2>9 DEF Next, ClientStep
<1> QED
  BY <1>1, <1>2, PTL DEF Spec

\* Every variable keeps its type: no balance goes below zero, no token is older
\* than a request can be, and no job sleeps longer than sell_settle_delay.
THEOREM TypeCorrect == Spec => []TypeOK
BY TypeInvariance, PTL DEF TypeInv

-----------------------------------------------------------------------------
(* What is done at Coinbase, and when.                                     *)

Asking == {"quote", "commit", "account", "withdraw"}

\* A job waits for one thing: its request to be served or its answer to be
\* read. What its place says of what Coinbase did for it: a sale or a withdrawal
\* is made by serving the one request for it, before it is answered.
JobEffect(j) ==
  /\ request[j] # {} => at[j] \in Asking /\ answer[j] = {}
  /\ answer[j] # {} => at[j] \in Asking
  /\ sold[j] \in {0, 1} /\ paid[j] \in {0, 1} /\ paid[j] <= sold[j]
  /\ trade[j] = "none" <=> sold[j] = 0
  /\ at[j] \in {"queued", "quote"} => sold[j] = 0
  /\ at[j] = "commit" /\ request[j] # {} => sold[j] = 0
  /\ Accepted(j, "commit") => sold[j] = 1
  /\ at[j] \in {"sleep", "account", "withdraw", "initiated"} => sold[j] = 1
  /\ at[j] \in {"queued", "quote", "commit", "sleep", "account"} => paid[j] = 0
  /\ at[j] = "withdraw" /\ request[j] # {} => paid[j] = 0
  /\ Accepted(j, "withdraw") => paid[j] = 1
  /\ at[j] = "initiated" => paid[j] = 1

EffectInv == \A j \in Job : JobEffect(j)

\* What another job does changes nothing for this one.
LEMMA EffectKept ==
  ASSUME NEW j \in Job, JobEffect(j),
         at'[j] = at[j], answer'[j] = answer[j],
         request'[j] = {} <=> request[j] = {},
         trade'[j] = "none" <=> trade[j] = "none",
         sold'[j] = sold[j], paid'[j] = paid[j]
  PROVE  JobEffect(j)'
<1>1. \A place : Accepted(j, place)' <=> Accepted(j, place)
  BY DEF Accepted
<1> QED
  BY <1>1 DEF JobEffect

\* Without an answer nothing is accepted.
LEMMA NoAnswer ==
  ASSUME NEW j \in Job, answer'[j] = {}
  PROVE  \A place : ~ Accepted(j, place)'
BY DEF Accepted

\* Nor is an HTTP error, or a transfer without an id.
LEMMA ErrorNotAccepted ==
  ASSUME NEW j \in Job
  PROVE  /\ answer'[j] = {HttpError} => \A place : ~ Accepted(j, place)'
         /\ answer'[j] = {Body({"cancellation_reason"})}
              => ~ Accepted(j, "withdraw")'
<1>1. deserialize(HttpError) = {}
  BY DEF deserialize, HttpError
<1>2. deserialize(Body({"cancellation_reason"})) = {{"cancellation_reason"}}
  BY DEF deserialize, Body
<1>3. Needed["withdraw"] = {"id"}
  BY DEF Needed, TransferNeeds
<1> QED
  BY <1>1, <1>2, <1>3 DEF Accepted

\* Serving keeps the account of what was done.
LEMMA EffectServe ==
  ASSUME TypeInv, EffectInv, NEW j \in Job, Serve(j)
  PROVE  EffectInv'
<1>1. PICK a \in Answer, more \in SUBSET Fault :
        Respond(j, a) /\ AddsFaults(j, more)
  BY ServeStep
<1>2. UNCHANGED at /\ request[j] # {}
  BY ServeStep
<1>3. /\ request' = [request EXCEPT ![j] = {}]
      /\ answer' = [answer EXCEPT ![j] = {a}]
  BY <1>1 DEF Respond
<1>4. /\ at \in [Job -> Place] /\ request \in [Job -> SUBSET Request]
      /\ answer \in [Job -> SUBSET Answer]
      /\ sold \in [Job -> Nat] /\ paid \in [Job -> Nat]
      /\ trade \in [Job -> {"none", "executed", "settled"}]
  BY DEF TypeInv, TypeOK
<1>5. /\ request'[j] = {} /\ answer'[j] = {a}
      /\ at'[j] = at[j] /\ at[j] \in Asking
      /\ JobEffect(j)
  BY <1>2, <1>3, <1>4 DEF EffectInv, JobEffect
<1>6. ASSUME NEW k \in Job, k # j, sold'[k] = sold[k], paid'[k] = paid[k],
             trade'[k] = trade[k]
      PROVE  JobEffect(k)'
  BY <1>2, <1>3, <1>4, <1>6, EffectKept DEF EffectInv
<1>7. CASE ServeCommit(j)
  <2>1. at[j] = "commit" /\ sold[j] = 0 /\ paid[j] = 0 /\ trade[j] = "none"
    BY <1>2, <1>5, <1>7 DEF ServeCommit, Arrived, JobEffect
  <2>2. ~ Accepted(j, "withdraw")'
    BY <1>5, <2>1 DEF Accepted
  <2>3. CASE usdc >= usdc_amount[j]
    <3>1. /\ sold' = [sold EXCEPT ![j] = @ + 1] /\ paid' = paid
          /\ trade' = [trade EXCEPT ![j] = "executed"]
      BY <1>7, <2>3 DEF ServeCommit
    <3>2. sold'[j] = 1 /\ paid'[j] = 0 /\ trade'[j] = "executed"
      BY <1>4, <2>1, <3>1
    <3>3. JobEffect(j)'
      BY <1>5, <2>1, <2>2, <3>2 DEF JobEffect
    <3> QED
      BY <1>4, <1>6, <3>1, <3>3 DEF EffectInv
  <2>4. CASE ~ (usdc >= usdc_amount[j])
    <3>1. Respond(j, HttpError) /\ UNCHANGED <<sold, paid, trade>>
      BY <1>7, <2>4 DEF ServeCommit
    <3>2. answer'[j] = {HttpError}
      BY <1>4, <3>1 DEF Respond
    <3>3. ~ Accepted(j, "commit")'
      BY <3>2, ErrorNotAccepted
    <3>4. JobEffect(j)'
      BY <1>5, <2>1, <2>2, <3>1, <3>3 DEF JobEffect
    <3> QED
      BY <1>6, <3>1, <3>4 DEF EffectInv
  <2> QED
    BY <2>3, <2>4
<1>8. CASE ServeWithdrawal(j)
  <2>1. at[j] = "withdraw" /\ sold[j] = 1 /\ paid[j] = 0 /\ trade[j] # "none"
    BY <1>2, <1>5, <1>8 DEF ServeWithdrawal, Arrived, JobEffect
  <2>2. ~ Accepted(j, "commit")'
    BY <1>5, <2>1 DEF Accepted
  <2>3. UNCHANGED <<sold, trade>>
    BY <1>8 DEF ServeWithdrawal
  <2>4. CASE usd >= WithdrawalAmount(j)
    <3>1. paid' = [paid EXCEPT ![j] = @ + 1]
      BY <1>8, <2>4 DEF ServeWithdrawal
    <3>2. paid'[j] = 1
      BY <1>4, <2>1, <3>1
    <3>3. JobEffect(j)'
      BY <1>5, <2>1, <2>2, <2>3, <3>2 DEF JobEffect
    <3> QED
      BY <1>4, <1>6, <2>3, <3>1, <3>3 DEF EffectInv
  <2>5. CASE ~ (usd >= WithdrawalAmount(j))
    <3>1. Respond(j, Body({"cancellation_reason"})) /\ UNCHANGED paid
      BY <1>8, <2>5 DEF ServeWithdrawal
    <3>2. answer'[j] = {Body({"cancellation_reason"})}
      BY <1>4, <3>1 DEF Respond
    <3>3. ~ Accepted(j, "withdraw")'
      BY <3>2, ErrorNotAccepted
    <3>4. JobEffect(j)'
      BY <1>5, <2>1, <2>2, <2>3, <3>1, <3>3 DEF JobEffect
    <3> QED
      BY <1>6, <2>3, <3>1, <3>4 DEF EffectInv
  <2> QED
    BY <2>4, <2>5
<1>9. CASE ServeQuote(j) \/ find_account(j)
  <2>1. UNCHANGED <<sold, paid, trade>> /\ at[j] \in {"quote", "account"}
    BY <1>9 DEF ServeQuote, find_account, Arrived, serverVars
  <2>2. ~ Accepted(j, "commit")' /\ ~ Accepted(j, "withdraw")'
    BY <1>5, <2>1 DEF Accepted
  <2>3. JobEffect(j)'
    BY <1>5, <2>1, <2>2 DEF JobEffect
  <2> QED
    BY <1>6, <2>1, <2>3 DEF EffectInv
<1>10. CASE ServerFails(j) \/ Unauthorized(j)
  <2>1. UNCHANGED <<sold, paid, trade>> /\ Respond(j, HttpError)
    BY <1>10 DEF ServerFails, Unauthorized, serverVars
  <2>2. answer'[j] = {HttpError}
    BY <1>4, <2>1 DEF Respond
  <2>3. ~ Accepted(j, "commit")' /\ ~ Accepted(j, "withdraw")'
    BY <2>2, ErrorNotAccepted
  <2>4. JobEffect(j)'
    BY <1>5, <2>1, <2>3 DEF JobEffect
  <2> QED
    BY <1>6, <2>1, <2>4 DEF EffectInv
<1> QED
  BY <1>7, <1>8, <1>9, <1>10 DEF Serve

\* A job that ends or moves on takes no answer along.
LEMMA EffectClient ==
  ASSUME TypeInv, EffectInv, NEW j \in Job, ClientStep(j) \/ Disconnected(j)
  PROVE  EffectInv'
<1>1. /\ at \in [Job -> Place] /\ request \in [Job -> SUBSET Request]
      /\ answer \in [Job -> SUBSET Answer]
      /\ JobEffect(j)
  BY DEF TypeInv, TypeOK, EffectInv
<1>2. UNCHANGED <<sold, paid, trade>>
  BY DEF ClientStep, Disconnected, RequestQuote, CommitTrade, Sleep,
         withdraw_usd, RequestWithdrawal, Initiated, Refused, serverVars
<1>3. /\ \A k \in Job \ {j} : /\ at'[k] = at[k] /\ answer'[k] = answer[k]
                              /\ request'[k] = request[k]
      /\ answer'[j] = {}
  BY <1>1 DEF ClientStep, Disconnected, RequestQuote, CommitTrade, Sleep,
              withdraw_usd, RequestWithdrawal, Initiated, Refused, send, fail
<1>4. \A k \in Job \ {j} : JobEffect(k)'
  BY <1>2, <1>3, EffectKept DEF EffectInv
<1>5. ~ Accepted(j, "commit")' /\ ~ Accepted(j, "withdraw")'
  BY <1>3, NoAnswer
<1>6. JobEffect(j)'
  <2>1. CASE RequestQuote(j) \/ CommitTrade(j)
    <3>1. at'[j] \in {"quote", "commit"} /\ sold[j] = 0 /\ paid[j] = 0
      BY <1>1, <2>1
      DEF RequestQuote, CommitTrade, Accepted, send, JobEffect
    <3> QED
      BY <1>1, <1>2, <1>3, <1>5, <3>1 DEF JobEffect, Asking
  <2>2. CASE Sleep(j)
    <3>1. /\ at'[j] = "sleep" /\ sold[j] = 1 /\ paid[j] = 0
          /\ request'[j] = request[j]
      BY <1>1, <2>2 DEF Sleep, Accepted, JobEffect
    <3>2. request[j] = {}
      BY <1>1, <2>2 DEF Sleep, Accepted, JobEffect
    <3> QED
      BY <1>1, <1>2, <1>3, <1>5, <3>1, <3>2 DEF JobEffect
  <2>3. CASE withdraw_usd(j) \/ RequestWithdrawal(j)
    <3>1. at'[j] \in {"account", "withdraw"} /\ sold[j] = 1 /\ paid[j] = 0
      BY <1>1, <2>3
      DEF withdraw_usd, RequestWithdrawal, Accepted, send, JobEffect
    <3> QED
      BY <1>1, <1>2, <1>3, <1>5, <3>1 DEF JobEffect, Asking
  <2>4. CASE Initiated(j)
    <3>1. /\ at'[j] = "initiated" /\ sold[j] = 1 /\ paid[j] = 1
          /\ request'[j] = request[j] /\ request[j] = {}
      BY <1>1, <2>4 DEF Initiated, Accepted, JobEffect
    <3> QED
      BY <1>1, <1>2, <1>3, <1>5, <3>1 DEF JobEffect
  <2>5. CASE Refused(j) \/ Disconnected(j)
    <3>1. at'[j] = "failed" /\ request'[j] = {}
      BY <1>1, <2>5 DEF Refused, Disconnected, fail
    <3> QED
      BY <1>1, <1>2, <1>3, <1>5, <3>1 DEF JobEffect
  <2> QED
    BY <2>1, <2>2, <2>3, <2>4, <2>5 DEF ClientStep
<1> QED
  BY <1>4, <1>6 DEF EffectInv

\* For every job the place it is at says what was done for it: a sale and a
\* withdrawal happen at most once, and not before the one call that asks.
THEOREM EffectCorrect == Spec => []EffectInv
<1>1. Init => EffectInv
  BY DEF Init, EffectInv, JobEffect, Accepted
<1>2. TypeInv /\ EffectInv /\ [Next]_vars => EffectInv'
  <2> SUFFICES ASSUME TypeInv, EffectInv, [Next]_vars PROVE EffectInv'
    OBVIOUS
  <2>1. ASSUME NEW j \in Job, ClientStep(j) \/ Disconnected(j) PROVE EffectInv'
    BY <2>1, EffectClient
  <2>2. ASSUME NEW j \in Job, Serve(j) PROVE EffectInv'
    BY <2>2, EffectServe
  <2>3. ASSUME NEW j \in Job, Credit(j) \/ Settle(j) PROVE EffectInv'
    <3>1. /\ UNCHANGED <<at, answer, request, sold, paid>>
          /\ \A k \in Job : trade'[k] = "none" <=> trade[k] = "none"
      BY <2>3 DEF Credit, Settle, netVars, TypeInv, TypeOK
    <3> QED
      BY <3>1, EffectKept DEF EffectInv
  <2>4. CASE Tick
    <3>1. /\ UNCHANGED <<at, answer, trade, sold, paid>>
          /\ \A k \in Job : request'[k] = {} <=> request[k] = {}
      BY <2>4 DEF Tick
    <3> QED
      BY <3>1, EffectKept DEF EffectInv
  <2>5. CASE UNCHANGED vars
    <3>1. UNCHANGED <<at, answer, request, trade, sold, paid>>
      BY <2>5 DEF vars, netVars, serverVars
    <3> QED
      BY <3>1, EffectKept DEF EffectInv
  <2> QED
    BY <2>1, <2>2, <2>3, <2>4, <2>5 DEF Next
<1> QED
  BY <1>1, <1>2, TypeInvariance, PTL DEF Spec

-----------------------------------------------------------------------------
(* The contract.                                                           *)

\* The steps of a job that the contract knows are those by which a call of the
\* client returns; all others leave what the worker has seen as it is.
LEMMA ContractStep ==
  ASSUME TypeInv, EffectInv, [Next]_vars
  PROVE  [Contract!Next]_<<State, SoldSeen, PaidSeen>>
<1> DEFINE Stutters == UNCHANGED <<State, SoldSeen, PaidSeen>>
<1>1. /\ at \in [Job -> Place]
      /\ sold \in [Job -> Nat] /\ paid \in [Job -> Nat]
  BY DEF TypeInv, TypeOK
<1>2. ASSUME \A j \in Job : /\ Selling(j)' <=> Selling(j)
                            /\ Over(j)' <=> Over(j)
                            /\ Over(j) => at'[j] = at[j]
                            /\ ~ Selling(j) => sold'[j] = sold[j]
                            /\ Over(j) => paid'[j] = paid[j]
      PROVE  Stutters
  <2>1. State' = State
    BY <1>2 DEF State
  <2>2. SoldSeen' = SoldSeen
    BY <1>2 DEF SoldSeen
  <2>3. PaidSeen' = PaidSeen
    BY <1>2 DEF PaidSeen
  <2> QED
    BY <2>1, <2>2, <2>3
<1>3. ASSUME NEW j \in Job, NEW place \in {"sleep", "initiated", "failed"},
             at' = [at EXCEPT ![j] = place], UNCHANGED <<sold, paid>>,
             ~ Over(j)
      PROVE  /\ State' = [State EXCEPT ![j] = IF place = "sleep" THEN "sold"
                                              ELSE place]
             /\ SoldSeen' = [SoldSeen EXCEPT ![j] = sold[j]]
             /\ PaidSeen' = [PaidSeen EXCEPT ![j] = IF place = "sleep" THEN 0
                                                    ELSE paid[j]]
             /\ State[j] = IF Selling(j) THEN "queued" ELSE "sold"
             /\ SoldSeen[j] = IF Selling(j) THEN 0 ELSE sold[j]
             /\ PaidSeen[j] = 0
  BY <1>1, <1>3 DEF State, SoldSeen, PaidSeen, Selling, Over
<1>4. ASSUME NEW j \in Job, Sleep(j) PROVE Contract!Sell(j, "sold", {1})
  <2>1. at[j] = "commit" /\ sold[j] = 1 /\ JobEffect(j)
    BY <1>4 DEF Sleep, Accepted, EffectInv, JobEffect
  <2>2. Selling(j) /\ ~ Over(j)
    BY <2>1 DEF Selling, Over
  <2>3. at' = [at EXCEPT ![j] = "sleep"] /\ UNCHANGED <<sold, paid>>
    BY <1>4 DEF Sleep, serverVars
  <2>4. PaidSeen' = PaidSeen
    BY <1>3, <2>2, <2>3 DEF PaidSeen
  <2>5. State[j] = "queued" /\ State' = [State EXCEPT ![j] = "sold"]
    BY <1>3, <2>2, <2>3
  <2>6. SoldSeen' = [SoldSeen EXCEPT ![j] = @ + 1]
    <3>1. SoldSeen' = [SoldSeen EXCEPT ![j] = sold[j]] /\ SoldSeen[j] = 0
      BY <1>3, <2>2, <2>3
    <3>2. SoldSeen[j] + 1 = sold[j]
      BY <2>1, <3>1
    <3> QED
      BY <3>1, <3>2
  <2> QED
    BY <2>4, <2>5, <2>6 DEF Contract!Sell, Contract!Move
<1>5. ASSUME NEW j \in Job, Initiated(j)
      PROVE  Contract!Withdraw(j, "initiated", {1})
  <2>1. at[j] = "withdraw" /\ paid[j] = 1 /\ JobEffect(j)
    BY <1>5 DEF Initiated, Accepted, EffectInv, JobEffect
  <2>2. ~ Selling(j) /\ ~ Over(j)
    BY <2>1 DEF Selling, Over
  <2>3. at' = [at EXCEPT ![j] = "initiated"] /\ UNCHANGED <<sold, paid>>
    BY <1>5 DEF Initiated, serverVars
  <2>4. SoldSeen' = SoldSeen
    BY <1>3, <2>2, <2>3 DEF SoldSeen
  <2>5. State[j] = "sold" /\ State' = [State EXCEPT ![j] = "initiated"]
    BY <1>3, <2>2, <2>3
  <2>6. PaidSeen' = [PaidSeen EXCEPT ![j] = @ + 1]
    <3>1. PaidSeen' = [PaidSeen EXCEPT ![j] = paid[j]] /\ PaidSeen[j] = 0
      BY <1>3, <2>2, <2>3
    <3>2. PaidSeen[j] + 1 = paid[j]
      BY <2>1, <3>1
    <3> QED
      BY <3>1, <3>2
  <2> QED
    BY <2>4, <2>5, <2>6 DEF Contract!Withdraw, Contract!Move
<1>6. ASSUME NEW j \in Job, Refused(j) \/ Disconnected(j)
      PROVE  \/ Contract!Sell(j, "failed", {0, 1})
             \/ Contract!Withdraw(j, "failed", {0, 1})
  <2>1. JobEffect(j) /\ at[j] \in Asking
    BY <1>6 DEF Refused, Disconnected, EffectInv, JobEffect
  <2>2. ~ Over(j)
    BY <2>1 DEF Over, Asking
  <2>3. at' = [at EXCEPT ![j] = "failed"] /\ UNCHANGED <<sold, paid>>
    BY <1>6 DEF Refused, Disconnected, fail, serverVars
  <2>4. CASE Selling(j)
    <3>1. paid[j] = 0 /\ sold[j] \in {0, 1}
      BY <2>1, <2>4 DEF Selling, JobEffect
    <3>2. PaidSeen' = PaidSeen
      BY <1>3, <2>2, <2>3, <3>1 DEF PaidSeen
    <3>3. State[j] = "queued" /\ State' = [State EXCEPT ![j] = "failed"]
      BY <1>3, <2>2, <2>3, <2>4
    <3>4. SoldSeen' = [SoldSeen EXCEPT ![j] = @ + sold[j]]
      <4>1. SoldSeen' = [SoldSeen EXCEPT ![j] = sold[j]] /\ SoldSeen[j] = 0
        BY <1>3, <2>2, <2>3, <2>4
      <4>2. SoldSeen[j] + sold[j] = sold[j]
        BY <3>1, <4>1
      <4> QED
        BY <4>1, <4>2
    <3> QED
      BY <3>1, <3>2, <3>3, <3>4 DEF Contract!Sell, Contract!Move
  <2>5. CASE ~ Selling(j)
    <3>1. paid[j] \in {0, 1}
      BY <2>1 DEF JobEffect
    <3>2. SoldSeen' = SoldSeen
      BY <1>3, <2>2, <2>3, <2>5 DEF SoldSeen
    <3>3. State[j] = "sold" /\ State' = [State EXCEPT ![j] = "failed"]
      BY <1>3, <2>2, <2>3, <2>5
    <3>4. PaidSeen' = [PaidSeen EXCEPT ![j] = @ + paid[j]]
      <4>1. PaidSeen' = [PaidSeen EXCEPT ![j] = paid[j]] /\ PaidSeen[j] = 0
        BY <1>3, <2>2, <2>3
      <4>2. PaidSeen[j] + paid[j] = paid[j]
        BY <3>1, <4>1
      <4> QED
        BY <4>1, <4>2
    <3> QED
      BY <3>1, <3>2, <3>3, <3>4 DEF Contract!Withdraw, Contract!Move
  <2> QED
    BY <2>4, <2>5
<1>7. ASSUME NEW j \in Job,
             RequestQuote(j) \/ CommitTrade(j) \/ withdraw_usd(j)
               \/ RequestWithdrawal(j)
      PROVE  Stutters
  <2>1. PICK place \in Place : /\ at' = [at EXCEPT ![j] = place]
                               /\ UNCHANGED <<sold, paid>>
                               /\ Selling(j)' <=> Selling(j)
                               /\ ~ Over(j) /\ ~ Over(j)'
    BY <1>1, <1>7
    DEF RequestQuote, CommitTrade, withdraw_usd, RequestWithdrawal, Accepted,
        send, serverVars, Place, Selling, Over
  <2> QED
    BY <1>1, <1>2, <2>1 DEF Selling, Over
<1>8. ASSUME NEW j \in Job, Serve(j) PROVE Stutters
  <2>1. UNCHANGED at /\ request[j] # {}
    BY <1>8, ServeStep
  <2>2. \A k \in Job : k # j => sold'[k] = sold[k] /\ paid'[k] = paid[k]
    BY <1>1, <1>8 DEF Serve, ServeQuote, ServeCommit, find_account,
      ServeWithdrawal, ServerFails, Unauthorized, serverVars
  <2>3. ~ Over(j)
    BY <2>1 DEF EffectInv, JobEffect, Over, Asking
  <2>4. ~ Selling(j) => sold'[j] = sold[j]
    BY <1>8 DEF Serve, ServeQuote, ServeCommit, find_account, Arrived,
      ServeWithdrawal, ServerFails, Unauthorized, serverVars, Selling
  <2> QED
    BY <1>2, <2>1, <2>2, <2>3, <2>4 DEF Selling, Over
<1>9. ASSUME NEW j \in Job, Credit(j) \/ Settle(j) PROVE Stutters
  BY <1>2, <1>9 DEF Credit, Settle, Selling, Over
<1>10. CASE Tick
  BY <1>2, <1>10 DEF Tick, Selling, Over
<1>11. CASE UNCHANGED vars
  BY <1>2, <1>11 DEF vars, serverVars, Selling, Over
<1> QED
  BY <1>4, <1>5, <1>6, <1>7, <1>8, <1>9, <1>10, <1>11
  DEF Next, ClientStep, Contract!Next

\* Quote, commit, lookup and transfer keep the contract that Sweep relies on: an
\* Ok stands for exactly one effect and an error for at most one, whatever is
\* lost or damaged on the way.
THEOREM Refinement == Spec => ImplementsContract
<1>1. Init => Contract!Init
  BY DEF Init, Contract!Init, State, SoldSeen, PaidSeen, Selling, Over
<1> QED
  BY <1>1, ContractStep, TypeInvariance, EffectCorrect, PTL
  DEF Spec, ImplementsContract, Contract!Spec, Contract!vars

-----------------------------------------------------------------------------
(* The settlement delay.                                                   *)

\* A conversion that could still be unsettled when its job wakes up is at least
\* as old as the part of the delay that has passed; then it is settled.
JobDelay(j) ==
  /\ at[j] = "sleep" => \/ trade[j] = "settled"
                        \/ trade_age[j] + wait[j] >= sell_settle_delay
  /\ at[j] \in {"account", "withdraw"} => trade[j] = "settled"

DelayInv == settle_lag < sell_settle_delay => \A j \in Job : JobDelay(j)

\* What sell_settle_delay_secs is for: if conversions settle in less time, no
\* withdrawal asks for money that is not there yet, however long requests and
\* answers take.
THEOREM SettledBeforeWithdrawalHolds == Spec => []SettledBeforeWithdrawal
<1> DEFINE Inv == DelayInv /\ SettledBeforeWithdrawal
<1>1. Init => Inv
  BY DEF Init, DelayInv, JobDelay, SettledBeforeWithdrawal
<1>2. TypeInv /\ EffectInv /\ Inv /\ [Next]_vars => Inv'
  <2> SUFFICES ASSUME TypeInv, EffectInv, Inv, [Next]_vars,
                      settle_lag' < sell_settle_delay
               PROVE  \A k \in Job : JobDelay(k)' /\ "settlement" \notin faults'[k]
    BY DEF DelayInv, SettledBeforeWithdrawal
  <2>1. settle_lag' = settle_lag
    BY ServeStep DEF Next, vars, fixedVars, ClientStep, Disconnected,
      RequestQuote, CommitTrade, Sleep, withdraw_usd, RequestWithdrawal,
      Initiated, Refused, Credit, Settle, Tick
  <2>2. \A k \in Job : JobDelay(k) /\ "settlement" \notin faults[k]
    BY <2>1 DEF DelayInv, SettledBeforeWithdrawal
  <2>3. /\ at \in [Job -> Place] /\ faults \in [Job -> SUBSET Fault]
        /\ trade \in [Job -> {"none", "executed", "settled"}]
        /\ wait \in [Job -> Nat] /\ trade_age \in [Job -> 0 .. settle_lag]
        /\ sell_settle_delay \in Nat /\ settle_lag \in Nat
    BY CoinbaseAssumption DEF TypeInv, TypeOK
  <2>4. \A k \in Job : trade_age[k] \in Nat /\ trade_age[k] < sell_settle_delay
    BY <2>1, <2>3
  <2>5. ASSUME NEW j \in Job,
               RequestQuote(j) \/ CommitTrade(j) \/ Initiated(j)
                 \/ Refused(j) \/ Disconnected(j) \/ RequestWithdrawal(j)
        PROVE  \A k \in Job : JobDelay(k)' /\ "settlement" \notin faults'[k]
    BY <2>2, <2>3, <2>5
    DEF RequestQuote, CommitTrade, Initiated, Refused, Disconnected,
        RequestWithdrawal, Accepted, send, fail, serverVars, JobDelay
  <2>6. ASSUME NEW j \in Job, Sleep(j)
        PROVE  \A k \in Job : JobDelay(k)' /\ "settlement" \notin faults'[k]
    BY <2>2, <2>3, <2>4, <2>6 DEF Sleep, SettleDelay, serverVars, JobDelay
  <2>7. ASSUME NEW j \in Job, withdraw_usd(j)
        PROVE  \A k \in Job : JobDelay(k)' /\ "settlement" \notin faults'[k]
    <3>1. trade[j] = "settled"
      BY <2>2, <2>3, <2>4, <2>7 DEF withdraw_usd, JobDelay
    <3> QED
      BY <2>2, <2>3, <2>7, <3>1 DEF withdraw_usd, send, serverVars, JobDelay
  <2>8. ASSUME NEW j \in Job, Serve(j)
        PROVE  \A k \in Job : JobDelay(k)' /\ "settlement" \notin faults'[k]
    <3>1. PICK more \in SUBSET Fault :
            /\ AddsFaults(j, more)
            /\ "settlement" \in more
                 => at[j] = "withdraw" /\ trade[j] # "settled"
      BY <2>8, ServeStep
    <3>2. "settlement" \notin more
      BY <2>2, <3>1 DEF JobDelay
    <3>3. \A k \in Job : "settlement" \notin faults'[k]
      BY <2>2, <2>3, <3>1, <3>2 DEF AddsFaults
    <3>4. at' = at /\ wait' = wait /\ request[j] # {}
      BY <2>8, ServeStep
    <3>5. \A k \in Job : k # j => /\ trade'[k] = trade[k]
                                  /\ trade_age'[k] = trade_age[k]
      BY <2>3, <2>8
      DEF Serve, ServeQuote, ServeCommit, find_account, ServeWithdrawal,
          ServerFails, Unauthorized, serverVars
    <3>6. CASE ServeCommit(j)
      BY <2>2, <3>3, <3>4, <3>5, <3>6 DEF ServeCommit, Arrived, JobDelay
    <3>7. CASE ~ ServeCommit(j)
      <4>1. trade' = trade /\ trade_age' = trade_age
        BY <2>8, <3>7
        DEF Serve, ServeQuote, find_account, ServeWithdrawal, ServerFails,
            Unauthorized, serverVars
      <4> QED
        BY <2>2, <3>3, <3>4, <4>1 DEF JobDelay
    <3> QED
      BY <3>6, <3>7
  <2>9. ASSUME NEW j \in Job, Credit(j) \/ Settle(j)
        PROVE  \A k \in Job : JobDelay(k)' /\ "settlement" \notin faults'[k]
    BY <2>2, <2>3, <2>9 DEF Credit, Settle, JobDelay
  <2>10. CASE Tick
    <3>1. UNCHANGED <<at, trade, faults>>
      BY <2>10 DEF Tick
    <3>2. ASSUME NEW k \in Job, at[k] = "sleep", trade[k] # "settled"
          PROVE  trade_age'[k] + wait'[k] >= sell_settle_delay
      <4>1. trade[k] = "executed"
        BY <2>3, <3>2 DEF EffectInv, JobEffect
      <4>2. /\ trade_age'[k] = trade_age[k] + 1
            /\ wait'[k] = IF wait[k] = 0 THEN 0 ELSE wait[k] - 1
        BY <2>10, <4>1 DEF Tick
      <4>3. trade_age[k] + wait[k] >= sell_settle_delay
        BY <2>2, <3>2 DEF JobDelay
      <4> QED
        BY <2>3, <2>4, <4>2, <4>3
    <3> QED
      BY <2>2, <3>1, <3>2 DEF JobDelay
  <2>11. CASE UNCHANGED vars
    BY <2>2, <2>11 DEF vars, serverVars, JobDelay
  <2> QED
    BY <2>5, <2>6, <2>7, <2>8, <2>9, <2>10, <2>11 DEF Next, ClientStep
<1> QED
  BY <1>1, <1>2, TypeInvariance, EffectCorrect, PTL DEF Spec

-----------------------------------------------------------------------------
(* The books, and the causes of failures.                                  *)

SoldJobs == {j \in Job : sold[j] = 1}
PaidJobs == {j \in Job : paid[j] = 1}
SettledJobs == {j \in Job : trade[j] = "settled"}

Totals == [j \in Job |-> Total(j)]

\* The books of Coinbase: what was credited is there or was sold, and what
\* settled is there or was paid out, whoever's it was.
BalanceInv ==
  /\ IsFiniteSet(credited) /\ IsFiniteSet(SoldJobs)
  /\ usdc + SumFunctionOnSet(usdc_amount, SoldJobs)
       = SumFunctionOnSet(usdc_amount, credited)
  /\ usd + SumFunctionOnSet(Totals, PaidJobs)
       = SumFunctionOnSet(Totals, SettledJobs)

\* What the sums are taken over and of.
LEMMA BooksFacts ==
  ASSUME TypeInv, EffectInv, BalanceInv
  PROVE  /\ usdc_amount \in [Job -> Nat] /\ Totals \in [Job -> Nat]
         /\ credited \in SUBSET Job /\ SoldJobs \in SUBSET Job
         /\ PaidJobs \in SUBSET Job /\ SettledJobs \in SUBSET Job
         /\ IsFiniteSet(credited) /\ IsFiniteSet(SoldJobs)
         /\ IsFiniteSet(PaidJobs) /\ IsFiniteSet(SettledJobs)
         /\ SumFunctionOnSet(usdc_amount, credited) \in Nat
         /\ SumFunctionOnSet(usdc_amount, SoldJobs) \in Nat
         /\ SumFunctionOnSet(Totals, PaidJobs) \in Nat
         /\ SumFunctionOnSet(Totals, SettledJobs) \in Nat
         /\ usdc \in Nat /\ usd \in Nat
<1>1. usdc_amount \in [Job -> Nat] /\ Totals \in [Job -> Nat]
  BY CoinbaseAssumption DEF Totals, Total
<1>2. /\ credited \in SUBSET Job /\ SoldJobs \in SUBSET Job
      /\ PaidJobs \in SUBSET SoldJobs /\ SettledJobs \in SUBSET SoldJobs
  BY DEF TypeInv, TypeOK, EffectInv, JobEffect, SoldJobs, PaidJobs, SettledJobs
<1>3. /\ IsFiniteSet(credited) /\ IsFiniteSet(SoldJobs)
      /\ IsFiniteSet(PaidJobs) /\ IsFiniteSet(SettledJobs)
  BY <1>2, FS_Subset DEF BalanceInv
<1>4. PaidJobs \in SUBSET Job /\ SettledJobs \in SUBSET Job
  BY <1>2
<1>5. /\ SumFunctionOnSet(usdc_amount, credited) \in Nat
      /\ SumFunctionOnSet(usdc_amount, SoldJobs) \in Nat
      /\ SumFunctionOnSet(Totals, PaidJobs) \in Nat
      /\ SumFunctionOnSet(Totals, SettledJobs) \in Nat
  BY <1>1, <1>2, <1>3, <1>4, SumType
<1> QED
  BY <1>1, <1>2, <1>3, <1>4, <1>5 DEF TypeInv, TypeOK

\* The books balance at all times: every dollar on the accounts is one that was
\* credited or settled, and not yet sold or paid out.
THEOREM BooksBalance == Spec => []BalanceInv
<1>1. Init => BalanceInv
  <2> SUFFICES ASSUME Init PROVE BalanceInv
    OBVIOUS
  <2>1. /\ credited = {} /\ SoldJobs = {} /\ PaidJobs = {} /\ SettledJobs = {}
        /\ usdc = 0 /\ usd = 0
    BY DEF Init, SoldJobs, PaidJobs, SettledJobs
  <2>2. usdc_amount \in [Job -> Nat] /\ Totals \in [Job -> Nat]
    BY CoinbaseAssumption DEF Totals, Total
  <2>3. /\ SumFunctionOnSet(usdc_amount, {}) = 0
        /\ SumFunctionOnSet(Totals, {}) = 0
    BY <2>2, SumEmpty
  <2>4. IsFiniteSet({})
    BY FS_EmptySet
  <2> QED
    BY <2>1, <2>3, <2>4 DEF BalanceInv
<1>2. TypeInv /\ EffectInv /\ BalanceInv /\ [Next]_vars => BalanceInv'
  <2> SUFFICES ASSUME TypeInv, EffectInv, BalanceInv, [Next]_vars
               PROVE  BalanceInv'
    OBVIOUS
  <2>1. /\ usdc_amount \in [Job -> Nat] /\ Totals \in [Job -> Nat]
        /\ credited \in SUBSET Job /\ SoldJobs \in SUBSET Job
        /\ PaidJobs \in SUBSET Job /\ SettledJobs \in SUBSET Job
        /\ IsFiniteSet(credited) /\ IsFiniteSet(SoldJobs)
        /\ IsFiniteSet(PaidJobs) /\ IsFiniteSet(SettledJobs)
        /\ SumFunctionOnSet(usdc_amount, credited) \in Nat
        /\ SumFunctionOnSet(usdc_amount, SoldJobs) \in Nat
        /\ SumFunctionOnSet(Totals, PaidJobs) \in Nat
        /\ SumFunctionOnSet(Totals, SettledJobs) \in Nat
        /\ usdc \in Nat /\ usd \in Nat
    BY BooksFacts
  <2>2. /\ sold \in [Job -> Nat] /\ paid \in [Job -> Nat]
        /\ trade \in [Job -> {"none", "executed", "settled"}]
    BY DEF TypeInv, TypeOK
  <2>3. ASSUME UNCHANGED <<credited, usdc, usd, sold, paid, trade>>
        PROVE  BalanceInv'
    BY <2>3 DEF BalanceInv, SoldJobs, PaidJobs, SettledJobs, Totals, Total
  <2>4. ASSUME NEW j \in Job, Credit(j) PROVE BalanceInv'
    <3>1. /\ credited' = credited \cup {j} /\ j \notin credited
          /\ usdc' = usdc + usdc_amount[j]
          /\ UNCHANGED <<usd, SoldJobs, PaidJobs, SettledJobs>>
      BY <2>4 DEF Credit, SoldJobs, PaidJobs, SettledJobs
    <3>2. SumFunctionOnSet(usdc_amount, credited \cup {j})
            = SumFunctionOnSet(usdc_amount, credited) + usdc_amount[j]
      BY <2>1, <3>1, SumAdd
    <3>3. IsFiniteSet(credited \cup {j})
      BY <2>1, FS_AddElement
    <3> QED
      BY <2>1, <3>1, <3>2, <3>3 DEF BalanceInv, Totals, Total
  <2>5. ASSUME NEW j \in Job, Settle(j) PROVE BalanceInv'
    <3>1. /\ SettledJobs' = SettledJobs \cup {j} /\ j \notin SettledJobs
          /\ usd' = usd + Totals[j]
          /\ UNCHANGED <<credited, usdc, SoldJobs, PaidJobs>>
      BY <2>2, <2>5 DEF Settle, SoldJobs, PaidJobs, SettledJobs, Totals
    <3>2. SumFunctionOnSet(Totals, SettledJobs \cup {j})
            = SumFunctionOnSet(Totals, SettledJobs) + Totals[j]
      BY <2>1, <3>1, SumAdd
    <3> QED
      BY <2>1, <3>1, <3>2 DEF BalanceInv, Totals, Total
  <2>6. ASSUME NEW j \in Job, Serve(j) PROVE BalanceInv'
    <3>1. credited' = credited /\ request[j] # {} /\ JobEffect(j)
      BY <2>6, ServeStep DEF EffectInv
    <3>2. CASE ServeCommit(j) /\ usdc >= usdc_amount[j]
      <4>1. at[j] = "commit" /\ sold[j] = 0 /\ trade[j] = "none"
        BY <3>1, <3>2 DEF ServeCommit, Arrived, JobEffect
      <4>2. /\ SoldJobs' = SoldJobs \cup {j} /\ j \notin SoldJobs
            /\ usdc' = usdc - usdc_amount[j]
            /\ UNCHANGED <<usd, PaidJobs, SettledJobs>>
        BY <2>2, <3>2, <4>1 DEF ServeCommit, SoldJobs, PaidJobs, SettledJobs
      <4>3. SumFunctionOnSet(usdc_amount, SoldJobs \cup {j})
              = SumFunctionOnSet(usdc_amount, SoldJobs) + usdc_amount[j]
        BY <2>1, <4>2, SumAdd
      <4>4. IsFiniteSet(SoldJobs \cup {j})
        BY <2>1, FS_AddElement
      <4> QED
        BY <2>1, <3>1, <4>2, <4>3, <4>4 DEF BalanceInv, Totals, Total
    <3>3. CASE ServeWithdrawal(j) /\ usd >= WithdrawalAmount(j)
      <4>1. at[j] = "withdraw" /\ paid[j] = 0
        BY <3>1, <3>3 DEF ServeWithdrawal, Arrived, JobEffect
      <4>2. /\ PaidJobs' = PaidJobs \cup {j} /\ j \notin PaidJobs
            /\ usd' = usd - Totals[j]
            /\ UNCHANGED <<usdc, SoldJobs, SettledJobs>>
        BY <2>2, <3>3, <4>1
        DEF ServeWithdrawal, WithdrawalAmount, SoldJobs, PaidJobs, SettledJobs,
            Totals
      <4>3. SumFunctionOnSet(Totals, PaidJobs \cup {j})
              = SumFunctionOnSet(Totals, PaidJobs) + Totals[j]
        BY <2>1, <4>2, SumAdd
      <4> QED
        BY <2>1, <3>1, <4>2, <4>3 DEF BalanceInv, Totals, Total
    <3>4. CASE ~ (ServeCommit(j) /\ usdc >= usdc_amount[j])
                 /\ ~ (ServeWithdrawal(j) /\ usd >= WithdrawalAmount(j))
      BY <2>3, <2>6, <3>4
      DEF Serve, ServeQuote, ServeCommit, find_account, ServeWithdrawal,
          ServerFails, Unauthorized, serverVars
    <3> QED
      BY <3>2, <3>3, <3>4
  <2>7. ASSUME NEW j \in Job, ClientStep(j) \/ Disconnected(j)
        PROVE  BalanceInv'
    BY <2>3, <2>7
    DEF ClientStep, Disconnected, RequestQuote, CommitTrade, Sleep,
        withdraw_usd, RequestWithdrawal, Initiated, Refused, serverVars
  <2>8. CASE Tick \/ UNCHANGED vars
    BY <2>3, <2>8 DEF Tick, vars, serverVars
  <2> QED
    BY <2>4, <2>5, <2>6, <2>7, <2>8 DEF Next
<1> QED
  BY <1>1, <1>2, TypeInvariance, EffectCorrect, PTL DEF Spec

\* When all is over, what is left on the USD account is the proceeds of the
\* failed jobs that were sold and not paid out.
THEOREM OnlyFailedStrandedHolds == Spec => []OnlyFailedStranded
<1>1. TypeInv /\ EffectInv /\ BalanceInv => OnlyFailedStranded
  <2> SUFFICES ASSUME TypeInv, EffectInv, BalanceInv,
                      \A j \in Job : Over(j),
                      \A j \in Job : trade[j] # "executed"
               PROVE  usd = SumFunctionOnSet([j \in Job |-> Total(j)],
                        {j \in Job : at[j] = "failed" /\ sold[j] > paid[j]})
    BY DEF OnlyFailedStranded
  <2> DEFINE Stranded == {j \in Job : at[j] = "failed" /\ sold[j] > paid[j]}
  <2>1. SettledJobs = PaidJobs \cup Stranded /\ PaidJobs \cap Stranded = {}
    BY DEF TypeInv, TypeOK, EffectInv, JobEffect, Over, SettledJobs, PaidJobs
  <2>2. /\ Totals \in [Job -> Nat]
        /\ PaidJobs \in SUBSET Job /\ SettledJobs \in SUBSET Job
        /\ IsFiniteSet(PaidJobs) /\ IsFiniteSet(SettledJobs)
        /\ SumFunctionOnSet(Totals, PaidJobs) \in Nat
        /\ usd \in Nat
    BY BooksFacts
  <2>3. Stranded \in SUBSET Job /\ IsFiniteSet(Stranded)
    BY <2>1, <2>2, FS_Subset
  <2> HIDE DEF Stranded
  <2>4. SumFunctionOnSet(Totals, SettledJobs)
          = SumFunctionOnSet(Totals, PaidJobs)
              + SumFunctionOnSet(Totals, Stranded)
    BY <2>1, <2>2, <2>3, SumUnion
  <2>5. SumFunctionOnSet(Totals, Stranded) \in Nat
    BY <2>2, <2>3, SumType
  <2>6. usd = SumFunctionOnSet(Totals, Stranded)
    BY <2>2, <2>4, <2>5 DEF BalanceInv
  <2> QED
    BY <2>6 DEF Stranded, Totals
<1> QED
  BY <1>1, TypeInvariance, EffectCorrect, BooksBalance, PTL

\* No step forgets what went wrong.
LEMMA FaultsGrow ==
  ASSUME TypeInv, [Next]_vars
  PROVE  \A k \in Job : faults[k] \subseteq faults'[k]
<1>1. faults \in [Job -> SUBSET Fault]
  BY DEF TypeInv, TypeOK
<1>2. ASSUME NEW j \in Job, Serve(j)
      PROVE  \A k \in Job : faults[k] \subseteq faults'[k]
  <2>1. PICK more \in SUBSET Fault : AddsFaults(j, more)
    BY <1>2, ServeStep
  <2> QED
    BY <1>1, <2>1 DEF AddsFaults
<1>3. ASSUME NEW j \in Job, Disconnected(j)
      PROVE  \A k \in Job : faults[k] \subseteq faults'[k]
  BY <1>1, <1>3 DEF Disconnected
<1> QED
  BY <1>2, <1>3 DEF Next, ClientStep, RequestQuote, CommitTrade, Sleep,
    withdraw_usd, RequestWithdrawal, Initiated, Refused, Credit, Settle, Tick,
    vars

\* Only a deposit sold or paid out early is not covered by its own money.
EarlyInv ==
  \A j \in Job :
    /\ sold[j] = 1 => j \in credited \/ "credit" \in faults[j]
    /\ paid[j] = 1 => trade[j] = "settled" \/ "settlement" \in faults[j]

\* A sale or a withdrawal that comes too early leaves its fault.
THEOREM EarlyCorrect == Spec => []EarlyInv
<1>1. Init => EarlyInv
  BY DEF Init, EarlyInv
<1>2. TypeInv /\ EffectInv /\ EarlyInv /\ [Next]_vars => EarlyInv'
  <2> SUFFICES ASSUME TypeInv, EffectInv, EarlyInv, [Next]_vars
               PROVE  EarlyInv'
    OBVIOUS
  <2>1. /\ sold \in [Job -> Nat] /\ paid \in [Job -> Nat]
        /\ trade \in [Job -> {"none", "executed", "settled"}]
        /\ faults \in [Job -> SUBSET Fault]
    BY DEF TypeInv, TypeOK
  <2>2. \A k \in Job : faults[k] \subseteq faults'[k]
    BY FaultsGrow
  <2>3. ASSUME UNCHANGED <<sold, paid>>, credited \subseteq credited',
               \A k \in Job : trade[k] = "settled" => trade'[k] = "settled"
        PROVE  EarlyInv'
    BY <2>2, <2>3 DEF EarlyInv
  <2>4. ASSUME NEW j \in Job, Serve(j) PROVE EarlyInv'
    <3>1. credited' = credited /\ request[j] # {} /\ JobEffect(j)
      BY <2>4, ServeStep DEF EffectInv
    <3>2. CASE ServeCommit(j) /\ usdc >= usdc_amount[j]
      <4> DEFINE early == Unless(j \in credited, "credit")
      <4>1. trade[j] = "none" /\ paid[j] = 0
        BY <3>1, <3>2 DEF ServeCommit, Arrived, JobEffect
      <4>2. /\ sold' = [sold EXCEPT ![j] = @ + 1] /\ paid' = paid
            /\ trade' = [trade EXCEPT ![j] = "executed"]
            /\ Deliver(j, TradeFields, early)
        BY <3>2 DEF ServeCommit
      <4>3. early \in SUBSET Fault
        BY DEF Unless, Fault
      <4>4. PICK more \in SUBSET Fault :
              AddsFaults(j, more) /\ early \subseteq more
        BY <4>2, <4>3, DeliverStep
      <4>5. j \notin credited => "credit" \in faults'[j]
        BY <2>1, <4>4 DEF AddsFaults, Unless
      <4> QED
        BY <2>1, <2>2, <3>1, <4>1, <4>2, <4>5 DEF EarlyInv
    <3>3. CASE ServeWithdrawal(j) /\ usd >= WithdrawalAmount(j)
      <4> DEFINE early == Unless(trade[j] = "settled", "settlement")
      <4>1. /\ paid' = [paid EXCEPT ![j] = @ + 1]
            /\ UNCHANGED <<sold, trade>>
            /\ Deliver(j, {"id"}, early) \/ Deliver(j, TransferFields, early)
        BY <3>3 DEF ServeWithdrawal
      <4>2. early \in SUBSET Fault
        BY DEF Unless, Fault
      <4>3. PICK more \in SUBSET Fault :
              AddsFaults(j, more) /\ early \subseteq more
        BY <4>1, <4>2, DeliverStep
      <4>4. trade[j] # "settled" => "settlement" \in faults'[j]
        BY <2>1, <4>3 DEF AddsFaults, Unless
      <4> QED
        BY <2>1, <2>2, <3>1, <4>1, <4>4 DEF EarlyInv
    <3>4. CASE ~ (ServeCommit(j) /\ usdc >= usdc_amount[j])
                 /\ ~ (ServeWithdrawal(j) /\ usd >= WithdrawalAmount(j))
      BY <2>3, <2>4, <3>4
      DEF Serve, ServeQuote, ServeCommit, find_account, ServeWithdrawal,
          ServerFails, Unauthorized, serverVars
    <3> QED
      BY <3>2, <3>3, <3>4
  <2>5. ASSUME NEW j \in Job, ClientStep(j) \/ Disconnected(j) PROVE EarlyInv'
    BY <2>3, <2>5
    DEF ClientStep, Disconnected, RequestQuote, CommitTrade, Sleep,
        withdraw_usd, RequestWithdrawal, Initiated, Refused, serverVars
  <2>6. ASSUME NEW j \in Job, Credit(j) \/ Settle(j) PROVE EarlyInv'
    BY <2>1, <2>3, <2>6 DEF Credit, Settle
  <2>7. CASE Tick \/ UNCHANGED vars
    BY <2>3, <2>7 DEF Tick, vars, serverVars
  <2> QED
    BY <2>4, <2>5, <2>6, <2>7 DEF Next
<1> QED
  BY <1>1, <1>2, TypeInvariance, EffectCorrect, PTL DEF Spec

\* If no sale came early, every credited deposit that is not sold is covered; if
\* no withdrawal did, so are the proceeds of every settled sale.
LEMMA Covered ==
  ASSUME TypeInv, EffectInv, BalanceInv, EarlyInv, NEW j \in Job
  PROVE  /\ /\ j \in credited /\ sold[j] = 0
            /\ \A k \in Job : "credit" \notin faults[k]
            => usdc >= usdc_amount[j]
         /\ /\ trade[j] = "settled" /\ paid[j] = 0
            /\ \A k \in Job : "settlement" \notin faults[k]
            => usd >= Total(j)
<1>1. /\ usdc_amount \in [Job -> Nat] /\ Totals \in [Job -> Nat]
      /\ credited \in SUBSET Job /\ SoldJobs \in SUBSET Job
      /\ PaidJobs \in SUBSET Job /\ SettledJobs \in SUBSET Job
      /\ IsFiniteSet(credited) /\ IsFiniteSet(SoldJobs)
      /\ IsFiniteSet(PaidJobs) /\ IsFiniteSet(SettledJobs)
      /\ SumFunctionOnSet(usdc_amount, credited) \in Nat
      /\ SumFunctionOnSet(usdc_amount, SoldJobs) \in Nat
      /\ SumFunctionOnSet(Totals, PaidJobs) \in Nat
      /\ SumFunctionOnSet(Totals, SettledJobs) \in Nat
      /\ usdc \in Nat /\ usd \in Nat
  BY BooksFacts
<1>2. ASSUME j \in credited, sold[j] = 0,
             \A k \in Job : "credit" \notin faults[k]
      PROVE  usdc >= usdc_amount[j]
  <2>1. j \notin SoldJobs /\ SoldJobs \cup {j} \in SUBSET credited
    BY <1>2 DEF SoldJobs, EarlyInv
  <2>2. SumFunctionOnSet(usdc_amount, SoldJobs \cup {j})
          <= SumFunctionOnSet(usdc_amount, credited)
    BY <1>1, <2>1, SumSubset
  <2>3. SumFunctionOnSet(usdc_amount, SoldJobs \cup {j})
          = SumFunctionOnSet(usdc_amount, SoldJobs) + usdc_amount[j]
    BY <1>1, <2>1, SumAdd
  <2> QED
    BY <1>1, <2>2, <2>3 DEF BalanceInv
<1>3. ASSUME trade[j] = "settled", paid[j] = 0,
             \A k \in Job : "settlement" \notin faults[k]
      PROVE  usd >= Total(j)
  <2>1. j \notin PaidJobs /\ PaidJobs \cup {j} \in SUBSET SettledJobs
    BY <1>3 DEF PaidJobs, SettledJobs, EarlyInv
  <2>2. SumFunctionOnSet(Totals, PaidJobs \cup {j})
          <= SumFunctionOnSet(Totals, SettledJobs)
    BY <1>1, <2>1, SumSubset
  <2>3. SumFunctionOnSet(Totals, PaidJobs \cup {j})
          = SumFunctionOnSet(Totals, PaidJobs) + Totals[j]
    BY <1>1, <2>1, SumAdd
  <2>4. Totals[j] = Total(j) /\ Totals[j] \in Nat
    BY <1>1 DEF Totals
  <2> QED
    BY <1>1, <2>2, <2>3, <2>4 DEF BalanceInv
<1> QED
  BY <1>2, <1>3

Caused(j) ==
  \/ faults[j] # {}
  \/ \E k \in Job : faults[k] \cap {"credit", "settlement"} # {}

\* A refusal has its cause when the answer leaves Coinbase.
CauseInv ==
  \A j \in Job :
    (at[j] = "failed" \/ (answer[j] # {} /\ ~ Accepted(j, at[j]))) => Caused(j)

\* An answer with the fields its endpoint needs is accepted.
LEMMA GoodAccepted ==
  ASSUME NEW j \in Job, NEW place, NEW fields, Needed[place] \subseteq fields,
         at'[j] = place, answer'[j] = {Body(fields)}
  PROVE  Accepted(j, place)'
<1>1. deserialize(Body(fields)) = {fields}
  BY DEF deserialize, Body
<1> QED
  BY <1>1 DEF Accepted

\* A refused request has its cause when the answer leaves Coinbase.
LEMMA CauseServe ==
  ASSUME TypeInv, EffectInv, BalanceInv, EarlyInv, [Next]_vars,
         NEW j \in Job, Serve(j), ~ Accepted(j, at[j])'
  PROVE  Caused(j)'
<1>1. /\ faults \in [Job -> SUBSET Fault] /\ answer \in [Job -> SUBSET Answer]
      /\ request \in [Job -> SUBSET Request]
  BY DEF TypeInv, TypeOK
<1>2. at' = at /\ request[j] # {} /\ JobEffect(j)
  BY ServeStep DEF EffectInv
<1>3. ASSUME NEW more, AddsFaults(j, more), more # {} PROVE Caused(j)'
  BY <1>1, <1>3 DEF AddsFaults, Caused
<1>4. ASSUME NEW fields, NEW early \in SUBSET Fault, NEW place,
             fields \in {QuoteFields, TradeFields, AccountFields,
                         TransferFields, {"id"}, {}},
             Deliver(j, fields, early), at[j] = place,
             early # {} \/ Needed[place] \subseteq fields
      PROVE  Caused(j)'
  <2>1. PICK a \in Answer, more \in SUBSET Fault :
          /\ Respond(j, a) /\ AddsFaults(j, more)
          /\ early \subseteq more
          /\ a = Body(fields) \/ "server" \in more
    BY <1>4, DeliverStep
  <2>2. CASE more # {}
    BY <1>3, <2>1, <2>2
  <2>3. CASE more = {}
    <3>1. answer'[j] = {Body(fields)} /\ Needed[place] \subseteq fields
      BY <1>1, <1>4, <2>1, <2>3 DEF Respond
    <3>2. Accepted(j, place)'
      BY <1>2, <1>4, <3>1, GoodAccepted
    <3> QED
      BY <1>2, <1>4, <3>2
  <2> QED
    BY <2>2, <2>3
<1>5. ASSUME NEW k \in Job, faults[k] \cap {"credit", "settlement"} # {}
      PROVE  Caused(j)'
  BY <1>5, FaultsGrow DEF Caused
<1>6. ASSUME sold[j] = 0, ~ (usdc >= usdc_amount[j]),
             AddsFaults(j, Unless(j \in credited, "credit"))
      PROVE  Caused(j)'
  <2>1. CASE j \notin credited
    BY <1>3, <1>6, <2>1 DEF Unless
  <2>2. CASE j \in credited
    <3>1. \E k \in Job : "credit" \in faults[k]
      BY <1>6, <2>2, Covered
    <3> QED
      BY <1>5, <3>1
  <2> QED
    BY <2>1, <2>2
<1>7. /\ Needed["quote"] = QuoteFields /\ Needed["commit"] = TradeFields
      /\ Needed["account"] = AccountFields /\ Needed["withdraw"] = {"id"}
  BY DEF Needed, TransferNeeds
<1>8. CASE ServeQuote(j)
  <2>1. at[j] = "quote" /\ sold[j] = 0
    BY <1>2, <1>8 DEF ServeQuote, Arrived, JobEffect
  <2>2. CASE Deliver(j, QuoteFields, {})
    BY <1>4, <1>7, <2>1, <2>2
  <2>3. CASE /\ usdc < usdc_amount[j]
             /\ AddsFaults(j, Unless(j \in credited, "credit"))
    <3>1. ~ (usdc >= usdc_amount[j])
      BY <2>3, CoinbaseAssumption DEF TypeInv, TypeOK
    <3> QED
      BY <1>6, <2>1, <2>3, <3>1
  <2> QED
    BY <1>8, <2>2, <2>3 DEF ServeQuote, AddsFaults
<1>9. CASE ServeCommit(j)
  <2>1. at[j] = "commit" /\ sold[j] = 0
    BY <1>2, <1>9 DEF ServeCommit, Arrived, JobEffect
  <2>2. Unless(j \in credited, "credit") \in SUBSET Fault
    BY DEF Unless, Fault
  <2>3. CASE Deliver(j, TradeFields, Unless(j \in credited, "credit"))
    BY <1>4, <1>7, <2>1, <2>2, <2>3
  <2>4. CASE /\ ~ (usdc >= usdc_amount[j])
             /\ AddsFaults(j, Unless(j \in credited, "credit"))
    BY <1>6, <2>1, <2>4
  <2> QED
    BY <1>9, <2>3, <2>4 DEF ServeCommit, AddsFaults
<1>10. CASE find_account(j)
  <2>1. at[j] = "account" /\ {} \in SUBSET Fault /\ {"account"} \in SUBSET Fault
    BY <1>10 DEF find_account, Arrived, Fault
  <2>2. CASE Deliver(j, AccountFields, {})
    BY <1>4, <1>7, <2>1, <2>2
  <2>3. CASE Deliver(j, {}, {"account"})
    BY <1>4, <2>1, <2>3
  <2> QED
    BY <1>10, <2>2, <2>3 DEF find_account
<1>11. CASE ServeWithdrawal(j)
  <2> DEFINE early == Unless(trade[j] = "settled", "settlement")
  <2>1. at[j] = "withdraw" /\ paid[j] = 0
    BY <1>2, <1>11 DEF ServeWithdrawal, Arrived, JobEffect
  <2>2. early \in SUBSET Fault
    BY DEF Unless, Fault
  <2>3. CASE Deliver(j, {"id"}, early) \/ Deliver(j, TransferFields, early)
    <3>1. {"id"} \subseteq TransferFields
      BY DEF TransferFields
    <3> QED
      BY <1>4, <1>7, <2>1, <2>2, <2>3, <3>1
  <2>4. CASE ~ (usd >= WithdrawalAmount(j)) /\ AddsFaults(j, early)
    <3>1. CASE trade[j] # "settled"
      BY <1>3, <2>4, <3>1 DEF Unless
    <3>2. CASE trade[j] = "settled"
      <4>1. \E k \in Job : "settlement" \in faults[k]
        BY <2>1, <2>4, <3>2, Covered DEF WithdrawalAmount
      <4> QED
        BY <1>5, <4>1
    <3> QED
      BY <3>1, <3>2
  <2> QED
    BY <1>11, <2>3, <2>4 DEF ServeWithdrawal, AddsFaults
<1>12. CASE ServerFails(j)
  BY <1>3, <1>12 DEF ServerFails, AddsFaults
<1>13. CASE Unauthorized(j)
  <2>1. PICK r \in request[j] :
          /\ r.token > TokenLife
          /\ AddsFaults(j, Unless(r.flight <= TokenLife, "network"))
    BY <1>13 DEF Unauthorized, AddsFaults
  <2>2. r.flight = r.token /\ r.token \in Nat
    BY <1>1, <2>1, CoinbaseAssumption DEF TypeInv, Request
  <2>3. Unless(r.flight <= TokenLife, "network") = {"network"}
    BY <2>1, <2>2, CoinbaseAssumption DEF Unless
  <2> QED
    BY <1>3, <2>1, <2>3
<1> QED
  BY <1>8, <1>9, <1>10, <1>11, <1>12, <1>13 DEF Serve

\* A job fails only if something went wrong outside of the program for it, or
\* another job spent its money early: no token expires in the client's hands and
\* no answer is misread, and jobs that share the balances do not starve each
\* other.
THEOREM FailuresHaveACauseHolds == Spec => []FailuresHaveACause
<1> DEFINE Inv == TypeInv /\ EffectInv /\ BalanceInv /\ EarlyInv
<1>1. Init => CauseInv
  BY DEF Init, CauseInv
<1>2. Inv /\ CauseInv /\ [Next]_vars => CauseInv'
  <2> SUFFICES ASSUME Inv, CauseInv, [Next]_vars PROVE CauseInv'
    OBVIOUS
  <2>1. /\ at \in [Job -> Place] /\ answer \in [Job -> SUBSET Answer]
        /\ faults \in [Job -> SUBSET Fault]
    BY DEF TypeInv, TypeOK
  <2>2. \A k \in Job : Caused(k) => Caused(k)'
    BY FaultsGrow DEF Caused
  <2>3. ASSUME NEW k \in Job, at'[k] = at[k], answer'[k] = answer[k]
        PROVE  (at'[k] = "failed" \/ (answer'[k] # {} /\ ~ Accepted(k, at[k])'))
                 => Caused(k)'
    <3>1. Accepted(k, at[k])' <=> Accepted(k, at[k])
      BY <2>3 DEF Accepted
    <3> QED
      BY <2>2, <2>3, <3>1 DEF CauseInv
  <2>4. ASSUME NEW j \in Job, Serve(j) PROVE CauseInv'
    <3>1. at' = at
      BY <2>4, ServeStep
    <3>2. \A k \in Job : k # j => answer'[k] = answer[k]
      <4>1. PICK a \in Answer : Respond(j, a)
        BY <2>4, ServeStep
      <4> QED
        BY <2>1, <4>1 DEF Respond
    <3>3. ~ Accepted(j, at[j])' => Caused(j)'
      BY <2>4, CauseServe
    <3>4. at[j] # "failed"
      BY <2>4, ServeStep DEF EffectInv, JobEffect, Asking
    <3> QED
      BY <2>3, <3>1, <3>2, <3>3, <3>4 DEF CauseInv
  <2>5. ASSUME NEW j \in Job, ClientStep(j) \/ Disconnected(j) PROVE CauseInv'
    <3>1. /\ \A k \in Job \ {j} : at'[k] = at[k] /\ answer'[k] = answer[k]
          /\ answer'[j] = {}
      BY <2>1, <2>5
      DEF ClientStep, Disconnected, RequestQuote, CommitTrade, Sleep,
          withdraw_usd, RequestWithdrawal, Initiated, Refused, send, fail
    <3>2. at'[j] = "failed" => Refused(j) \/ Disconnected(j)
      BY <2>1, <2>5
      DEF ClientStep, RequestQuote, CommitTrade, Sleep, withdraw_usd,
          RequestWithdrawal, Initiated, send
    <3>3. Refused(j) => Caused(j)
      BY DEF Refused, CauseInv
    <3>4. Disconnected(j) => Caused(j)'
      BY <2>1 DEF Disconnected, Caused
    <3> QED
      BY <2>2, <2>3, <3>1, <3>2, <3>3, <3>4 DEF CauseInv
  <2>6. CASE \/ Tick \/ UNCHANGED vars
             \/ \E j \in Job : Credit(j) \/ Settle(j)
    <3>1. UNCHANGED <<at, answer>>
      BY <2>6 DEF Tick, vars, Credit, Settle, netVars
    <3> QED
      BY <2>3, <3>1 DEF CauseInv
  <2> QED
    BY <2>4, <2>5, <2>6 DEF Next
<1>3. CauseInv => FailuresHaveACause
  BY DEF CauseInv, FailuresHaveACause, Caused
<1> QED
  BY <1>1, <1>2, <1>3, TypeInvariance, EffectCorrect, BooksBalance,
     EarlyCorrect, PTL DEF Spec

=============================================================================

\* Two jobs that share the balances; the USD account configured, on the first
\* page of the list, or beyond it.
SPECIFICATION LiveSpec
CONSTANTS
  j1 = j1
  j2 = j2
  Job = {j1, j2}
  usdc_amount <- Amounts
  total_fee <- Fees
  sell_settle_delay = 2
  TokenLife = 1
  AccountLimit = 1
  MaxLatency = 2
  SettleLags = {1, 2}
INVARIANTS TypeOK FailuresHaveACause SettledBeforeWithdrawal OnlyFailedStranded
PROPERTIES ImplementsContract JobsEnd

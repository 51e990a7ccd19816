\* A job that meets a passing trouble.
SPECIFICATION Spec
CONSTANTS
  j1 = j1
  j2 = j2
  Job = {j1, j2}
  usdc_amount <- Amounts
  total_fee <- Fees
  sell_settle_delay = 2
  TokenLife = 1
  AccountLimit = 1
  MaxLatency = 2
  SettleLags = {1, 2}
INVARIANT FailedIsPermanent

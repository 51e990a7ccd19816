\* Every call of a pass can fail, but not for ever.
SPECIFICATION LiveSpec
CONSTANTS
  c1 = c1
  c2 = c2
  e1 = e1
  e2 = e2
  a1 = a1
  a2 = a2
  x1 = x1
  x2 = x2
  t1 = t1
  t2 = t2
  p1 = p1
  p2 = p2
  Chain = {c1}
  Entry = {e1, e2}
  Address = {a1, a2}
  TxHash = {x1, x2}
  Transfer = {t1, t2}
  Proc = {p1}
  entry_address <- TwoEntries
  chain_of <- TwoTxs
  tx_of <- TwoTransfers
  recipient <- TwoRecipients
  amount <- MixedAmounts
  tx_prefix <- DistinctPrefixes
  confirmation_blocks <- OneConfirmation
  start_blocks <- FromBlockOne
  DEFAULT_CONFIRMATION_BLOCKS = 2
  USDC_DUST_THRESHOLD = 1
  max_auto_amount = 3
  Retention = 1
  TicksPerDay = 1
  HeightLag = 0
  LogLag = 1
  PassTicks = 1
  MaxHead = 3
  MaxTime = 0
  MaxCrash = 1
  MaxSaveFail = 0
INVARIANTS IndInv
PROPERTIES DepositsHandled

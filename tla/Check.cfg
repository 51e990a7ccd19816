\* Two addresses, three deposits, a channel of one and two jobs at a time; a
\* second chain that is not configured. Passes without end.
SPECIFICATION LiveSpec
CONSTANTS
  c1 = c1
  c2 = c2
  e1 = e1
  e2 = e2
  a1 = a1
  a2 = a2
  x1 = x1
  x2 = x2
  x3 = x3
  t1 = t1
  t2 = t2
  t3 = t3
  Chain = {c1, c2}
  Entry = {e1, e2}
  Address = {a1, a2}
  TxHash = {x1, x2, x3}
  Transfer = {t1, t2, t3}
  entry_address <- TwoEntries
  chain_of <- ThreeTxs
  tx_of <- ThreeTransfers
  recipient <- Recipients
  amount <- Amounts
  tx_prefix <- Prefixes
  block_of <- Blocks
  confirmation_blocks <- OneConfirmation
  start_blocks <- FromBlockOne
  DEFAULT_CONFIRMATION_BLOCKS = 1
  USDC_DUST_THRESHOLD = 1
  max_auto_amount = 3
  Retention = 1
  TicksPerDay = 1
  U64Max = 9
  MaxHeight = 3
  CHANNEL_CAPACITY = 1
  MAX_CONCURRENT_JOBS = 2
  CHAIN_STALE_THRESHOLD = 0
INVARIANTS TypeOK SentAccounted MergeComplete SumAgrees NothingLeftBehind NoDeadlock
PROPERTIES PassEnds OutageReported

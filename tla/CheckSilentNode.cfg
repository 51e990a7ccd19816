\* Everything the process controls goes on, but a node may never answer.
SPECIFICATION SilentNodeSpec
CONSTANTS
  c1 = c1
  c2 = c2
  e1 = e1
  e2 = e2
  a1 = a1
  a2 = a2
  x1 = x1
  x2 = x2
  x3 = x3
  t1 = t1
  t2 = t2
  t3 = t3
  Chain = {c1, c2}
  Entry = {e1}
  Address = {a1}
  TxHash = {x1}
  Transfer = {t1}
  entry_address <- OneEntry
  chain_of <- OneTx
  tx_of <- OneTransfer
  recipient <- OneRecipient
  amount <- OneAmount
  tx_prefix <- OnePrefix
  block_of <- OneBlock
  confirmation_blocks <- OneConfirmation
  start_blocks <- FromBlockOne
  DEFAULT_CONFIRMATION_BLOCKS = 1
  USDC_DUST_THRESHOLD = 1
  max_auto_amount = 3
  Retention = 1
  TicksPerDay = 1
  U64Max = 9
  MaxHeight = 2
  CHANNEL_CAPACITY = 1
  MAX_CONCURRENT_JOBS = 1
  CHAIN_STALE_THRESHOLD = 1
PROPERTIES TimeoutsEndPass

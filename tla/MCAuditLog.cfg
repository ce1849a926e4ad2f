CONSTANTS
  t1 = t1
  t2 = t2
  Trader <- mcTrader
  NumSeats = 2
  BidsSize = 1
  AsksSize = 2
  TickSize = 1
  BaseLotsPerBaseUnit = 1
  TakerFeeBps = 10000
  MaxU64 = 20000
  MaxSeq = 4
  MAX_INNER_INSTRUCTION_SIZE = 237
  LOG_IX_ACCOUNT_META_SIZE = 34
  HEADER_LEN = 93
  Packets <- mcPackets
  Batches <- mcBatches
  Transfers <- mcTransfers
  Claims = {TRUE}
  ReduceSizes = {1}
  UpToLimits <- mcUpToLimits
  StatusRequests = {}
  SeatRequests = {}
  InitStatus = "Active"
  InitSeat = "Approved"
  InitWallet <- mcWallet
  MaxSlot = 2
SPECIFICATION FairLogSpec
INVARIANT LogRebuildsMarket
INVARIANT LogIsComplete
INVARIANT NoUnderflow
PROPERTY TransactionsEnd

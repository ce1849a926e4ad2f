CONSTANTS
  t1 = t1
  t2 = t2
  Trader <- mcTrader
  NumSeats = 2
  BidsSize = 2
  AsksSize = 2
  TickSize = 1
  BaseLotsPerBaseUnit = 1
  TakerFeeBps = 0
  MaxU64 = 20000
  MaxSeq = 4
  Packets <- mcPackets
  Transfers <- mcTransfers
  Claims = {}
  ReduceSizes = {}
  UpToLimits = {}
  StatusRequests = {}
  SeatRequests = {}
  InitStatus = "PostOnly"
  InitSeat = "Approved"
  InitWallet <- mcWallet
  MaxSlot = 1
SPECIFICATION FairSpec
PROPERTY TradesOnlyWhenActive
CHECK_DEADLOCK FALSE

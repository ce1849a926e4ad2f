CONSTANTS
  t1 = t1
  t2 = t2
  Trader <- mcTrader
  NumSeats = 1
  BidsSize = 1
  AsksSize = 1
  TickSize = 1
  BaseLotsPerBaseUnit = 1
  TakerFeeBps = 0
  MaxU64 = 20000
  MaxSeq = 1
  Packets = {}
  Transfers <- mcTransfers
  Claims = {}
  ReduceSizes = {}
  UpToLimits = {}
  StatusRequests = {"Closed", "Tombstoned"}
  SeatRequests = {"Retired"}
  InitStatus = "PostOnly"
  InitSeat = "None"
  InitWallet <- mcLot
  MaxSlot = 1
SPECIFICATION FairRollupSpec
PROPERTY WithdrawsWhatWasRequested
CHECK_DEADLOCK FALSE

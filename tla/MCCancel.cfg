CONSTANTS
  t1 = t1
  t2 = t2
  Trader <- mcTrader
  NumSeats = 2
  BidsSize = 2
  AsksSize = 2
  TickSize = 1
  BaseLotsPerBaseUnit = 1
  TakerFeeBps = 0
  MaxU64 = 20000
  MaxSeq = 4
  Packets <- mcPackets
  Batches <- mcBatches
  Transfers <- mcTransfers
  Claims = {TRUE, FALSE}
  ReduceSizes = {1}
  UpToLimits <- mcUpToLimits
  StatusRequests = {}
  SeatRequests = {}
  InitStatus = "Active"
  InitSeat = "Approved"
  InitWallet <- mcWallet
  MaxSlot = 2
SPECIFICATION BatchSpec
INVARIANT LockedMatchesBook
INVARIANT VaultsBackClaims
INVARIANT SkippingKeepsFunded
PROPERTY CancelSettlesExactly
SYMMETRY mcSymmetry

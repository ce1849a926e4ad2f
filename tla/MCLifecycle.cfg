CONSTANTS
  t1 = t1
  t2 = t2
  Trader <- mcTrader
  NumSeats = 1
  BidsSize = 1
  AsksSize = 1
  TickSize = 1
  BaseLotsPerBaseUnit = 1
  TakerFeeBps = 2500
  MaxU64 = 20000
  MaxSeq = 3
  Packets <- mcPackets
  Transfers <- mcTransfers
  Claims = {TRUE, FALSE}
  ReduceSizes = {1}
  UpToLimits <- mcUpToLimits
  StatusRequests = {"Active", "PostOnly", "Paused", "Closed", "Tombstoned"}
  SeatRequests = {"NotApproved", "Approved", "Retired"}
  InitStatus = "PostOnly"
  InitSeat = "None"
  InitWallet <- mcWallet
  MaxSlot = 2
SPECIFICATION Spec
INVARIANT TypeOK
INVARIANT OwnersRegistered
INVARIANT SeatsBacked
INVARIANT LockedMatchesBook
INVARIANT VaultsBackClaims
INVARIANT NoUnderflow
INVARIANT NothingStranded
SYMMETRY mcSymmetry
CHECK_DEADLOCK FALSE

CONSTANTS
  t1 = t1
  t2 = t2
  Trader <- mcTrader
  NumSeats = 2
  BidsSize = 2
  AsksSize = 1
  TickSize = 1
  BaseLotsPerBaseUnit = 1
  TakerFeeBps = 2500
  MaxU64 = 20000
  MaxSeq = 4
  Packets <- mcPackets
  Transfers = {}
  Claims = {}
  ReduceSizes = {}
  UpToLimits = {}
  StatusRequests = {}
  SeatRequests = {}
  InitStatus = "Active"
  InitSeat = "Approved"
  InitWallet <- mcWallet
  MaxSlot = 2
SPECIFICATION Spec
INVARIANT IndInv
INVARIANT LockedMatchesBook
INVARIANT VaultsBackClaims
INVARIANT PostOnlyNeverTrades
CHECK_DEADLOCK FALSE
SYMMETRY mcSymmetry

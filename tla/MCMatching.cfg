CONSTANTS
  t1 = t1
  t2 = t2
  Trader <- mcTrader
  NumSeats = 2
  BidsSize = 2
  AsksSize = 2
  TickSize = 2
  BaseLotsPerBaseUnit = 2
  TakerFeeBps = 2500
  MaxU64 = 20000
  MaxSeq = 4
  Packets <- mcPackets
  Transfers = {}
  Claims = {}
  ReduceSizes = {}
  UpToLimits = {}
  StatusRequests = {}
  SeatRequests = {}
  InitStatus = "Active"
  InitSeat = "Approved"
  InitWallet <- mcWallet
  MaxSlot = 1
SPECIFICATION Spec
INVARIANT UncrossedBook
INVARIANT OrderIdsDistinct
INVARIANT LockedMatchesBook
INVARIANT VaultsBackClaims
INVARIANT NoUnderflow
INVARIANT BudgetRespected
PROPERTY MakersGetTheirPrice
PROPERTY PriceTimePriority
CHECK_DEADLOCK FALSE
SYMMETRY mcSymmetry

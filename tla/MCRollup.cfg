CONSTANTS
  t1 = t1
  t2 = t2
  Trader <- mcTrader
  NumSeats = 2
  BidsSize = 1
  AsksSize = 1
  TickSize = 1
  BaseLotsPerBaseUnit = 1
  TakerFeeBps = 2500
  MaxU64 = 20000
  MaxSeq = 3
  Packets <- mcPackets
  Transfers <- mcTransfers
  Claims = {FALSE}
  ReduceSizes = {1}
  UpToLimits <- mcUpToLimits
  StatusRequests = {}
  SeatRequests = {"Retired"}
  InitStatus = "Active"
  InitSeat = "Approved"
  InitWallet <- mcWallet
  MaxSlot = 1
SPECIFICATION RollupSpec
 
INVARIANT VaultsBackBothLayers
INVARIANT NoUnderflow
 
 
SYMMETRY mcSymmetry

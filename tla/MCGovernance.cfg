CONSTANTS
  t1 = t1
  t2 = t2
  k1 = k1
  k2 = k2
  Trader <- mcTrader
  Key <- mcKey
  Creator = k1
  SessionOwner <- mcSessionOwner
  SeatOwner <- mcSeatOwner
  Expiry = {2}
  NumSeats = 2
  BidsSize = 1
  AsksSize = 1
  TickSize = 1
  BaseLotsPerBaseUnit = 1
  TakerFeeBps = 2500
  MaxU64 = 20000
  MaxSeq = 3
  Packets <- mcPackets
  Transfers <- mcTransfers
  Claims = {}
  ReduceSizes = {}
  UpToLimits = {}
  StatusRequests = {}
  SeatRequests = {"NotApproved", "Approved"}
  InitStatus = "Active"
  InitSeat = "Approved"
  InitWallet <- mcWallet
  MaxSlot = 2
SPECIFICATION GovernanceSpec
INVARIANT GovernanceInv
INVARIANT FeesFollowRecipient
INVARIANT OwnersRegistered
PROPERTY SessionsMoveNoTokens
PROPERTY SessionsWithinGrant

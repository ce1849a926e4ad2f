----------------------------- MODULE MCReceipts -----------------------------
(***************************************************************************)
(* The receipts alone: two traders that compete for one seat and deposit   *)
(* and withdraw on a market nobody trades on, which the authority may      *)
(* delegate, take back and close down at any time.                         *)
(***************************************************************************)
EXTENDS RollupMarket

CONSTANTS t1, t2

mcTrader == {t1, t2}
mcLot == [quote |-> 1, base |-> 0]
mcTransfers == {mcLot, [quote |-> 2, base |-> 0]}
mcOneTransfer == {mcLot}
============================================================================

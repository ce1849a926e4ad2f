------------------------- MODULE MCPostOnlyStatus -------------------------
(***************************************************************************)
(* A market in the PostOnly status whose traders deposit lots and place    *)
(* limit orders, paid from their token accounts or from their free lots.   *)
(***************************************************************************)
EXTENDS MarketAccounting

CONSTANTS t1, t2

mcTrader == {t1, t2}

mcPackets ==
  [type : {"Limit"}, side : Side, price : {1}, base : {1}, quote : {0},
   minBase : {0}, minQuote : {0}, stb : {"CancelProvide"}, limit : {MaxU64},
   lvs : {0}, freeFunds : BOOLEAN, reject : {FALSE}, silent : {FALSE}]

mcTransfers == {[quote |-> 2, base |-> 2]}
mcWallet == [quote |-> 3, base |-> 3]
============================================================================

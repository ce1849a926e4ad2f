---------------------------- MODULE MCLifecycle ----------------------------
(***************************************************************************)
(* The life of a market with one seat for two traders, from its            *)
(* initialisation to its removal: seats requested, approved, withdrawn and *)
(* evicted, deposits and withdrawals, cancellations of every kind, a swap  *)
(* by a taker without a seat, and every status the authority can choose.   *)
(***************************************************************************)
EXTENDS MarketAccounting, TLC

CONSTANTS t1, t2

mcTrader == {t1, t2}
mcSymmetry == Permutations(mcTrader)

Quote == [type |-> "PostOnly", side |-> "Ask", price |-> 1, base |-> 2,
          quote |-> 0, minBase |-> 0, minQuote |-> 0,
          stb |-> "CancelProvide", limit |-> MaxU64, lvs |-> 0,
          freeFunds |-> FALSE, reject |-> FALSE, silent |-> FALSE]

mcPackets ==
  {Quote,
   [Quote EXCEPT !.side = "Bid", !.base = 1, !.lvs = 1, !.freeFunds = TRUE],
   [Quote EXCEPT !.type = "IOC", !.side = "Bid", !.price = MaxU64, !.base = 1]}

mcTransfers == {[quote |-> 1, base |-> 0]}
mcUpToLimits == {[search |-> 1, cancel |-> 1, tick |-> 1]}
mcWallet == [quote |-> 2, base |-> 2]
============================================================================

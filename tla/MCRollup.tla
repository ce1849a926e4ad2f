------------------------------ MODULE MCRollup ------------------------------
(***************************************************************************)
(* Two traders on a market that moves between the layers: an ask posted    *)
(* and taken with free funds, deposits and withdrawals with receipts in    *)
(* every order, orders cancelled on the rollup, and seats retired and      *)
(* evicted on the base layer.                                              *)
(***************************************************************************)
EXTENDS RollupMarket, TLC

CONSTANTS t1, t2

mcTrader == {t1, t2}
mcSymmetry == Permutations(mcTrader)

Quote == [type |-> "PostOnly", side |-> "Ask", price |-> 1, base |-> 1,
          quote |-> 0, minBase |-> 0, minQuote |-> 0,
          stb |-> "CancelProvide", limit |-> MaxU64, lvs |-> 0,
          freeFunds |-> TRUE, reject |-> FALSE, silent |-> FALSE]

mcPackets ==
  {Quote, [Quote EXCEPT !.type = "IOC", !.side = "Bid"]}

mcWallet == [quote |-> 2, base |-> 1]
mcTransfers == {mcWallet}
mcUpToLimits == {[search |-> 1, cancel |-> 1, tick |-> 1]}
============================================================================

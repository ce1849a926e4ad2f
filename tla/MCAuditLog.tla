----------------------------- MODULE MCAuditLog -----------------------------
(***************************************************************************)
(* Two traders, one of them with a full side of the book: matching against *)
(* several orders with every self trade behaviour, expiring orders,        *)
(* evictions, ladders and cancellations, with a log instruction that is    *)
(* full after two events and a taker fee of 100%.                          *)
(***************************************************************************)
EXTENDS MarketLog

CONSTANTS t1, t2

mcTrader == {t1, t2}

Base == [type |-> "PostOnly", side |-> "Bid", price |-> 1, base |-> 1,
         quote |-> 0, minBase |-> 0, minQuote |-> 0, stb |-> "CancelProvide",
         limit |-> MaxU64, lvs |-> 0, freeFunds |-> FALSE, reject |-> FALSE,
         silent |-> FALSE]

mcPackets ==
  {[Base EXCEPT !.side = "Ask", !.price = 2, !.base = 2],
   [Base EXCEPT !.side = "Ask", !.lvs = 1],
   [Base EXCEPT !.price = 2, !.lvs = 1],
   [Base EXCEPT !.type = "IOC", !.price = 2, !.base = 0, !.quote = 3],
   [Base EXCEPT !.type = "IOC", !.side = "Ask"]}
  \cup
  {[Base EXCEPT !.type = "Limit", !.price = 2, !.base = 2, !.stb = b] :
     b \in {"Abort", "CancelProvide", "DecrementTake"}}

mcBatches ==
  {[bids |-> <<>>, asks |-> <<[price |-> 2, size |-> 1, lvs |-> 0],
                              [price |-> 1, size |-> 1, lvs |-> 2]>>,
    skip |-> FALSE, failOnCross |-> FALSE, freeFunds |-> FALSE]}

mcWallet == [quote |-> 6, base |-> 2]
mcTransfers == {NoLots}
mcUpToLimits == {[search |-> 2, cancel |-> 1, tick |-> 1]}
============================================================================

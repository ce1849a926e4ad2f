---------------------------- MODULE MCMatching ----------------------------
(***************************************************************************)
(* Matching between two seated traders of an active market: crossing limit *)
(* orders, immediate-or-cancel orders with base and quote budgets, self    *)
(* trades, match limits and partial fills.                                 *)
(***************************************************************************)
EXTENDS MarketAccounting, TLC

CONSTANTS t1, t2

mcTrader == {t1, t2}
mcSymmetry == Permutations(mcTrader)

Base == [type |-> "Limit", side |-> "Bid", price |-> 1, base |-> 1,
         quote |-> 0, minBase |-> 0, minQuote |-> 0, stb |-> "CancelProvide",
         limit |-> MaxU64, lvs |-> 0, freeFunds |-> FALSE, reject |-> FALSE,
         silent |-> FALSE]

\* Limit orders of one and of three base lots; orders that sell or buy for
\* three quote lots at any price; orders for two base lots with a minimum.
mcPackets ==
  {[Base EXCEPT !.side = s, !.price = x[1], !.base = x[2]] :
     s \in Side, x \in {<<1, 3>>, <<2, 1>>, <<2, 3>>}}
  \cup
  {[Base EXCEPT !.type = "IOC", !.side = s, !.price = IF s = "Bid" THEN MaxU64 ELSE 0,
                !.base = 0, !.quote = 3, !.stb = x[1], !.limit = x[2]] :
     s \in Side, x \in {<<"Abort", 1>>, <<"DecrementTake", MaxU64>>}}
  \cup
  {[Base EXCEPT !.type = "IOC", !.side = s, !.price = 2, !.base = 2, !.minQuote = 2] :
     s \in Side}

mcWallet == [quote |-> 12, base |-> 6]
============================================================================

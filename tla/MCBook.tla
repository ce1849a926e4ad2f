------------------------------ MODULE MCBook ------------------------------
(***************************************************************************)
(* A book at its capacity with orders that expire: post-only orders that   *)
(* are rejected or moved, evictions of the least aggressive order, limit   *)
(* orders that stop at their match limit in front of expired orders, and   *)
(* orders paid from free lots only.                                        *)
(***************************************************************************)
EXTENDS MarketAccounting, TLC

CONSTANTS t1, t2

mcTrader == {t1, t2}
mcSymmetry == Permutations(mcTrader)

PostOnly == [type |-> "PostOnly", side |-> "Bid", price |-> 1, base |-> 1,
             quote |-> 0, minBase |-> 0, minQuote |-> 0,
             stb |-> "CancelProvide", limit |-> MaxU64, lvs |-> 0,
             freeFunds |-> FALSE, reject |-> FALSE, silent |-> FALSE]

mcPackets ==
  {[PostOnly EXCEPT !.side = s, !.price = p, !.lvs = l] :
     s \in Side, p \in {1, 2}, l \in {0, 1}}
  \cup
  {[PostOnly EXCEPT !.side = s, !.reject = TRUE, !.freeFunds = f, !.silent = ~ f] :
     s \in Side, f \in BOOLEAN}
  \cup
  {[PostOnly EXCEPT !.type = "Limit", !.side = s, !.price = 2, !.base = 2,
                    !.lvs = l, !.limit = 1, !.freeFunds = f] :
     s \in Side, l \in {0, 1}, f \in BOOLEAN}

mcWallet == [quote |-> 5, base |-> 3]
============================================================================

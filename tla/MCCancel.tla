----------------------------- MODULE MCCancel -----------------------------
(***************************************************************************)
(* Two seated traders quote on both sides and withdraw their quotes: single *)
(* orders and ladders in every mode, cancellations by id (the caller may   *)
(* name orders of the other trader), of all orders and of the first few of *)
(* one side, with and without claiming the funds, interleaved with         *)
(* deposits, withdrawals and expiring orders.                              *)
(***************************************************************************)
EXTENDS BatchOrders

CONSTANTS t1, t2

mcTrader == {t1, t2}
mcSymmetry == Permutations(mcTrader)

Quote == [type |-> "PostOnly", side |-> "Bid", price |-> 1, base |-> 2,
          quote |-> 0, minBase |-> 0, minQuote |-> 0,
          stb |-> "CancelProvide", limit |-> MaxU64, lvs |-> 0,
          freeFunds |-> FALSE, reject |-> FALSE, silent |-> FALSE]

mcPackets == {Quote, [Quote EXCEPT !.side = "Ask", !.price = 2, !.lvs = 1]}

Level(price, size) == [price |-> price, size |-> size, lvs |-> 0]

\* Two bids of one price around another one, and an ask that may cross.
Ladder == [bids |-> <<Level(1, 1), Level(2, 1), Level(1, 1)>>,
           asks |-> <<Level(3, 2)>>,
           skip |-> TRUE, failOnCross |-> FALSE, freeFunds |-> FALSE]

mcBatches ==
  {Ladder,
   [Ladder EXCEPT !.freeFunds = TRUE],
   [Ladder EXCEPT !.skip = FALSE, !.bids = <<Level(2, 1)>>],
   [Ladder EXCEPT !.skip = FALSE, !.failOnCross = TRUE, !.bids = <<>>,
                  !.asks = <<Level(2, 1)>>]}

mcTransfers == {[quote |-> 1, base |-> 1]}
mcUpToLimits == {[search |-> 2, cancel |-> 1, tick |-> 2]}
mcWallet == [quote |-> 3, base |-> 2]
============================================================================

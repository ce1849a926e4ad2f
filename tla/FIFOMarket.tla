----------------------------- MODULE FIFOMarket -----------------------------
(***************************************************************************)
(* The matching engine of one market account: the order book, the trader   *)
(* balances and the fee counters, and the operations of fifo.rs on them.   *)
(*                                                                         *)
(* A market is a record                                                    *)
(*   book        for each side, the set of resting orders                  *)
(*   registered  the traders that hold a seat in the account's trader tree *)
(*   free,locked lots of each asset, for every trader                      *)
(*   seq         the next order sequence number                            *)
(*   unclaimed, collected   taker fees in quote lots                       *)
(* Every operation is an operator from markets to markets.  The module     *)
(* PhoenixMarket turns them into the steps of the program's instructions.  *)
(***************************************************************************)
EXTENDS Integers, FiniteSets

CONSTANTS
  Trader,               \* the trader public keys
  NumSeats,             \* capacity of the trader tree
  BidsSize, AsksSize,   \* capacity of each side of the book
  TickSize,             \* tick_size_in_quote_lots_per_base_unit
  BaseLotsPerBaseUnit,
  TakerFeeBps,
  MaxU64,               \* u64::MAX where it stands for "no limit"
  MaxSeq                \* u64::MAX >> 1, the last order sequence number

ASSUME ConfigAssumption ==
  /\ NumSeats \in Nat /\ BidsSize \in Nat /\ AsksSize \in Nat
  /\ BaseLotsPerBaseUnit \in Nat \ {0}
  /\ TickSize \in Nat \ {0}
  /\ TakerFeeBps \in Nat /\ TakerFeeBps <= 10000
  /\ MaxU64 \in Nat \ {0}
  /\ MaxSeq \in Nat \ {0}

\* assert!(tick_size % base_lots_per_base_unit == 0): every price is a whole
\* number of quote lots per base lot.
ASSUME TickAssumption == TickSize % BaseLotsPerBaseUnit = 0

----------------------------------------------------------------------------
Side == {"Bid", "Ask"}
Asset == {"quote", "base"}

Opposite(side) == IF side = "Bid" THEN "Ask" ELSE "Bid"

\* The asset an order of this side locks and pays, and the one it receives.
Pays(side) == IF side = "Bid" THEN "quote" ELSE "base"
Gets(side) == IF side = "Bid" THEN "base" ELSE "quote"

Capacity(side) == IF side = "Bid" THEN BidsSize ELSE AsksSize

Least(a, b) == IF a <= b THEN a ELSE b
Largest(a, b) == IF a >= b THEN a ELSE b

NoLots == [a \in Asset |-> 0]

----------------------------------------------------------------------------
(* Order ids.  A bid stores the complement of its sequence number, so that *)
(* the leading bit tells the side.                                         *)

StoredSeq(side, n) == IF side = "Bid" THEN 2 * MaxSeq + 1 - n ELSE n

from_order_sequence_number(n) == IF n > MaxSeq THEN "Bid" ELSE "Ask"

\* Mutation: bids compared like asks.
Precedes_bidsLikeAsks(x, y) ==
  IF from_order_sequence_number(x.seq) = "Bid"
  THEN x.price > y.price \/ (x.price = y.price /\ x.seq < y.seq)
  ELSE x.price < y.price \/ (x.price = y.price /\ x.seq < y.seq)

\* FIFOOrderId's order: better price first, then the earlier order.
Precedes(x, y) ==
  IF from_order_sequence_number(x.seq) = "Bid"
  THEN x.price > y.price \/ (x.price = y.price /\ x.seq > y.seq)
  ELSE x.price < y.price \/ (x.price = y.price /\ x.seq < y.seq)

\* get_min and get_max of one side of the book.
IsBest(book, o) == o \in book /\ \A x \in book \ {o} : Precedes(o, x)
IsWorst(book, o) == o \in book /\ \A x \in book \ {o} : Precedes(x, o)

\* Mutation: equal prices do not cross.
Crosses_strict(side, price, resting) ==
  IF side = "Bid" THEN resting < price ELSE resting > price

\* An incoming order of this side and price crosses a resting price.
Crosses(side, price, resting) ==
  IF side = "Bid" THEN resting <= price ELSE resting >= price

\* Last valid slot 0 means the order never expires.
is_expired(o, now) == o.lvs # 0 /\ o.lvs < now

----------------------------------------------------------------------------
(* Quantities and fees.                                                    *)

AdjustedQuote(price, lots) == price * TickSize * lots

\* What an order of this side locks for `lots' base lots at `price'.
Lots(side, price, lots) ==
  IF side = "Bid" THEN AdjustedQuote(price, lots) \div BaseLotsPerBaseUnit
                  ELSE lots

compute_fee(adj) == (adj * TakerFeeBps + 10000 - 1) \div 10000

RoundUp(adj) ==
  ((adj + BaseLotsPerBaseUnit - 1) \div BaseLotsPerBaseUnit) * BaseLotsPerBaseUnit
RoundDown(adj) == (adj \div BaseLotsPerBaseUnit) * BaseLotsPerBaseUnit

\* The quote lots of fee on everything an order matched.
FeeOn(adj) == RoundUp(compute_fee(adj)) \div BaseLotsPerBaseUnit

\* Mutation: the fee is not taken out of the budget.
BudgetForBuys_noFee(adj) == Least(adj, MaxU64)

\* The largest amount to match so that amount plus fee stays in the budget.
BudgetForBuys(adj) ==
  Least((adj * MaxU64) \div (compute_fee(MaxU64) + MaxU64), MaxU64)

\* The amount to match so that amount minus fee reaches the budget.
BudgetForSells(adj) ==
  Least((adj * MaxU64) \div (MaxU64 - compute_fee(MaxU64)), MaxU64)

----------------------------------------------------------------------------
(* Operations on a market.                                                 *)

EmptyMarket ==
  [book |-> [s \in Side |-> {}], registered |-> {},
   free |-> [t \in Trader |-> NoLots], locked |-> [t \in Trader |-> NoLots],
   seq |-> 1, unclaimed |-> 0, collected |-> 0]

CanRegister(m, t) == t \in m.registered \/ Cardinality(m.registered) < NumSeats

get_or_register_trader(m, t) ==
  IF t \in m.registered THEN m
  ELSE [m EXCEPT !.registered = @ \cup {t},
                 !.free = [m.free EXCEPT ![t] = NoLots],
                 !.locked = [m.locked EXCEPT ![t] = NoLots]]

\* The updates of a TraderState: one asset, or both.
AddLots(balance, t, a, n) == [balance EXCEPT ![t][a] = @ + n]
AddAll(balance, t, lots) ==
  [balance EXCEPT ![t] = [a \in Asset |-> @[a] + lots[a]]]

\* Mutation: an empty order stays on the book.
TakeFrom_keepEmpty(book, side, o, lots) ==
  [book EXCEPT ![side] = (@ \ {o}) \cup {[o EXCEPT !.size = @ - lots]}]

\* Take `lots' base lots off a resting order; an empty order leaves the book.
TakeFrom(book, side, o, lots) ==
  LET left == IF lots = o.size THEN {} ELSE {[o EXCEPT !.size = @ - lots]}
  IN [book EXCEPT ![side] = (@ \ {o}) \cup left]

\* Mutations: nothing is unlocked; the whole order is unlocked.
ReduceBy_noUnlock(m, side, o, lots) ==
  [m EXCEPT !.book = TakeFrom(m.book, side, o, lots),
            !.free = AddLots(m.free, o.trader, Pays(side), Lots(side, o.price, lots))]
ReduceBy_unlockAll(m, side, o, lots) ==
  [m EXCEPT !.book = TakeFrom(m.book, side, o, lots),
            !.locked = AddLots(m.locked, o.trader, Pays(side), - Lots(side, o.price, o.size)),
            !.free = AddLots(m.free, o.trader, Pays(side), Lots(side, o.price, o.size))]

\* Reduce a resting order and unlock what the lots held.
ReduceBy(m, side, o, lots) ==
  LET released == Lots(side, o.price, lots)
  IN [m EXCEPT !.book = TakeFrom(m.book, side, o, lots),
               !.locked = AddLots(m.locked, o.trader, Pays(side), - released),
               !.free = AddLots(m.free, o.trader, Pays(side), released)]

\* Cancel or expire a whole order.
RemoveOrder(m, side, o) == ReduceBy(m, side, o, o.size)

\* Mutation: a claim is not bounded by the free lots.
Claimable_unbounded(m, t, want) == want

\* What claim_funds_inner pays of a request.
Claimable(m, t, want) == [a \in Asset |-> Least(want[a], m.free[t][a])]

Debit(m, t, lots) ==
  [m EXCEPT !.free = AddAll(m.free, t, [a \in Asset |-> - lots[a]])]

\* Mutation: only one of the assets is credited.
Credit_baseOnly(m, t, lots) ==
  [m EXCEPT !.free = AddAll(m.free, t, [lots EXCEPT !["quote"] = 0])]

Credit(m, t, lots) ==
  [m EXCEPT !.free = AddAll(m.free, t, lots)]

HoldsNothing(m, t) == m.free[t] = NoLots /\ m.locked[t] = NoLots

\* Mutation: what is paid out stays free.
ReduceAndClaim_noDebit(m, side, o, lots, claim) ==
  [m |-> ReduceBy(m, side, o, lots),
   out |-> IF claim THEN [NoLots EXCEPT ![Pays(side)] = Lots(side, o.price, lots)]
                    ELSE NoLots]

\* reduce_order_inner followed by the optional claim of what it released:
\* the market afterwards and the lots that leave it.
ReduceAndClaim(m, side, o, lots, claim) ==
  LET reduced == ReduceBy(m, side, o, lots)
      out == IF claim
             THEN Claimable(reduced, o.trader,
                    [NoLots EXCEPT ![Pays(side)] = Lots(side, o.price, lots)])
             ELSE NoLots
  IN [m |-> Debit(reduced, o.trader, out), out |-> out]

\* Mutations: a partial fill unlocks the whole order; the maker is paid one
\* tick less.
Fill_unlockAll(m, side, o, lots) ==
  LET maker == Opposite(side)
  IN [m EXCEPT !.book = TakeFrom(m.book, maker, o, lots),
               !.locked = AddLots(m.locked, o.trader, Pays(maker),
                                  - Lots(maker, o.price, o.size)),
               !.free = AddLots(m.free, o.trader, Pays(side), Lots(side, o.price, lots))]
Fill_worsePrice(m, side, o, lots) ==
  LET maker == Opposite(side)
  IN [m EXCEPT !.book = TakeFrom(m.book, maker, o, lots),
               !.locked = AddLots(m.locked, o.trader, Pays(maker),
                                  - Lots(maker, o.price, lots)),
               !.free = AddLots(m.free, o.trader, Pays(side),
                                Lots(side, o.price - 1, lots))]

\* A taker of side `side' takes `lots' from the resting order o: the maker
\* gives what the order locked and receives the other asset.
Fill(m, side, o, lots) ==
  LET maker == Opposite(side)
      given == Lots(maker, o.price, lots)
      received == Lots(side, o.price, lots)
  IN [m EXCEPT !.book = TakeFrom(m.book, maker, o, lots),
               !.locked = AddLots(m.locked, o.trader, Pays(maker), - given),
               !.free = AddLots(m.free, o.trader, Pays(side), received)]

\* The order that a new order at this price may push out of a full book.
Evictable(m, side, price) ==
  {w \in m.book[side] : /\ IsWorst(m.book[side], w)
                        /\ IF side = "Bid" THEN w.price < price
                                           ELSE w.price > price}

\* Mutation: the evicted order keeps its lots locked.
MakeRoom_keepLocked(m, side, price) ==
  IF Cardinality(m.book[side]) = Capacity(side) /\ Evictable(m, side, price) # {}
  THEN [m EXCEPT !.book = [m.book EXCEPT ![side] = @ \ Evictable(m, side, price)]]
  ELSE m

MakeRoom(m, side, price) ==
  IF Cardinality(m.book[side]) = Capacity(side) /\ Evictable(m, side, price) # {}
  THEN RemoveOrder(m, side, CHOOSE w \in Evictable(m, side, price) : TRUE)
  ELSE m

\* Mutation: the sequence number is used again.
Post_sameSeq(m, side, t, price, lots, lvs) ==
  LET o == [price |-> price, seq |-> StoredSeq(side, m.seq), trader |-> t,
            size |-> lots, lvs |-> lvs]
      lock == Lots(side, price, lots)
      fromFree == Least(lock, m.free[t][Pays(side)])
  IN [m EXCEPT !.book = [m.book EXCEPT ![side] = @ \cup {o}],
               !.locked = AddLots(m.locked, t, Pays(side), lock),
               !.free = AddLots(m.free, t, Pays(side), - fromFree)]

\* Insert the order, lock its lots (drawing on free lots first) and use up
\* the sequence number.
Post(m, side, t, price, lots, lvs) ==
  LET o == [price |-> price, seq |-> StoredSeq(side, m.seq), trader |-> t,
            size |-> lots, lvs |-> lvs]
      lock == Lots(side, price, lots)
      fromFree == Least(lock, m.free[t][Pays(side)])
  IN [m EXCEPT !.book = [m.book EXCEPT ![side] = @ \cup {o}],
               !.locked = AddLots(m.locked, t, Pays(side), lock),
               !.free = AddLots(m.free, t, Pays(side), - fromFree),
               !.seq = @ + 1]

\* Mutation: collected fees can be collected again.
collect_fees_again(m) == [m EXCEPT !.collected = @ + m.unclaimed]

collect_fees(m) ==
  [m EXCEPT !.collected = @ + m.unclaimed, !.unclaimed = 0]
============================================================================

---------------------------- MODULE BatchOrders ----------------------------
(***************************************************************************)
(* PlaceMultiplePostOnlyOrders and its free-funds variant: a ladder of bids *)
(* and asks placed as post-only orders by one instruction.  The orders of  *)
(* each side are sorted and merged into price levels; the levels are then  *)
(* placed one after the other on the working copy txn.m, and one transfer  *)
(* per asset settles them all.                                             *)
(***************************************************************************)
EXTENDS MarketAccounting, SequencesExt

CONSTANT Batches   \* MultipleOrderPackets that clients submit

CondensedOrder == [price : Nat, size : Nat, lvs : Nat]

\* skip and failOnCross stand for the two choices that the enum
\* FailedMultipleLimitOrderBehavior combines.
MultipleOrderPacket ==
  [bids : Seq(CondensedOrder), asks : Seq(CondensedOrder),
   skip : BOOLEAN, failOnCross : BOOLEAN, freeFunds : BOOLEAN]

ASSUME BatchAssumption == Batches \subseteq MultipleOrderPacket

----------------------------------------------------------------------------
(* Levels of a ladder.                                                     *)

\* sorted_by is stable: o goes behind the orders that are at least as good.
InsertOrder(side, sorted, o) ==
  LET ahead == {i \in DOMAIN sorted :
                  IF side = "Bid" THEN sorted[i].price >= o.price
                                  ELSE sorted[i].price <= o.price}
  IN InsertAt(sorted, Cardinality(ahead) + 1, o)

\* group_by merges neighbours of the same price and expiry.
MergeOrder(levels, o) ==
  IF levels # <<>> /\ Last(levels).price = o.price /\ Last(levels).lvs = o.lvs
  THEN Append(Front(levels), [o EXCEPT !.size = @ + Last(levels).size])
  ELSE Append(levels, o)

Levels(side, orders) ==
  LET sorted == FoldLeft(LAMBDA s, o : InsertOrder(side, s, o), <<>>, orders)
      levels == FoldLeft(MergeOrder, <<>>, sorted)
  IN [i \in DOMAIN levels |->
        [side |-> side, price |-> levels[i].price, base |-> levels[i].size,
         lvs |-> levels[i].lvs]]

Prices(orders) == {orders[i].price : i \in DOMAIN orders}

\* highest_bid < lowest_ask, with 0 and u64::MAX for a side without orders.
SidesApart(b) ==
  \A bid \in Prices(b.bids) \cup {0}, ask \in Prices(b.asks) \cup {MaxU64} :
    bid < ask

----------------------------------------------------------------------------
(* The instruction.                                                        *)

get_available_balances_for_trader(t, b) ==
  [a \in Asset |-> market.free[t][a] + (IF b.freeFunds THEN 0 ELSE wallet[t][a])]

PlaceMultiplePostOnlyOrders(t, b) ==
  /\ Idle
  /\ post_allowed /\ seat[t] = "Approved"
  /\ SidesApart(b)
  /\ t \in market.registered
  /\ txn' = [phase |-> "level", who |-> t, m |-> market, b |-> b,
             levels |-> Levels("Bid", b.bids) \o Levels("Ask", b.asks),
             available |-> get_available_balances_for_trader(t, b),
             deposit |-> NoLots]
  /\ UNCHANGED <<market, status, seat, vault, wallet, treasury, slot>>

\* Skipped for want of funds, refused by the engine (which fails the whole
\* instruction), or expired already.
NextLevel ==
  LET p == Head(txn.levels)
      skipped == txn.b.skip /\ Lots(p.side, p.price, p.base) > txn.available[Pays(p.side)]
      refused == \/ txn.m.seq = MaxSeq
                 \/ p.side = "Bid" /\ p.price = 0
                 \/ p.base = 0
      expired == p.lvs # 0 /\ slot > p.lvs
      price == IF p.side = "Ask" THEN Largest(p.price, 1) ELSE p.price
  IN /\ Working("level")
     /\ txn.levels # <<>>
     /\ txn' = IF ~ skipped /\ refused THEN NoTxn
               ELSE IF skipped \/ expired THEN [txn EXCEPT !.levels = Tail(@)]
               ELSE [phase |-> "levelCross", p |-> [p EXCEPT !.price = price]] @@ txn

LevelMeetsExpired ==
  /\ Working("levelCross")
  /\ \E o \in Resting :
       /\ Meets(o) /\ is_expired(o, slot)
       /\ txn' = [txn EXCEPT !.m = RemoveOrder(txn.m, Maker, o)]

\* Mutation: free lots that were used still count as available.
PostLevel_depositOnly(price) ==
  LET side == txn.p.side
      a == Pays(side)
      room == MakeRoom(txn.m, side, price)
      posted == Post(room, side, txn.who, price, txn.p.base, txn.p.lvs)
      lock == Lots(side, price, txn.p.base)
      used == room.free[txn.who][a] - posted.free[txn.who][a]
  IN txn' = IF Cardinality(room.book[side]) >= Capacity(side) THEN NoTxn
            ELSE [phase |-> "level", who |-> txn.who, m |-> posted, b |-> txn.b,
                  levels |-> Tail(txn.levels),
                  available |-> IF txn.b.skip
                                THEN [txn.available EXCEPT ![a] = @ - (lock - used)]
                                ELSE txn.available,
                  deposit |-> [txn.deposit EXCEPT ![a] = @ + lock - used]]

\* The market with the level posted at this price, and what it costs.
PostLevel(price) ==
  LET side == txn.p.side
      a == Pays(side)
      room == MakeRoom(txn.m, side, price)
      posted == Post(room, side, txn.who, price, txn.p.base, txn.p.lvs)
      lock == Lots(side, price, txn.p.base)
      used == room.free[txn.who][a] - posted.free[txn.who][a]
  IN txn' = IF Cardinality(room.book[side]) >= Capacity(side) THEN NoTxn
            ELSE [phase |-> "level", who |-> txn.who, m |-> posted, b |-> txn.b,
                  levels |-> Tail(txn.levels),
                  available |-> IF txn.b.skip
                                THEN [txn.available EXCEPT ![a] = @ - lock]
                                ELSE txn.available,
                  deposit |-> [txn.deposit EXCEPT ![a] = @ + lock - used]]

LevelMeetsLive ==
  /\ Working("levelCross")
  /\ \E o \in Resting :
       /\ Meets(o) /\ ~ is_expired(o, slot)
       /\ IF txn.b.failOnCross \/ (txn.p.side = "Bid" /\ o.price <= 1)
          THEN txn' = NoTxn
          ELSE PostLevel(IF txn.p.side = "Bid" THEN o.price - 1 ELSE o.price + 1)

LevelMeetsNothing ==
  /\ Working("levelCross")
  /\ NothingMet
  /\ PostLevel(txn.p.price)

\* One transfer per asset; nothing may be owed if only free funds are used.
BatchDone ==
  LET affordable == \A a \in Asset :
        txn.deposit[a] <= (IF txn.b.freeFunds THEN 0 ELSE wallet[txn.who][a])
  IN /\ txn.phase = "level" /\ txn.levels = <<>>
     /\ \/ ~ affordable /\ Abort
        \/ /\ affordable
           /\ market' = txn.m
           /\ PayIn(txn.who, txn.deposit)
           /\ txn' = NoTxn
           /\ UNCHANGED <<status, seat, treasury, slot>>

BatchStep ==
  NextLevel \/ LevelMeetsExpired \/ LevelMeetsLive \/ LevelMeetsNothing \/ BatchDone

BatchNext ==
  \/ Next
  \/ BatchStep
  \/ \E t \in Trader, b \in Batches : PlaceMultiplePostOnlyOrders(t, b)

BatchSpec == Init /\ [][BatchNext]_vars

----------------------------------------------------------------------------
(* Properties.                                                             *)

\* In the modes that skip orders for want of funds, the running estimate of
\* what the trader can still spend is never negative ("This should never
\* underflow") and never more than what the trader really has, whatever own
\* orders expire or are pushed out on the way.  So the instruction never
\* fails for want of funds.
SkippingKeepsFunded ==
  txn.phase \in {"level", "levelCross"} =>
    \A a \in Asset :
      LET spendable == txn.m.free[txn.who][a]
                         + (IF txn.b.freeFunds THEN 0 ELSE wallet[txn.who][a])
      IN txn.b.skip => /\ txn.available[a] >= 0
                       /\ txn.available[a] + txn.deposit[a] <= spendable
============================================================================

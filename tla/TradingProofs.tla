--------------------------- MODULE TradingProofs ---------------------------
(***************************************************************************)
(* Fairness of matching and of post-only orders, for every configuration:  *)
(* price-time priority, that a post-only order changes nobody's holdings   *)
(* before it is posted, and that makers get at least their own price.      *)
(***************************************************************************)
EXTENDS AccountingProofs

----------------------------------------------------------------------------
(* Which steps belong to an order in progress.                             *)

\* The steps of an order that is being matched.
LEMMA MatchSteps ==
  ASSUME [Next]_vars, txn.phase = "match"
  PROVE  \/ MatchExpiredOrder \/ SelfTradeAbort \/ SelfTradeCancelProvide
         \/ SelfTradeDecrementTake \/ MatchOrder \/ MatchDone
         \/ UNCHANGED vars
<1>1. ~ (TraderNext \/ AuthorityNext \/ NextSlot)
  BY InstructionsStartIdle DEF NoTxn
<1>2. ~ (CancelStep \/ CancelDone \/ PlaceOrder)
  BY Zenon DEF CancelStep, CancelDone, PlaceOrder, Working
<1>3. ~ (CrossExpiredOrder \/ CrossLiveOrder \/ CrossNothing)
  BY Zenon DEF CrossExpiredOrder, CrossLiveOrder, CrossNothing, Working
<1>. QED  BY Zenon, <1>1, <1>2, <1>3 DEF Next, TxnStep, OrderStep

\* Only a fill adds to what an order has matched.
LEMMA OnlyFillsMatch ==
  ASSUME IndInv, [Next]_vars, txn.phase = "match", txn'.phase = "match",
         txn'.matchedBase > txn.matchedBase
  PROVE  MatchOrder
<1>1. txn \in OrderTxn /\ txn.matchedBase \in Int
  BY Zenon, OrderFacts DEF OrderTxn
<1>2. ~ UNCHANGED vars
  BY <1>1 DEF vars
<1>3. ~ (SelfTradeAbort \/ MatchDone)
  <2>1. SelfTradeAbort => txn'.phase = "idle"
    BY DEF SelfTradeAbort, NoTxn
  <2>2. MatchDone => txn'.phase = "place"
    BY Zenon, <1>1 DEF MatchDone, OrderTxn
  <2>. QED  BY Zenon, <2>1, <2>2
<1>4. ~ (MatchExpiredOrder \/ SelfTradeCancelProvide \/ SelfTradeDecrementTake)
  <2>1. MatchExpiredOrder \/ SelfTradeCancelProvide \/ SelfTradeDecrementTake
          => txn'.matchedBase = txn.matchedBase
    BY Zenon, <1>1
    DEF MatchExpiredOrder, SelfTradeCancelProvide, SelfTradeDecrementTake, OrderTxn
  <2>. QED  BY <1>1, <2>1
<1>. QED  BY Zenon, <1>2, <1>3, <1>4, MatchSteps

----------------------------------------------------------------------------
(* Price-time priority.                                                    *)

\* The stored sequence number of a resting order tells its side.
LEMMA SideOfOrder ==
  ASSUME NEW m, MarketOK(m, slot), NEW s \in Side, NEW o \in m.book[s]
  PROVE  /\ o.seq \in Nat /\ o.price \in Nat
         /\ from_order_sequence_number(o.seq) = s
<1>1. /\ m \in Market /\ BookOK(m.book, m.seq, slot) /\ MaxSeq \in Nat
  BY ConfigAssumption DEF MarketOK
<1>2. o.seq \in Nat /\ o.price \in Nat /\ m.seq \in Nat /\ m.seq <= MaxSeq
  BY <1>1 DEF Market, Order, Book, BookOK
<1>3. IF s = "Bid" THEN 2 * MaxSeq + 1 - m.seq < o.seq ELSE o.seq < m.seq
  BY Zenon, <1>1 DEF BookOK, Side
<1>. QED  BY <1>1, <1>2, <1>3 DEF from_order_sequence_number, Side

\* What the book's order means for two orders of one side.
LEMMA PrecedesMeans ==
  ASSUME NEW m, MarketOK(m, slot), NEW s \in Side,
         NEW o \in m.book[s], NEW x \in m.book[s], Precedes(o, x)
  PROVE  /\ IF s = "Bid" THEN x.price <= o.price ELSE x.price >= o.price
         /\ x.price = o.price => Arrival(x) >= Arrival(o)
<1>1. /\ o.seq \in Nat /\ o.price \in Nat /\ x.seq \in Nat /\ x.price \in Nat
      /\ from_order_sequence_number(o.seq) = s
      /\ from_order_sequence_number(x.seq) = s
  BY Zenon, SideOfOrder
<1>2. MaxSeq \in Nat
  BY ConfigAssumption
<1>. QED  BY <1>1, <1>2 DEF Precedes, Arrival, from_order_sequence_number, Side

\* The engine takes lots from the best order only: whoever rests on the same
\* side at a better price, or at the same price for longer, is served first.
THEOREM PriorityHolds == Spec => PriceTimePriority
<1>1. ASSUME IndInv, [Next]_vars, NEW s \in Side,
             txn.phase = "match", txn'.phase = "match",
             txn'.matchedBase > txn.matchedBase,
             NEW o \in txn.m.book[s] \ txn'.m.book[s], NEW x \in txn'.m.book[s]
      PROVE  /\ IF s = "Bid" THEN x.price <= o.price ELSE x.price >= o.price
             /\ x.price = o.price => Arrival(x) >= Arrival(o)
  <2>1. MatchOrder
    BY Zenon, <1>1, OnlyFillsMatch
  <2>2. /\ txn \in OrderTxn /\ MarketOK(txn.m, slot)
        /\ txn.p.side \in Side /\ Maker \in Side /\ txn.m \in Market
    BY Zenon, <1>1, OrderFacts DEF MarketOK
  <2>3. PICK b, n :
          /\ b \in Resting /\ IsBest(Resting, b)
          /\ txn'.m = Fill(txn.m, txn.p.side, b, n)
    <3>. DEFINE whole(b) == /\ b.size <= txn.base
                            /\ AdjustedQuote(b.price, b.size) <= txn.adj
                lots(b) == IF whole(b) THEN b.size ELSE Affordable(b)
                adj(b) == AdjustedQuote(b.price, lots(b))
    <3>1. PICK b \in Resting :
            /\ Meets(b)
            /\ txn' = [txn EXCEPT
                 !.m = Fill(txn.m, txn.p.side, b, lots(b)),
                 !.base = @ - lots(b), !.adj = @ - adj(b), !.limit = @ - 1,
                 !.matchedBase = @ + lots(b), !.matchedAdj = @ + adj(b),
                 !.terminate = ~ whole(b)]
      BY Zenon, <2>1 DEF MatchOrder
    <3>. HIDE DEF whole, lots, adj
    <3>2. txn'.m = Fill(txn.m, txn.p.side, b, lots(b))
      BY Zenon, <2>2, <3>1 DEF OrderTxn
    <3>. QED  BY Zenon, <3>1, <3>2 DEF Meets
  <2>4. txn'.m.book = TakeFrom(txn.m.book, Maker, b, n)
    BY Zenon, <2>2, <2>3 DEF Fill, Market, Maker
  <2>5. \A y \in Resting : y # b => Precedes(b, y)
    BY Zenon, <2>3 DEF IsBest
  <2>6. /\ s = Maker /\ o = b
        /\ x \in Resting \/ x = [b EXCEPT !.size = @ - n]
    BY <1>1, <2>2, <2>4 DEF TakeFrom, Market, Book, Resting
  <2>7. CASE x \in Resting /\ x # b
    BY Zenon, <2>2, <2>3, <2>5, <2>6, <2>7, PrecedesMeans DEF Resting
  <2>8. CASE x = b \/ x = [b EXCEPT !.size = @ - n]
    <3>1. b \in Order /\ MaxSeq \in Nat
      BY <2>2, <2>3, ConfigAssumption DEF Market, Book, Resting
    <3>2. /\ x.price = o.price /\ x.seq = o.seq
          /\ o.price \in Nat /\ o.seq \in Nat
      BY Zenon, <2>6, <2>8, <3>1 DEF Order
    <3>. QED  BY <3>1, <3>2 DEF Arrival
  <2>. QED  BY Zenon, <2>6, <2>7, <2>8
<1>2. IndInv /\ [Next]_vars =>
        [\A s \in Side :
           txn.phase = "match" /\ txn'.phase = "match"
             /\ txn'.matchedBase > txn.matchedBase =>
               \A o \in txn.m.book[s] \ txn'.m.book[s], x \in txn'.m.book[s] :
                 /\ IF s = "Bid" THEN x.price <= o.price ELSE x.price >= o.price
                 /\ x.price = o.price => Arrival(x) >= Arrival(o)]_vars
  BY Zenon, <1>1
<1>. QED  BY <1>2, Invariance, PTL DEF Spec, PriceTimePriority

----------------------------------------------------------------------------
(* Post-only orders.                                                       *)

\* Removing an order only unlocks: nobody's holdings change.
LEMMA RemovalKeepsHolding ==
  ASSUME NEW m \in Market, NEW side \in Side, NEW o \in m.book[side],
         NEW t \in Trader, NEW a \in Asset
  PROVE  Holding(RemoveOrder(m, side, o), t, a) = Holding(m, t, a)
<1>1. /\ m.free \in Balances /\ m.locked \in Balances
      /\ o.trader \in Trader /\ o.price \in Nat /\ o.size \in Int
      /\ Pays(side) \in Asset
  BY DEF Market, Book, Order, Pays, Asset
<1>2. PICK n : n = Lots(side, o.price, o.size)
  BY Zenon
<1>3. n \in Int
  BY Zenon, <1>1, <1>2, LotsType
<1>4. PICK f, l : /\ f = AddLots(m.free, o.trader, Pays(side), n)
                  /\ l = AddLots(m.locked, o.trader, Pays(side), - n)
  BY Zenon
<1>5. f[t][a] + l[t][a] = m.free[t][a] + m.locked[t][a]
  BY <1>1, <1>3, <1>4 DEF AddLots, Balances, Amounts
<1>6. RemoveOrder(m, side, o).free = f /\ RemoveOrder(m, side, o).locked = l
  BY Zenon, <1>2, <1>4 DEF RemoveOrder, ReduceBy, Market
<1>. QED  BY Zenon, <1>5, <1>6 DEF Holding

\* The steps of check_for_cross change nobody's holdings.
LEMMA CrossKeepsHolding ==
  ASSUME IndInv, CrossExpiredOrder \/ CrossLiveOrder \/ CrossNothing,
         txn' # NoTxn, NEW t \in Trader, NEW a \in Asset
  PROVE  /\ Holding(txn'.m, t, a) = Holding(txn.m, t, a)
         /\ txn'.p.type = txn.p.type /\ market' = market
<1>0. txn.phase = "cross" /\ market' = market
  BY Zenon DEF CrossExpiredOrder, CrossLiveOrder, CrossNothing, Working
<1>1. /\ txn \in OrderTxn /\ Maker \in Side /\ txn.m \in Market
      /\ txn.p \in Packet
  BY Zenon, <1>0, OrderFacts DEF MarketOK, OrderTxn
<1>2. CASE CrossExpiredOrder
  <2>1. PICK o \in Resting :
          txn' = [txn EXCEPT !.m = RemoveOrder(txn.m, Maker, o)]
    BY Zenon, <1>2 DEF CrossExpiredOrder
  <2>2. txn'.m = RemoveOrder(txn.m, Maker, o) /\ txn'.p = txn.p
    BY Zenon, <1>1, <2>1 DEF OrderTxn
  <2>. QED  BY Zenon, <1>0, <1>1, <2>2, RemovalKeepsHolding DEF Resting
<1>3. CASE CrossLiveOrder
  <2>1. PICK price : txn' = [txn EXCEPT !.phase = "place",
                               !.p = [txn.p EXCEPT !.price = price]]
    <3>1. PICK o \in Resting :
            txn' = IF txn.p.reject \/ (txn.p.side = "Bid" /\ o.price <= 1)
                   THEN NoTxn
                   ELSE [txn EXCEPT !.phase = "place",
                          !.p = [txn.p EXCEPT !.price = IF txn.p.side = "Bid"
                                                        THEN o.price - 1
                                                        ELSE o.price + 1]]
      BY Zenon, <1>3 DEF CrossLiveOrder
    <3>. QED  BY Zenon, <3>1
  <2>2. PICK q : q = [txn.p EXCEPT !.price = price]
    BY Zenon
  <2>3. txn'.m = txn.m /\ txn'.p = q
    BY Zenon, <1>1, <2>1, <2>2 DEF OrderTxn
  <2>4. q.type = txn.p.type
    BY Zenon, <1>1, <2>2 DEF Packet
  <2>. QED  BY Zenon, <1>0, <2>3, <2>4
<1>4. CASE CrossNothing
  <2>1. txn'.m = txn.m /\ txn'.p = txn.p
    BY Zenon, <1>1, <1>4 DEF CrossNothing, OrderTxn
  <2>. QED  BY Zenon, <1>0, <2>1
<1>. QED  BY Zenon, <1>2, <1>3, <1>4

\* A post-only order starts from the holdings in the account: its trader has
\* an approved seat, so nothing is registered.
LEMMA PostOnlyStarts ==
  ASSUME IndInv, Enrolled, NEW t \in Trader, NEW p \in Packets, NewOrder(t, p),
         txn' # NoTxn, txn'.p.type = "PostOnly"
  PROVE  txn'.m = market /\ market' = market
<1>1. PICK m : m = IF p.type = "IOC" THEN market ELSE get_or_register_trader(market, t)
  BY Zenon
<1>2. /\ Idle /\ OrderAccepted(t, p)
      /\ \/ market' = m /\ UNCHANGED txn
         \/ StartOrder(t, p, m) /\ UNCHANGED market
  BY Zenon, <1>1 DEF NewOrder
<1>3. txn = NoTxn
  BY Zenon, <1>2, IdleFacts
<1>4. StartOrder(t, p, m) /\ UNCHANGED market
  BY Zenon, <1>2, <1>3
<1>5. p \in Packet
  BY Zenon, InputAssumption
<1>6. PICK q : q = [p EXCEPT !.price = Price(p)]
  BY Zenon
<1>7. q.type = p.type
  BY Zenon, <1>5, <1>6 DEF Packet
<1>8. txn'.m = m /\ txn'.p = q
  BY Zenon, <1>4, <1>6 DEF StartOrder
<1>9. p.type = "PostOnly"
  BY Zenon, <1>7, <1>8
<1>10. t \in market.registered
  BY Zenon, <1>2, <1>9 DEF OrderAccepted, Enrolled
<1>. QED  BY Zenon, <1>1, <1>4, <1>8, <1>9, <1>10 DEF get_or_register_trader

\* The steps of an order that is matched keep its type, which is not
\* post-only.
LEMMA MatchKeepsType ==
  ASSUME IndInv, txn' # NoTxn,
         \/ MatchExpiredOrder \/ SelfTradeAbort \/ SelfTradeCancelProvide
         \/ SelfTradeDecrementTake \/ MatchOrder \/ MatchDone
  PROVE  txn'.p.type # "PostOnly"
<1>1. txn.phase = "match"
  BY Zenon DEF MatchExpiredOrder, SelfTradeAbort, SelfTradeCancelProvide,
         SelfTradeDecrementTake, MatchOrder, MatchDone, Working
<1>2. txn \in OrderTxn /\ txn.p.type # "PostOnly"
  BY Zenon, <1>1, OrderFacts DEF OrderOK
<1>3. ~ SelfTradeAbort
  BY Zenon DEF SelfTradeAbort
<1>4. txn'.p = txn.p
  BY Zenon, <1>2, <1>3
  DEF MatchExpiredOrder, SelfTradeCancelProvide, SelfTradeDecrementTake,
      MatchOrder, MatchDone, OrderTxn
<1>. QED  BY Zenon, <1>2, <1>4

\* Every instruction but a new order starts a cancellation or is over in one
\* step.
LEMMA OthersStart ==
  ASSUME TraderNext \/ AuthorityNext \/ NextSlot
  PROVE  \/ \E t \in Trader, p \in Packets : NewOrder(t, p)
         \/ txn'.phase = "cancel" \/ txn' = NoTxn
<1>0. txn = NoTxn
  BY Zenon, InstructionsStartIdle
<1>1. \A t, ids, claim : StartCancel(t, ids, claim) => txn'.phase = "cancel"
  BY DEF StartCancel
<1>2. \A t, lots : DepositFunds(t, lots) \/ WithdrawFunds(t, lots) => txn' = txn
  BY Zenon DEF DepositFunds, WithdrawFunds
<1>3. \A t : RequestSeat(t) \/ EvictSeat(t) => txn' = txn
  BY Zenon DEF RequestSeat, EvictSeat
<1>4. \A t, claim : CancelAllOrders(t, claim) => txn'.phase = "cancel"
  BY Zenon, <1>1 DEF CancelAllOrders
<1>5. \A t, ids, claim : CancelMultipleOrdersById(t, ids, claim) => txn'.phase = "cancel"
  BY Zenon, <1>1 DEF CancelMultipleOrdersById
<1>6. \A t, side, lim, claim : CancelUpTo(t, side, lim, claim) => txn'.phase = "cancel"
  BY Zenon, <1>1 DEF CancelUpTo
<1>7. \A t, side, lim : ForceCancelOrders(t, side, lim) => txn'.phase = "cancel"
  BY Zenon, <1>1 DEF ForceCancelOrders
<1>8. \A t, side, o, n, claim : ReduceOrder(t, side, o, n, claim) => txn' = txn
  BY Zenon DEF ReduceOrder
<1>9. \A t, new : ChangeSeatStatus(t, new) \/ ChangeMarketStatus(new) => txn' = txn
  BY Zenon DEF ChangeSeatStatus, ChangeMarketStatus
<1>10. CollectFees \/ NextSlot => txn' = txn
  BY Zenon DEF CollectFees, NextSlot
<1>11. CASE TraderNext
  BY Zenon, <1>0, <1>2, <1>3, <1>4, <1>5, <1>6, <1>8, <1>11 DEF TraderNext
<1>12. CASE AuthorityNext
  BY Zenon, <1>0, <1>3, <1>7, <1>9, <1>10, <1>12 DEF AuthorityNext
<1>. QED  BY Zenon, <1>0, <1>10, <1>11, <1>12

\* A cancellation stays one until it is over, and a placed order is over.
LEMMA EndsOfTransactions ==
  ASSUME IndInv, CancelStep \/ CancelDone \/ PlaceOrder
  PROVE  txn'.phase = "cancel" \/ txn' = NoTxn
<1>1. PlaceOrder => txn' = NoTxn
  BY Zenon DEF PlaceOrder, Abort
<1>2. CancelDone => txn' = NoTxn
  BY Zenon DEF CancelDone
<1>3. CASE CancelStep
  <2>1. txn.phase = "cancel"
    BY Zenon, <1>3 DEF CancelStep, Working
  <2>2. txn \in CancelTxn
    BY Zenon, <2>1, CancelFacts
  <2>. DEFINE side(id) == from_order_sequence_number(id.seq)
              next(id) == [txn EXCEPT !.ids = @ \ {id}]
              r(id, o) == ReduceAndClaim(txn.m, side(id), o, o.size, txn.claim)
  <2>3. PICK id \in txn.ids :
          \/ txn' = next(id)
          \/ \E o : txn' = [next(id) EXCEPT
                              !.m = r(id, o).m,
                              !.out = [a \in Asset |-> @[a] + r(id, o).out[a]]]
    BY Zenon, <1>3 DEF CancelStep
  <2>4. next(id).phase = "cancel" /\ next(id) = [next(id) EXCEPT !.phase = "cancel"]
    BY Zenon, <2>2 DEF CancelTxn
  <2>. HIDE DEF r
  <2>. QED  BY Zenon, <2>2, <2>3, <2>4 DEF CancelTxn
<1>. QED  BY Zenon, <1>1, <1>2, <1>3

\* A post-only order never trades: until it is posted, no trader's holdings in
\* the working copy differ from those in the account.
THEOREM PostOnlyOrdersNeverTrade == Spec => []PostOnlyNeverTrades
<1>1. ASSUME IndInv, SeatsBacked, PostOnlyNeverTrades, [Next]_vars
      PROVE  PostOnlyNeverTrades'
  <2>. SUFFICES ASSUME txn'.phase \in {"cross", "match", "place"},
                       txn'.p.type = "PostOnly",
                       NEW t \in Trader, NEW a \in Asset
                PROVE  Holding(txn'.m, t, a) = Holding(market', t, a)
    BY Zenon DEF PostOnlyNeverTrades, Holding
  <2>0. txn' # NoTxn /\ txn'.phase # "cancel"
    BY DEF NoTxn
  <2>1. CASE UNCHANGED vars
    BY Zenon, <1>1, <2>1 DEF vars, PostOnlyNeverTrades
  <2>2. CASE CrossExpiredOrder \/ CrossLiveOrder \/ CrossNothing
    <3>1. txn.phase = "cross"
      BY Zenon, <2>2 DEF CrossExpiredOrder, CrossLiveOrder, CrossNothing, Working
    <3>2. /\ Holding(txn'.m, t, a) = Holding(txn.m, t, a)
          /\ txn'.p.type = txn.p.type /\ market' = market
      BY Zenon, <1>1, <2>0, <2>2, CrossKeepsHolding
    <3>. QED  BY Zenon, <1>1, <3>1, <3>2 DEF PostOnlyNeverTrades
  <2>3. CASE \/ MatchExpiredOrder \/ SelfTradeAbort \/ SelfTradeCancelProvide
             \/ SelfTradeDecrementTake \/ MatchOrder \/ MatchDone
    BY Zenon, <1>1, <2>0, <2>3, MatchKeepsType
  <2>4. CASE CancelStep \/ CancelDone \/ PlaceOrder
    BY Zenon, <1>1, <2>0, <2>4, EndsOfTransactions
  <2>5. CASE TraderNext \/ AuthorityNext \/ NextSlot
    <3>1. PICK u \in Trader, p \in Packets : NewOrder(u, p)
      BY Zenon, <2>0, <2>5, OthersStart
    <3>2. Enrolled
      BY Zenon, <1>1 DEF Enrolled, SeatsBacked
    <3>. QED  BY Zenon, <1>1, <2>0, <3>1, <3>2, PostOnlyStarts
  <2>. QED  BY Zenon, <1>1, <2>1, <2>2, <2>3, <2>4, <2>5 DEF Next, TxnStep, OrderStep
<1>2. Init => PostOnlyNeverTrades
  BY DEF Init, NoTxn, PostOnlyNeverTrades
<1>. QED  BY <1>1, <1>2, Invariance, SeatsAlwaysBacked, PTL DEF Spec

----------------------------------------------------------------------------
(* Makers get at least their price.                                        *)

\* Quote lots of two fills at one price add up.
LEMMA QuoteAdds ==
  ASSUME NEW p \in Nat, NEW x \in Nat, NEW y \in Nat
  PROVE  /\ AdjustedQuote(p, x + y) = AdjustedQuote(p, x) + AdjustedQuote(p, y)
         /\ AdjustedQuote(p, x) \in Nat /\ AdjustedQuote(p, y) \in Nat
<1> DEFINE a == p * TickSize
<1>1. a \in Nat
  BY ConfigAssumption
<1>2. /\ AdjustedQuote(p, x) = a * x /\ AdjustedQuote(p, y) = a * y
      /\ AdjustedQuote(p, x + y) = a * (x + y)
  BY Zenon DEF AdjustedQuote
<1> HIDE DEF a
<1>3. a * x \in Nat /\ a * y \in Nat /\ a * (x + y) = a * x + a * y
  BY <1>1
<1>4. QED
  BY Zenon, <1>2, <1>3

\* No base lots, no quote lots.
LEMMA QuoteZero ==
  ASSUME NEW p \in Nat
  PROVE  AdjustedQuote(p, 0) = 0
<1>1. p * TickSize \in Nat
  BY ConfigAssumption
<1>2. QED
  BY <1>1 DEF AdjustedQuote

\* Prices order the quote lots of the same base lots.
LEMMA QuoteOrder ==
  ASSUME NEW p \in Nat, NEW q \in Nat, NEW x \in Nat, p <= q
  PROVE  AdjustedQuote(p, x) <= AdjustedQuote(q, x)
<1> DEFINE a == p * TickSize
           b == q * TickSize
<1>1. TickSize \in Nat \ {0} /\ a \in Nat /\ b \in Nat
  BY ConfigAssumption
<1>2. a <= b
  <2>1. TickSize * p <= TickSize * q
    BY <1>1, MulOrder
  <2>2. QED
    BY <1>1, <2>1
<1>3. AdjustedQuote(p, x) = a * x /\ AdjustedQuote(q, x) = b * x
  BY Zenon DEF AdjustedQuote
<1> HIDE DEF a, b
<1>4. a * x <= b * x
  <2>1. CASE x = 0
    BY <1>1, <2>1
  <2>2. CASE x # 0
    <3>1. x * a <= x * b
      BY <1>1, <1>2, <2>2, MulOrder
    <3>2. QED
      BY <1>1, <3>1
  <2>3. QED
    BY Zenon, <2>1, <2>2
<1>5. QED
  BY Zenon, <1>3, <1>4

\* Multiplication distributes over the lots of a fill.
LEMMA FillTimes ==
  ASSUME NEW x \in Int, NEW y \in Nat, NEW d \in Nat
  PROVE  /\ (x - y) * d = x * d - d * y /\ (x + y) * d = x * d + d * y
         /\ x * d \in Int /\ d * y \in Int /\ 0 * d = 0
OBVIOUS

\* One more fill, at another price: the quote lots of both are between those
\* of all the base lots at the one and at the other price.
LEMMA FillsBetween ==
  ASSUME NEW p \in Nat, NEW q \in Nat, NEW x \in Nat, NEW y \in Nat, NEW a \in Int
  PROVE  /\ a <= AdjustedQuote(p, x) =>
              \/ a + AdjustedQuote(q, y) <= AdjustedQuote(p, x + y)
              \/ a + AdjustedQuote(q, y) <= AdjustedQuote(q, x + y)
         /\ a >= AdjustedQuote(p, x) =>
              \/ a + AdjustedQuote(q, y) >= AdjustedQuote(p, x + y)
              \/ a + AdjustedQuote(q, y) >= AdjustedQuote(q, x + y)
<1>1. /\ AdjustedQuote(p, x + y) = AdjustedQuote(p, x) + AdjustedQuote(p, y)
      /\ AdjustedQuote(p, x) \in Nat /\ AdjustedQuote(p, y) \in Nat
  BY Zenon, QuoteAdds
<1>2. /\ AdjustedQuote(q, x + y) = AdjustedQuote(q, x) + AdjustedQuote(q, y)
      /\ AdjustedQuote(q, x) \in Nat /\ AdjustedQuote(q, y) \in Nat
  BY Zenon, QuoteAdds
<1>3. CASE p <= q
  <2>1. AdjustedQuote(p, x) <= AdjustedQuote(q, x) /\ AdjustedQuote(p, y) <= AdjustedQuote(q, y)
    BY Zenon, <1>3, QuoteOrder
  <2>2. QED
    BY <1>1, <1>2, <2>1
<1>4. CASE q <= p
  <2>1. AdjustedQuote(q, x) <= AdjustedQuote(p, x) /\ AdjustedQuote(q, y) <= AdjustedQuote(p, y)
    BY Zenon, <1>4, QuoteOrder
  <2>2. QED
    BY <1>1, <1>2, <2>1
<1>5. QED
  BY <1>3, <1>4

\* A maker that paid no more, or got no less, than one of two prices.
LEMMA PriceOf ==
  ASSUME NEW m0 \in Market, NEW r \in Market, NEW t \in Trader, NEW side \in Side,
         NEW x \in m0.book[Opposite(side)], x.trader = t, NEW z \in Nat, NEW y \in Nat,
         IF side = "Bid"
         THEN /\ Holding(r, t, "quote") = Holding(m0, t, "quote") + z
              /\ Holding(r, t, "base") = Holding(m0, t, "base") - y
              /\ BaseLotsPerBaseUnit * z >= AdjustedQuote(x.price, y)
         ELSE /\ Holding(r, t, "quote") = Holding(m0, t, "quote") - z
              /\ Holding(r, t, "base") = Holding(m0, t, "base") + y
              /\ BaseLotsPerBaseUnit * z <= AdjustedQuote(x.price, y)
  PROVE  GotItsPrice(m0, r, t, side)
<1> DEFINE hq == Holding(m0, t, "quote")
           hb == Holding(m0, t, "base")
           eq == Holding(r, t, "quote") - hq
           eb == Holding(r, t, "base") - hb
<1>1. hq \in Int /\ hb \in Int
  BY Zenon, HoldingType DEF Asset
<1>2. BaseLotsPerBaseUnit \in Nat
  BY ConfigAssumption
<1>3. CASE side = "Bid"
  <2>1. eq = z /\ eb = - y
    BY <1>1, <1>3
  <2>2. z * BaseLotsPerBaseUnit = BaseLotsPerBaseUnit * z /\ - (- y) = y
    BY <1>2
  <2>3. x \in m0.book["Ask"] /\ BaseLotsPerBaseUnit * z >= AdjustedQuote(x.price, y)
    BY Zenon, <1>3 DEF Opposite
  <2>4. eq >= 0 /\ eb <= 0 /\ eq * BaseLotsPerBaseUnit >= AdjustedQuote(x.price, - eb)
    BY <2>1, <2>2, <2>3
  <2> HIDE DEF eq, eb
  <2>5. QED
    BY Zenon, <1>3, <2>3, <2>4 DEF GotItsPrice, eq, eb
<1>4. CASE side = "Ask"
  <2>1. eq = - z /\ eb = y
    BY <1>1, <1>4
  <2>2. - ((- z) * BaseLotsPerBaseUnit) = BaseLotsPerBaseUnit * z
    BY <1>2
  <2>3. x \in m0.book["Bid"] /\ BaseLotsPerBaseUnit * z <= AdjustedQuote(x.price, y)
    BY Zenon, <1>4 DEF Opposite
  <2>4. eq <= 0 /\ eb >= 0 /\ - eq * BaseLotsPerBaseUnit <= AdjustedQuote(x.price, eb)
    BY <2>1, <2>2, <2>3
  <2> HIDE DEF eq, eb
  <2>5. QED
    BY Zenon, <1>4, <2>3, <2>4 DEF GotItsPrice, eq, eb
<1>5. QED
  BY Zenon, <1>3, <1>4 DEF Side

\* What such a maker gave and received, as whole numbers of lots, against
\* the price of one of its orders.
LEMMA PriceGot ==
  ASSUME NEW m0 \in Market, NEW m \in Market, NEW t \in Trader, NEW side \in Side,
         NEW x \in m0.book[Opposite(side)], x.trader = t, GotItsPrice(m0, m, t, side)
  PROVE  \E b \in m0.book[Opposite(side)], z \in Nat, y \in Nat :
           /\ b.trader = t
           /\ IF side = "Bid"
              THEN /\ Holding(m, t, "quote") = Holding(m0, t, "quote") + z
                   /\ Holding(m, t, "base") = Holding(m0, t, "base") - y
                   /\ BaseLotsPerBaseUnit * z >= AdjustedQuote(b.price, y)
              ELSE /\ Holding(m, t, "quote") = Holding(m0, t, "quote") - z
                   /\ Holding(m, t, "base") = Holding(m0, t, "base") + y
                   /\ BaseLotsPerBaseUnit * z <= AdjustedQuote(b.price, y)
<1> DEFINE hq == Holding(m0, t, "quote")
           hb == Holding(m0, t, "base")
           dq == Holding(m, t, "quote") - hq
           db == Holding(m, t, "base") - hb
           d == BaseLotsPerBaseUnit
<1>1. /\ hq \in Int /\ hb \in Int
      /\ Holding(m, t, "quote") \in Int /\ Holding(m, t, "base") \in Int
  BY Zenon, HoldingType DEF Asset
<1>2. /\ Holding(m, t, "quote") = hq + dq /\ Holding(m, t, "base") = hb + db
      /\ dq \in Int /\ db \in Int
  BY <1>1
<1>3. \/ dq = 0 /\ db = 0
      \/ /\ side = "Ask" /\ dq <= 0 /\ db >= 0
         /\ \E b \in m0.book["Bid"] :
              b.trader = t /\ - dq * d <= AdjustedQuote(b.price, db)
      \/ /\ side = "Bid" /\ dq >= 0 /\ db <= 0
         /\ \E a \in m0.book["Ask"] :
              a.trader = t /\ dq * d >= AdjustedQuote(a.price, - db)
  BY Zenon DEF GotItsPrice
<1>4. d \in Nat /\ d * 0 = 0
  BY ConfigAssumption
<1>5. AdjustedQuote(x.price, 0) = 0
  <2>1. x.price \in Nat
    BY Zenon DEF Market, Book, Order, Side, Opposite
  <2>2. QED
    BY Zenon, <2>1, QuoteZero
<1> HIDE DEF hq, hb, dq, db, d
<1>6. CASE dq = 0 /\ db = 0
  <2>1. /\ Holding(m, t, "quote") = hq + 0 /\ Holding(m, t, "quote") = hq - 0
        /\ Holding(m, t, "base") = hb + 0 /\ Holding(m, t, "base") = hb - 0
    BY <1>1, <1>2, <1>6
  <2>2. 0 \in Nat /\ d * 0 >= AdjustedQuote(x.price, 0) /\ d * 0 <= AdjustedQuote(x.price, 0)
    BY <1>4, <1>5
  <2>3. QED
    BY Zenon, <2>1, <2>2 DEF hq, hb, d
<1>7. CASE side = "Ask" /\ ~ (dq = 0 /\ db = 0)
  <2>1. PICK b \in m0.book["Bid"] :
          b.trader = t /\ - dq * d <= AdjustedQuote(b.price, db)
    BY Zenon, <1>3, <1>7
  <2> DEFINE z == - dq
  <2>2. z \in Nat /\ db \in Nat
    BY <1>2, <1>3, <1>7
  <2>3. Holding(m, t, "quote") = hq - z
    BY <1>1, <1>2
  <2>4. d * z = - (dq * d)
    BY <1>2, <1>4
  <2>5. d * z <= AdjustedQuote(b.price, db) /\ b \in m0.book[Opposite(side)]
    BY Zenon, <1>7, <2>1, <2>4 DEF Opposite
  <2> HIDE DEF z
  <2>6. side # "Bid"
    BY Zenon, <1>7
  <2>7. QED
    BY Zenon, <1>2, <2>1, <2>2, <2>3, <2>5, <2>6 DEF hq, hb, d
<1>8. CASE side = "Bid" /\ ~ (dq = 0 /\ db = 0)
  <2>1. PICK b \in m0.book["Ask"] :
          b.trader = t /\ dq * d >= AdjustedQuote(b.price, - db)
    BY Zenon, <1>3, <1>8
  <2> DEFINE y == - db
  <2>2. y \in Nat /\ dq \in Nat
    BY <1>2, <1>3, <1>8
  <2>3. Holding(m, t, "base") = hb - y
    BY <1>1, <1>2
  <2>4. d * dq = dq * d
    BY <1>2, <1>4
  <2>5. d * dq >= AdjustedQuote(b.price, y) /\ b \in m0.book[Opposite(side)]
    BY Zenon, <1>8, <2>1, <2>4 DEF Opposite
  <2> HIDE DEF y
  <2>6. QED
    BY Zenon, <1>2, <1>8, <2>1, <2>2, <2>3, <2>5 DEF hq, hb, d
<1>9. QED
  BY Zenon, <1>6, <1>7, <1>8 DEF Side

\* A maker that is filled once more at the price of one of its orders.
LEMMA FilledAgain ==
  ASSUME NEW m0 \in Market, NEW m \in Market, NEW r \in Market, NEW t \in Trader,
         NEW side \in Side, GotItsPrice(m0, m, t, side),
         NEW x \in m0.book[Opposite(side)], x.trader = t, NEW n \in Nat,
         LET q == Lots("Bid", x.price, n)
         IN IF side = "Bid"
            THEN /\ Holding(r, t, "quote") = Holding(m, t, "quote") + q
                 /\ Holding(r, t, "base") = Holding(m, t, "base") - n
            ELSE /\ Holding(r, t, "quote") = Holding(m, t, "quote") - q
                 /\ Holding(r, t, "base") = Holding(m, t, "base") + n
  PROVE  GotItsPrice(m0, r, t, side)
<1> DEFINE q == Lots("Bid", x.price, n)
           d == BaseLotsPerBaseUnit
           hq == Holding(m0, t, "quote")
           hb == Holding(m0, t, "base")
<1>1. PICK b \in m0.book[Opposite(side)], z \in Nat, y \in Nat :
        /\ b.trader = t
        /\ IF side = "Bid"
           THEN /\ Holding(m, t, "quote") = hq + z
                /\ Holding(m, t, "base") = hb - y
                /\ d * z >= AdjustedQuote(b.price, y)
           ELSE /\ Holding(m, t, "quote") = hq - z
                /\ Holding(m, t, "base") = hb + y
                /\ d * z <= AdjustedQuote(b.price, y)
  BY PriceGot
<1>2. hq \in Int /\ hb \in Int
  BY Zenon, HoldingType DEF Asset
<1>3. x.price \in Nat /\ b.price \in Nat /\ "Bid" \in Side
  BY Zenon DEF Market, Book, Order, Side, Opposite
<1>4. q \in Nat
  BY Zenon, <1>3, LotsNat
<1>5. d * q = AdjustedQuote(x.price, n)
  <2>1. n \in Int
    OBVIOUS
  <2>2. AdjustedQuote(x.price, n) = BaseLotsPerBaseUnit * Lots("Bid", x.price, n)
    BY Zenon, <1>3, <2>1, AdjustedLots
  <2>3. QED
    BY Zenon, <2>2
<1>6. d \in Nat
  BY ConfigAssumption
<1>7. z + q \in Nat /\ y + n \in Nat /\ d * z \in Int /\ d * (z + q) = d * z + d * q
  BY <1>4, <1>6
<1>8. IF side = "Bid"
      THEN /\ Holding(r, t, "quote") = hq + (z + q)
           /\ Holding(r, t, "base") = hb - (y + n)
      ELSE /\ Holding(r, t, "quote") = hq - (z + q)
           /\ Holding(r, t, "base") = hb + (y + n)
  BY <1>1, <1>2, <1>4
<1> HIDE DEF q, d, hq, hb
<1>9. /\ d * z <= AdjustedQuote(b.price, y) =>
           \/ d * z + AdjustedQuote(x.price, n) <= AdjustedQuote(b.price, y + n)
           \/ d * z + AdjustedQuote(x.price, n) <= AdjustedQuote(x.price, y + n)
      /\ d * z >= AdjustedQuote(b.price, y) =>
           \/ d * z + AdjustedQuote(x.price, n) >= AdjustedQuote(b.price, y + n)
           \/ d * z + AdjustedQuote(x.price, n) >= AdjustedQuote(x.price, y + n)
  BY Zenon, <1>3, <1>7, FillsBetween
<1> DEFINE w == z + q
           v == y + n
<1>10. d * w = d * z + AdjustedQuote(x.price, n) /\ w \in Nat /\ v \in Nat
  BY Zenon, <1>5, <1>7
<1>11. \E o \in {b, x} : IF side = "Bid" THEN d * w >= AdjustedQuote(o.price, v)
                                         ELSE d * w <= AdjustedQuote(o.price, v)
  BY Zenon, <1>1, <1>9, <1>10
<1>12. IF side = "Bid"
       THEN Holding(r, t, "quote") = hq + w /\ Holding(r, t, "base") = hb - v
       ELSE Holding(r, t, "quote") = hq - w /\ Holding(r, t, "base") = hb + v
  BY Zenon, <1>8
<1> HIDE DEF w, v
<1>13. PICK o \in {b, x} : IF side = "Bid" THEN d * w >= AdjustedQuote(o.price, v)
                                           ELSE d * w <= AdjustedQuote(o.price, v)
  BY Zenon, <1>11
<1>14. o \in m0.book[Opposite(side)] /\ o.trader = t
  BY Zenon, <1>1
<1>15. IF side = "Bid"
       THEN /\ Holding(r, t, "quote") = Holding(m0, t, "quote") + w
            /\ Holding(r, t, "base") = Holding(m0, t, "base") - v
            /\ BaseLotsPerBaseUnit * w >= AdjustedQuote(o.price, v)
       ELSE /\ Holding(r, t, "quote") = Holding(m0, t, "quote") - w
            /\ Holding(r, t, "base") = Holding(m0, t, "base") + v
            /\ BaseLotsPerBaseUnit * w <= AdjustedQuote(o.price, v)
  BY Zenon, <1>12, <1>13 DEF hq, hb, d
<1>16. QED
  BY Zenon, <1>10, <1>14, <1>15, PriceOf

\* Taking lots off an order leaves the orders of a book where they came from.
LEMMA OrdersStayFrom ==
  ASSUME NEW m0 \in Market, NEW m \in Market, NEW r, NEW side \in Side,
         NEW o \in m.book[side], NEW n \in Nat, OrdersFrom(m0, m),
         r.book = TakeFrom(m.book, side, o, n)
  PROVE  OrdersFrom(m0, r)
<1> DEFINE after == TakeFrom(m.book, side, o, n)
<1>1. \A s \in Side : \A x \in after[s] :
        \E y \in m.book[s] : y.price = x.price /\ y.trader = x.trader
  BY DEF TakeFrom, Market, Book, Order
<1> HIDE DEF after
<1>2. \A s \in Side : \A y \in m.book[s] :
        \E x \in m0.book[s] : x.price = y.price /\ x.trader = y.trader
  BY Zenon DEF OrdersFrom
<1>3. r.book = after
  BY Zenon DEF after
<1>4. QED
  BY <1>1, <1>2, <1>3 DEF OrdersFrom

\* A trader whose holdings a step leaves alone still got its price.
LEMMA SameHoldings ==
  ASSUME NEW m0, NEW m, NEW r, NEW t \in Trader, NEW side, GotItsPrice(m0, m, t, side),
         \A a \in Asset : Holding(r, t, a) = Holding(m, t, a)
  PROVE  GotItsPrice(m0, r, t, side)
<1>1. Holding(r, t, "quote") = Holding(m, t, "quote")
      /\ Holding(r, t, "base") = Holding(m, t, "base")
  BY Zenon DEF Asset
<1>2. QED
  BY Zenon, <1>1 DEF GotItsPrice

\* A removal of a resting order, by expiry or to prevent a self trade.
LEMMA RemovalKeepsMakers ==
  ASSUME NEW m0 \in Market, NEW m \in Market, AccountsOK(m), NEW side \in Side,
         NEW o \in m.book[Opposite(side)], NEW n \in Nat, n <= o.size,
         \A x \in m.book[Opposite(side)] : x.seq = o.seq => x = o,
         OrdersFrom(m0, m), NEW r, r = ReduceBy(m, Opposite(side), o, n)
  PROVE  /\ OrdersFrom(m0, r) /\ r.unclaimed = m.unclaimed
         /\ \A t \in Trader : GotItsPrice(m0, m, t, side) => GotItsPrice(m0, r, t, side)
<1>1. Opposite(side) \in Side
  BY Zenon DEF Opposite, Side
<1> DEFINE s == Opposite(side)
<1> HIDE DEF s
<1>2. s \in Side /\ o \in m.book[s] /\ r = ReduceBy(m, s, o, n)
      /\ \A x \in m.book[s] : x.seq = o.seq => x = o
  BY Zenon, <1>1 DEF s
<1>3. /\ r.book = TakeFrom(m.book, s, o, n) /\ r.unclaimed = m.unclaimed
      /\ \A t \in Trader, a \in Asset : Holding(r, t, a) = Holding(m, t, a)
  BY <1>2, ReduceByAccounts
<1>4. OrdersFrom(m0, r)
  BY Zenon, <1>2, <1>3, OrdersStayFrom
<1>5. \A t \in Trader : GotItsPrice(m0, m, t, side) => GotItsPrice(m0, r, t, side)
  BY Zenon, <1>3, SameHoldings
<1>6. QED
  BY Zenon, <1>3, <1>4, <1>5

\* A fill takes no more than its price of the maker, and gives it no less.
LEMMA FillKeepsMakers ==
  ASSUME NEW m0 \in Market, NEW m \in Market, AccountsOK(m), NEW side \in Side,
         NEW o \in m.book[Opposite(side)], NEW n \in Nat, n <= o.size,
         \A x \in m.book[Opposite(side)] : x.seq = o.seq => x = o,
         OrdersFrom(m0, m), NEW r, r = Fill(m, side, o, n)
  PROVE  /\ OrdersFrom(m0, r) /\ r.unclaimed = m.unclaimed
         /\ \A t \in Trader : GotItsPrice(m0, m, t, side) => GotItsPrice(m0, r, t, side)
<1> DEFINE maker == Opposite(side)
<1>1. maker \in Side /\ maker = Opposite(side)
  BY Zenon DEF Opposite, Side
<1>2. /\ r \in Market /\ r.book = TakeFrom(m.book, maker, o, n)
      /\ r.unclaimed = m.unclaimed
      /\ \A t \in Trader \ {o.trader}, a \in Asset :
           Holding(r, t, a) = Holding(m, t, a)
      /\ Holding(r, o.trader, Gets(side))
           = Holding(m, o.trader, Gets(side)) - Lots(maker, o.price, n)
      /\ Holding(r, o.trader, Pays(side))
           = Holding(m, o.trader, Pays(side)) + Lots(side, o.price, n)
  BY FillAccounts
<1> HIDE DEF maker
<1>3. o \in m.book[maker]
  BY Zenon DEF maker
<1>4. OrdersFrom(m0, r)
  BY Zenon, <1>1, <1>2, <1>3, OrdersStayFrom
<1>5. PICK x \in m0.book[maker] : x.price = o.price /\ x.trader = o.trader
  BY Zenon, <1>1, <1>3 DEF OrdersFrom
<1>6. o.trader \in Trader
  BY <1>1, <1>3 DEF Market, Book, Order
<1>7. ASSUME NEW t \in Trader, GotItsPrice(m0, m, t, side)
      PROVE  GotItsPrice(m0, r, t, side)
  <2>1. CASE t # o.trader
    <3>1. \A a \in Asset : Holding(r, t, a) = Holding(m, t, a)
      BY Zenon, <1>2, <2>1
    <3>2. QED
      BY Zenon, <1>7, <3>1, SameHoldings
  <2>2. CASE t = o.trader
    <3> DEFINE q == Lots("Bid", x.price, n)
    <3>1. CASE side = "Bid"
      <4>1. /\ Gets(side) = "base" /\ Pays(side) = "quote"
            /\ Lots(maker, o.price, n) = n /\ Lots(side, o.price, n) = q
        BY Zenon, <1>1, <1>5, <3>1 DEF Gets, Pays, Opposite, Lots
      <4>2. /\ Holding(r, t, "quote") = Holding(m, t, "quote") + q
            /\ Holding(r, t, "base") = Holding(m, t, "base") - n
        BY Zenon, <1>2, <2>2, <4>1
      <4>3. QED
        BY <1>1, <1>2, <1>5, <1>7, <2>2, <3>1, <4>2, FilledAgain
    <3>2. CASE side = "Ask"
      <4>1. /\ Gets(side) = "quote" /\ Pays(side) = "base"
            /\ Lots(maker, o.price, n) = q /\ Lots(side, o.price, n) = n
        BY Zenon, <1>1, <1>5, <3>2 DEF Gets, Pays, Opposite, Lots
      <4>2. /\ Holding(r, t, "quote") = Holding(m, t, "quote") - q
            /\ Holding(r, t, "base") = Holding(m, t, "base") + n
        BY Zenon, <1>2, <2>2, <4>1
      <4>3. QED
        BY <1>1, <1>2, <1>5, <1>7, <2>2, <3>2, <4>2, FilledAgain
    <3>3. QED
      BY Zenon, <3>1, <3>2 DEF Side
  <2>3. QED
    BY Zenon, <2>1, <2>2
<1>8. QED
  BY Zenon, <1>2, <1>4, <1>7

\* What a step of an order in progress does to the working copy.
OrderTakes ==
  \/ \E o \in Resting, n \in Nat :
       /\ n <= o.size
       /\ \/ txn'.m = ReduceBy(txn.m, Maker, o, n)
          \/ txn'.m = Fill(txn.m, txn.p.side, o, n)
  \/ /\ txn'.m.book = txn.m.book
     /\ txn'.m.free = txn.m.free /\ txn'.m.locked = txn.m.locked
     /\ \E e \in Nat : txn'.m.unclaimed = txn.m.unclaimed + e

\* check_for_cross removes expired orders and leaves the others alone.
LEMMA CrossTakes ==
  ASSUME IndInv, AccInv, CrossExpiredOrder \/ CrossLiveOrder \/ CrossNothing,
         txn' # NoTxn
  PROVE  /\ market' = market /\ txn.phase = "cross"
         /\ txn'.who = txn.who /\ txn'.p.side = txn.p.side /\ OrderTakes
<1>0. txn.phase = "cross" /\ market' = market
  BY Zenon DEF CrossExpiredOrder, CrossLiveOrder, CrossNothing, Working
<1>1. /\ txn \in OrderTxn /\ Maker \in Side /\ Resting \subseteq Order
      /\ txn.p \in Packet
  BY Zenon, <1>0, OrderFacts DEF OrderTxn
<1>5. 0 \in Nat /\ txn.m.unclaimed = txn.m.unclaimed + 0
  BY <1>1 DEF OrderTxn, Market
<1>2. CASE CrossExpiredOrder
  <2>1. PICK o \in Resting :
          txn' = [txn EXCEPT !.m = RemoveOrder(txn.m, Maker, o)]
    BY Zenon, <1>2 DEF CrossExpiredOrder
  <2>2. /\ txn'.m = ReduceBy(txn.m, Maker, o, o.size) /\ txn'.p = txn.p
        /\ txn'.who = txn.who
    BY Zenon, <1>1, <2>1 DEF OrderTxn, RemoveOrder
  <2>3. o.size \in Nat /\ o.size <= o.size
    BY <1>1 DEF Order
  <2>4. OrderTakes
    BY Zenon, <2>2, <2>3 DEF OrderTakes
  <2>5. QED
    BY Zenon, <1>0, <2>2, <2>4
<1>3. CASE CrossLiveOrder
  <2>1. PICK price : txn' = [txn EXCEPT !.phase = "place",
                               !.p = [txn.p EXCEPT !.price = price]]
    <3>1. PICK o \in Resting :
            txn' = IF txn.p.reject \/ (txn.p.side = "Bid" /\ o.price <= 1)
                   THEN NoTxn
                   ELSE [txn EXCEPT !.phase = "place",
                          !.p = [txn.p EXCEPT !.price = IF txn.p.side = "Bid"
                                                        THEN o.price - 1
                                                        ELSE o.price + 1]]
      BY Zenon, <1>3 DEF CrossLiveOrder
    <3>2. QED
      BY Zenon, <3>1
  <2>2. PICK q : q = [txn.p EXCEPT !.price = price]
    BY Zenon
  <2>3. txn'.m = txn.m /\ txn'.p = q /\ txn'.who = txn.who
    BY Zenon, <1>1, <2>1, <2>2 DEF OrderTxn
  <2>4. q.side = txn.p.side
    BY Zenon, <1>1, <2>2 DEF Packet
  <2>5. QED
    BY Zenon, <1>0, <1>5, <2>3, <2>4 DEF OrderTakes
<1>4. CASE CrossNothing
  <2>1. txn'.m = txn.m /\ txn'.p = txn.p /\ txn'.who = txn.who
    BY Zenon, <1>1, <1>4 DEF CrossNothing, OrderTxn
  <2>2. QED
    BY Zenon, <1>0, <1>5, <2>1 DEF OrderTakes
<1>6. QED
  BY Zenon, <1>2, <1>3, <1>4

\* An iteration of match_order removes, reduces or fills one resting order.
LEMMA MatchTakes ==
  ASSUME IndInv, AccInv, txn' # NoTxn,
         \/ MatchExpiredOrder \/ SelfTradeAbort \/ SelfTradeCancelProvide
         \/ SelfTradeDecrementTake \/ MatchOrder \/ MatchDone
  PROVE  /\ market' = market /\ txn.phase = "match"
         /\ txn'.who = txn.who /\ txn'.p.side = txn.p.side /\ OrderTakes
<1>0. txn.phase = "match" /\ market' = market
  BY Zenon DEF MatchExpiredOrder, SelfTradeAbort, SelfTradeCancelProvide,
         SelfTradeDecrementTake, MatchOrder, MatchDone, Working
<1>1. txn \in OrderTxn /\ Maker \in Side /\ Resting \subseteq Order
  BY Zenon, <1>0, OrderFacts
<1>2. ~ SelfTradeAbort
  BY Zenon DEF SelfTradeAbort
<1>3. txn'.p = txn.p /\ txn'.who = txn.who
  BY Zenon, <1>1, <1>2
  DEF MatchExpiredOrder, SelfTradeCancelProvide, SelfTradeDecrementTake,
      MatchOrder, MatchDone, OrderTxn
<1>4. \A o \in Resting : o.size \in Nat /\ o.price \in Nat /\ o.size <= o.size
  BY <1>1 DEF Order
<1>5. CASE MatchExpiredOrder \/ SelfTradeCancelProvide
  <2>1. PICK o \in Resting :
          txn' = [txn EXCEPT !.m = RemoveOrder(txn.m, Maker, o), !.limit = @ - 1]
    BY Zenon, <1>5 DEF MatchExpiredOrder, SelfTradeCancelProvide
  <2>2. txn'.m = ReduceBy(txn.m, Maker, o, o.size)
    BY Zenon, <1>1, <2>1 DEF OrderTxn, RemoveOrder
  <2>3. OrderTakes
    BY Zenon, <1>4, <2>2 DEF OrderTakes
  <2>4. QED
    BY Zenon, <1>0, <1>3, <2>3
<1>6. CASE SelfTradeDecrementTake
  <2>1. PICK o \in Resting :
          txn'.m = ReduceBy(txn.m, Maker, o, Least(Affordable(o), o.size))
    BY Zenon, <1>1, <1>6 DEF SelfTradeDecrementTake, OrderTxn
  <2>2. Affordable(o) \in Nat
    BY Zenon, <1>0, AffordableNat
  <2>3. Least(Affordable(o), o.size) \in Nat /\ Least(Affordable(o), o.size) <= o.size
    BY Zenon, <1>4, <2>2 DEF Least
  <2>4. OrderTakes
    BY Zenon, <2>1, <2>3 DEF OrderTakes
  <2>5. QED
    BY Zenon, <1>0, <1>3, <2>4
<1>7. CASE MatchOrder
  <2> DEFINE whole(o) == /\ o.size <= txn.base
                         /\ AdjustedQuote(o.price, o.size) <= txn.adj
             taken(o) == IF whole(o) THEN o.size ELSE Affordable(o)
  <2>1. PICK o \in Resting : txn'.m = Fill(txn.m, txn.p.side, o, taken(o))
    BY Zenon, <1>1, <1>7 DEF MatchOrder, OrderTxn
  <2>2. taken(o) \in Nat /\ taken(o) <= o.size
    <3>1. CASE whole(o)
      BY Zenon, <1>4, <3>1
    <3>2. CASE ~ whole(o)
      <4>1. Affordable(o) \in Nat
        BY Zenon, <1>0, AffordableNat
      <4>2. txn.base \in Nat /\ txn.adj \in Nat
        BY Zenon, <1>0, OrderAccountsFacts
      <4>3. Affordable(o) < o.size
        BY <1>0, <1>4, <3>2, <4>2, AffordableType
      <4>4. QED
        BY <1>4, <3>2, <4>1, <4>3
    <3>3. QED
      BY Zenon, <3>1, <3>2
  <2> HIDE DEF taken
  <2>3. OrderTakes
    BY Zenon, <2>1, <2>2 DEF OrderTakes
  <2>4. QED
    BY Zenon, <1>0, <1>3, <2>3
<1>8. CASE MatchDone
  <2>1. txn'.m = [txn.m EXCEPT !.unclaimed = @ + FeeOn(txn.matchedAdj)]
    BY Zenon, <1>1, <1>8 DEF MatchDone, OrderTxn
  <2>2. txn.m \in Market
    BY Zenon, <1>1 DEF OrderTxn
  <2>3. /\ txn'.m.book = txn.m.book
        /\ txn'.m.free = txn.m.free /\ txn'.m.locked = txn.m.locked
        /\ txn'.m.unclaimed = txn.m.unclaimed + FeeOn(txn.matchedAdj)
    BY Zenon, <2>1, <2>2 DEF Market
  <2>4. FeeOn(txn.matchedAdj) \in Nat
    <3>1. txn.matchedAdj \in Nat
      BY Zenon, <1>0, OrderAccountsFacts
    <3>2. QED
      BY Zenon, <3>1, FeeLots
  <2>5. QED
    BY Zenon, <1>0, <1>3, <2>3, <2>4 DEF OrderTakes
<1>9. QED
  BY Zenon, <1>2, <1>5, <1>6, <1>7, <1>8

\* So a step of an order in progress keeps the invariant of its makers.
LEMMA TakesKeepMakers ==
  ASSUME IndInv, AccInv, MakersInv, txn.phase \in {"cross", "match"},
         market' = market, txn'.who = txn.who, txn'.p.side = txn.p.side, OrderTakes
  PROVE  MakersInv'
<1>1. /\ market \in Market /\ txn.m \in Market /\ AccountsOK(txn.m)
      /\ txn.p.side \in Side
      /\ \A s \in Side : \A x, y \in txn.m.book[s] : x.seq = y.seq => x = y
  BY Zenon, OrderAccountsFacts
<1>2. /\ OrdersFrom(market, txn.m) /\ txn.m.unclaimed >= market.unclaimed
      /\ \A t \in Trader \ {txn.who} : GotItsPrice(market, txn.m, t, txn.p.side)
  BY Zenon DEF MakersInv
<1>3. /\ OrdersFrom(market, txn'.m) /\ txn'.m.unclaimed >= market.unclaimed
      /\ \A t \in Trader : GotItsPrice(market, txn.m, t, txn.p.side)
           => GotItsPrice(market, txn'.m, t, txn.p.side)
  <2>0. txn.m.unclaimed \in Int /\ market.unclaimed \in Int
    BY Zenon, <1>1 DEF Market
  <2>1. CASE \E o \in Resting, n \in Nat :
               /\ n <= o.size
               /\ \/ txn'.m = ReduceBy(txn.m, Maker, o, n)
                  \/ txn'.m = Fill(txn.m, txn.p.side, o, n)
    <3>1. PICK o \in Resting, n \in Nat :
            /\ n <= o.size
            /\ \/ txn'.m = ReduceBy(txn.m, Maker, o, n)
               \/ txn'.m = Fill(txn.m, txn.p.side, o, n)
      BY Zenon, <2>1
    <3>2. o \in txn.m.book[Opposite(txn.p.side)] /\ Opposite(txn.p.side) \in Side
      BY Zenon DEF Resting, Maker, Opposite, Side
    <3>3. \A x \in txn.m.book[Opposite(txn.p.side)] : x.seq = o.seq => x = o
      BY Zenon, <1>1, <3>2
    <3> DEFINE m == txn.m
               side == txn.p.side
               r == txn'.m
    <3>4. /\ m \in Market /\ AccountsOK(m) /\ side \in Side /\ OrdersFrom(market, m)
          /\ o \in m.book[Opposite(side)]
          /\ \A x \in m.book[Opposite(side)] : x.seq = o.seq => x = o
      BY Zenon, <1>1, <1>2, <3>2, <3>3
    <3>5. r = ReduceBy(m, Opposite(side), o, n) \/ r = Fill(m, side, o, n)
      BY Zenon, <3>1 DEF Maker
    <3> HIDE DEF m, side, r
    <3>6. CASE r = ReduceBy(m, Opposite(side), o, n)
      <4>1. /\ OrdersFrom(market, r) /\ r.unclaimed = m.unclaimed
            /\ \A t \in Trader : GotItsPrice(market, m, t, side)
                 => GotItsPrice(market, r, t, side)
        BY <1>1, <3>1, <3>4, <3>6, RemovalKeepsMakers
      <4>2. QED
        BY Zenon, <1>2, <4>1 DEF m, side, r
    <3>7. CASE r = Fill(m, side, o, n)
      <4>1. /\ OrdersFrom(market, r) /\ r.unclaimed = m.unclaimed
            /\ \A t \in Trader : GotItsPrice(market, m, t, side)
                 => GotItsPrice(market, r, t, side)
        BY <1>1, <3>1, <3>4, <3>7, FillKeepsMakers
      <4>2. QED
        BY Zenon, <1>2, <4>1 DEF m, side, r
    <3>8. QED
      BY Zenon, <3>5, <3>6, <3>7
  <2>2. CASE /\ txn'.m.book = txn.m.book
             /\ txn'.m.free = txn.m.free /\ txn'.m.locked = txn.m.locked
             /\ \E e \in Nat : txn'.m.unclaimed = txn.m.unclaimed + e
    <3>1. OrdersFrom(market, txn'.m)
      BY Zenon, <1>2, <2>2 DEF OrdersFrom
    <3>2. \A t \in Trader, a \in Asset : Holding(txn'.m, t, a) = Holding(txn.m, t, a)
      BY Zenon, <2>2 DEF Holding
    <3>3. txn'.m.unclaimed >= market.unclaimed
      BY <1>2, <2>0, <2>2
    <3>4. QED
      BY Zenon, <3>1, <3>2, <3>3, SameHoldings
  <2>3. QED
    BY Zenon, <2>1, <2>2 DEF OrderTakes
<1>4. \A t \in Trader \ {txn'.who} : GotItsPrice(market', txn'.m, t, txn'.p.side)
  BY Zenon, <1>2, <1>3
<1>5. QED
  BY Zenon, <1>3, <1>4 DEF MakersInv

\* A new order starts from the book and the holdings in the account.
LEMMA NewOrderMakers ==
  ASSUME IndInv, AccInv, NEW t \in Trader, NEW p \in Packets, NewOrder(t, p),
         txn' # NoTxn
  PROVE  MakersInv'
<1> DEFINE m == IF p.type = "IOC" THEN market ELSE get_or_register_trader(market, t)
<1>1. /\ Idle
      /\ \/ market' = m /\ UNCHANGED txn
         \/ StartOrder(t, p, m) /\ UNCHANGED market
  BY Zenon DEF NewOrder
<1>2. market \in Market /\ txn = NoTxn /\ AccountsOK(market)
  BY Zenon, <1>1, IdleFacts DEF AccInv
<1>3. /\ m.book = market.book /\ m.free = market.free /\ m.locked = market.locked
      /\ m.unclaimed = market.unclaimed
  BY Zenon, <1>2, RegisterAccounts
<1> HIDE DEF m
<1>4. txn'.m = m /\ market' = market
  <2>1. StartOrder(t, p, m) /\ market' = market
    BY Zenon, <1>1, <1>2
  <2>2. txn'.m = m
    BY Zenon, <2>1 DEF StartOrder
  <2>3. QED
    BY Zenon, <2>1, <2>2
<1>5. OrdersFrom(market, txn'.m) /\ txn'.m.unclaimed >= market.unclaimed
  BY <1>2, <1>3, <1>4 DEF OrdersFrom, Market
<1>6. \A u \in Trader : GotItsPrice(market, market, u, txn'.p.side)
  <2>1. \A u \in Trader, a \in Asset : Holding(market, u, a) - Holding(market, u, a) = 0
    BY <1>2, HoldingType
  <2>2. QED
    BY Zenon, <2>1 DEF GotItsPrice, Asset
<1>7. \A u \in Trader, a \in Asset : Holding(txn'.m, u, a) = Holding(market, u, a)
  BY Zenon, <1>3, <1>4 DEF Holding
<1>8. \A u \in Trader : GotItsPrice(market, txn'.m, u, txn'.p.side)
  BY Zenon, <1>6, <1>7, SameHoldings
<1>9. QED
  BY Zenon, <1>4, <1>5, <1>8 DEF MakersInv

\* Every step of an order keeps its makers' prices.
LEMMA NextMakers ==
  ASSUME IndInv, AccInv, MakersInv, [Next]_vars
  PROVE  MakersInv'
<1>1. CASE UNCHANGED vars
  <2>1. txn' = txn /\ market' = market
    BY Zenon, <1>1 DEF vars
  <2>2. QED
    BY Zenon, <2>1 DEF MakersInv
<1>2. CASE txn' = NoTxn \/ txn'.phase = "cancel"
  BY <1>2 DEF MakersInv, NoTxn
<1>3. ASSUME txn' # NoTxn, CrossExpiredOrder \/ CrossLiveOrder \/ CrossNothing
      PROVE  MakersInv'
  BY Zenon, <1>3, CrossTakes, TakesKeepMakers
<1>4. ASSUME txn' # NoTxn,
             \/ MatchExpiredOrder \/ SelfTradeAbort \/ SelfTradeCancelProvide
             \/ SelfTradeDecrementTake \/ MatchOrder \/ MatchDone
      PROVE  MakersInv'
  BY Zenon, <1>4, MatchTakes, TakesKeepMakers
<1>5. CASE CancelStep \/ CancelDone \/ PlaceOrder
  BY Zenon, <1>2, <1>5, EndsOfTransactions
<1>6. CASE TraderNext \/ AuthorityNext \/ NextSlot
  BY Zenon, <1>2, <1>6, OthersStart, NewOrderMakers
<1>7. QED
  BY Zenon, <1>1, <1>2, <1>3, <1>4, <1>5, <1>6 DEF Next, TxnStep, OrderStep

\* Until an order is placed, its makers have got their price and the rest of
\* the book is what is left of theirs.
LEMMA MakersInvariance == Spec => []MakersInv
<1>1. IndInv /\ AccInv /\ MakersInv /\ [Next]_vars => MakersInv'
  BY Zenon, NextMakers
<1>2. Init => MakersInv
  BY DEF Init, NoTxn, MakersInv
<1>3. QED
  BY <1>1, <1>2, Invariance, AccountsInvariance, PTL DEF Spec

\* Whoever's resting orders a taker takes, in however many fills: what the
\* maker gives and receives is at least as good for it as the price of one of
\* the orders it had on the book when the taker's instruction began.
THEOREM MakersAlwaysGetTheirPrice == Spec => MakersGetTheirPrice
<1>1. ASSUME IndInv, AccInv, MakersInv, [Next]_vars
      PROVE  [txn.phase = "place" =>
               \A t \in Trader \ {txn.who} :
                 LET dq == Change(t, "quote")
                     db == Change(t, "base")
                 IN /\ dq < 0 => \E b \in market.book["Bid"] :
                                   /\ b.trader = t
                                   /\ - dq * BaseLotsPerBaseUnit <= AdjustedQuote(b.price, db)
                    /\ db < 0 => \E a \in market.book["Ask"] :
                                   /\ a.trader = t
                                   /\ dq * BaseLotsPerBaseUnit >= AdjustedQuote(a.price, - db)
             ]_vars
  <2> SUFFICES ASSUME Next, txn.phase = "place", NEW t \in Trader \ {txn.who}
               PROVE  LET dq == Change(t, "quote")
                          db == Change(t, "base")
                      IN /\ dq < 0 => \E b \in market.book["Bid"] :
                              /\ b.trader = t
                              /\ - dq * BaseLotsPerBaseUnit <= AdjustedQuote(b.price, db)
                         /\ db < 0 => \E a \in market.book["Ask"] :
                              /\ a.trader = t
                              /\ dq * BaseLotsPerBaseUnit >= AdjustedQuote(a.price, - db)
    BY Zenon, <1>1
  <2>1. PlaceOrder
    <3>1. ~ (TraderNext \/ AuthorityNext \/ NextSlot)
      BY InstructionsStartIdle DEF NoTxn
    <3>2. ~ (CancelStep \/ CancelDone)
      BY Zenon DEF CancelStep, CancelDone, Working
    <3>3. ~ (CrossExpiredOrder \/ CrossLiveOrder \/ CrossNothing)
      BY Zenon DEF CrossExpiredOrder, CrossLiveOrder, CrossNothing, Working
    <3>4. ~ (\/ MatchExpiredOrder \/ SelfTradeAbort \/ SelfTradeCancelProvide
             \/ SelfTradeDecrementTake \/ MatchOrder \/ MatchDone)
      BY Zenon DEF MatchExpiredOrder, SelfTradeAbort, SelfTradeCancelProvide,
         SelfTradeDecrementTake, MatchOrder, MatchDone, Working
    <3>5. QED
      BY Zenon, <3>1, <3>2, <3>3, <3>4 DEF Next, TxnStep, OrderStep
  <2>2. market \in Market /\ txn.m \in Market
    BY Zenon, <1>1, OrderAccountsFacts
  <2> DEFINE dq == Change(t, "quote")
             db == Change(t, "base")
  <2>3. /\ Holding(market, t, "quote") \in Int /\ Holding(market, t, "base") \in Int
        /\ "quote" \in Asset /\ "base" \in Asset
    BY Zenon, <2>2, HoldingType DEF Asset
  <2>4. CASE market' = market
    <3>1. dq = 0 /\ db = 0
      BY <2>3, <2>4 DEF Change, Holding
    <3>2. QED
      BY <3>1
  <2>5. CASE \A u \in Trader \ {txn.who}, a \in Asset :
               Holding(market', u, a) = Holding(txn.m, u, a)
    <3>1. /\ dq = Holding(txn.m, t, "quote") - Holding(market, t, "quote")
          /\ db = Holding(txn.m, t, "base") - Holding(market, t, "base")
      BY Zenon, <2>3, <2>5 DEF Change
    <3>2. GotItsPrice(market, txn.m, t, txn.p.side)
      BY Zenon, <1>1 DEF MakersInv
    <3> HIDE DEF dq, db
    <3>3. \/ dq = 0 /\ db = 0
          \/ /\ dq <= 0 /\ db >= 0
             /\ \E b \in market.book["Bid"] :
                  b.trader = t /\ - dq * BaseLotsPerBaseUnit <= AdjustedQuote(b.price, db)
          \/ /\ dq >= 0 /\ db <= 0
             /\ \E a \in market.book["Ask"] :
                  a.trader = t /\ dq * BaseLotsPerBaseUnit >= AdjustedQuote(a.price, - db)
      BY Zenon, <3>1, <3>2 DEF GotItsPrice
    <3>4. dq \in Int /\ db \in Int
      BY <2>2, <3>1, HoldingType DEF Asset
    <3>5. /\ dq >= 0 => ~ (dq < 0)
          /\ db >= 0 => ~ (db < 0)
          /\ dq = 0 => ~ (dq < 0)
          /\ db = 0 => ~ (db < 0)
      BY <3>4
    <3>6. /\ dq < 0 => \E b \in market.book["Bid"] :
                          /\ b.trader = t
                          /\ - dq * BaseLotsPerBaseUnit <= AdjustedQuote(b.price, db)
          /\ db < 0 => \E a \in market.book["Ask"] :
                          /\ a.trader = t
                          /\ dq * BaseLotsPerBaseUnit >= AdjustedQuote(a.price, - db)
      BY Zenon, <3>3, <3>5
    <3>7. QED
      BY Zenon, <3>6 DEF dq, db
  <2>6. QED
    BY Zenon, <1>1, <2>1, <2>4, <2>5, PlaceOrderAccounts
<1>2. QED
  BY <1>1, Invariance, AccountsInvariance, MakersInvariance, PTL
  DEF Spec, MakersGetTheirPrice
============================================================================

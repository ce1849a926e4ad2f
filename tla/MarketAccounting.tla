-------------------------- MODULE MarketAccounting --------------------------
(***************************************************************************)
(* What the accounts of a market add up to, and what trades may do to them *)
(* (properties of PhoenixMarket that speak of sums over traders and        *)
(* orders).                                                                *)
(***************************************************************************)
EXTENDS PhoenixMarket, Functions

\* Public keys have 32 bytes.
ASSUME TraderAssumption == IsFiniteSet(Trader)

Holding(m, t, a) == m.free[t][a] + m.locked[t][a]

\* What the market owes of an asset: the lots of all traders and, in quote
\* lots, the unclaimed fees.
Owed(m, a) ==
  SumFunctionOnSet([t \in Trader |-> Holding(m, t, a)], Trader)
    + (IF a = "quote" THEN m.unclaimed ELSE 0)

\* The lots that a set of orders of one side lock.
OrderLots(side, orders) ==
  SumFunctionOnSet([o \in orders |-> Lots(side, o.price, o.size)], orders)

\* The lots of asset a that the resting orders of t lock.
LockedByOrders(m, t, a) ==
  LET side == IF a = "quote" THEN "Bid" ELSE "Ask"
  IN OrderLots(side, {o \in m.book[side] : o.trader = t})

\* A trader's locked lots are exactly what its resting orders lock, through
\* every partial fill, reduction, expiry and eviction: the lots to unlock are
\* recomputed from price and remaining size, so a rounding difference would
\* strand lots or make the checked subtraction panic.
LockedMatchesBook ==
  \A m \in Markets, t \in Trader, a \in Asset :
    m.locked[t][a] = LockedByOrders(m, t, a)

\* The vaults hold exactly what the market owes: the free and locked lots of
\* all traders and the unclaimed fees.
VaultsBackClaims == \A a \in Asset : vault[a] = Owed(market, a)

\* No checked subtraction of the engine or of the token program underflows.
NoUnderflow ==
  /\ \A m \in Markets, t \in Trader, a \in Asset :
       m.free[t][a] >= 0 /\ m.locked[t][a] >= 0
  /\ \A a \in Asset : vault[a] >= 0
  /\ txn.phase = "match" => txn.base >= 0 /\ txn.adj >= 0 /\ txn.limit >= 0
  /\ txn.phase = "place" => MatchedQuote >= 0

\* A taker never pays more quote than the budget of its order, fee included,
\* nor trades more base lots than it asked for; a sell bounded by a quote
\* amount never receives more than that.
BudgetRespected ==
  txn.phase = "place" =>
    /\ txn.p.type = "IOC" /\ txn.p.quote # 0 => MatchedQuote <= txn.p.quote
    /\ txn.p.base # 0 => txn.matchedBase <= txn.p.base

\* A post-only order never trades: whatever it removes from the book, no
\* trader's holdings change.
PostOnlyNeverTrades ==
  txn.phase \in {"cross", "match", "place"} =>
    (txn.p.type = "PostOnly" =>
       \A t \in Trader, a \in Asset : Holding(txn.m, t, a) = Holding(market, t, a))

\* What governance.rs says where it removes a market, "All traders should be
\* removed (all funds withdrawn)": a removed market leaves no tokens behind
\* in its vaults.
NothingStranded == status = "Tombstoned" => vault = NoLots

----------------------------------------------------------------------------
\* What a step changes in the lots a trader holds.
Change(t, a) == Holding(market', t, a) - Holding(market, t, a)

\* A trader whose order is taken gets at least its own price: base lots
\* leave only against the price of one of its asks, quote lots only against
\* the price of one of its bids.
MakersGetTheirPrice ==
  [][txn.phase = "place" =>
       \A t \in Trader \ {txn.who} :
         LET dq == Change(t, "quote")
             db == Change(t, "base")
         IN /\ dq < 0 => \E b \in market.book["Bid"] :
                           /\ b.trader = t
                           /\ - dq * BaseLotsPerBaseUnit <= AdjustedQuote(b.price, db)
            /\ db < 0 => \E a \in market.book["Ask"] :
                           /\ a.trader = t
                           /\ dq * BaseLotsPerBaseUnit >= AdjustedQuote(a.price, - db)
    ]_vars

\* The sequence number an order arrived with.
Arrival(o) == IF o.seq > MaxSeq THEN 2 * MaxSeq + 1 - o.seq ELSE o.seq

\* When a match takes lots from an order, no order of the same side with a
\* better price, or with the same price and an earlier arrival, is left.
PriceTimePriority ==
  [][\A s \in Side :
       txn.phase = "match" /\ txn'.phase = "match"
         /\ txn'.matchedBase > txn.matchedBase =>
           \A o \in txn.m.book[s] \ txn'.m.book[s], x \in txn'.m.book[s] :
             /\ IF s = "Bid" THEN x.price <= o.price ELSE x.price >= o.price
             /\ x.price = o.price => Arrival(x) >= Arrival(o)
    ]_vars

\* A cancellation settles exactly: it leaves the orders, lots and tokens of
\* every other trader alone whatever ids the caller names; what it releases
\* goes to the caller's token accounts if funds are claimed (lots that were
\* free before stay free) and to the caller's free lots otherwise.
CancelSettlesExactly ==
  [][txn.phase = "cancel" /\ txn' = NoTxn =>
       /\ \A u \in Trader \ {txn.who} :
            /\ \A s \in Side : {o \in market'.book[s] : o.trader = u} = Own(u, s)
            /\ market'.free[u] = market.free[u]
            /\ market'.locked[u] = market.locked[u]
            /\ wallet'[u] = wallet[u]
       /\ \A a \in Asset :
            Change(txn.who, a) = wallet[txn.who][a] - wallet'[txn.who][a]
       /\ IF txn.claim THEN market'.free[txn.who] = market.free[txn.who]
                       ELSE wallet' = wallet
    ]_vars

\* What status.rs says of the PostOnly status, "Only places, reductions and
\* withdrawals are accepted": an order that is written back has traded only
\* if the market is active.
TradesOnlyWhenActive ==
  [][txn.phase = "place" /\ market' # market =>
       (txn.matchedBase > 0 => status = "Active")]_vars

\* Every instruction comes to an end: the loops over the book, over expired
\* orders and over the ids to cancel all terminate.
TransactionsEnd == (txn # NoTxn) ~> (txn = NoTxn)

----------------------------------------------------------------------------
(* The inductive invariant behind these properties.                        *)

\* Every lot of a market is accounted for: locked lots by resting orders of
\* registered traders, and traders that are not registered hold nothing.
AccountsOK(m) ==
  /\ m.unclaimed >= 0
  /\ \A s \in Side : IsFiniteSet(m.book[s])
  /\ \A s \in Side : \A o \in m.book[s] : o.trader \in m.registered
  /\ \A t \in Trader, a \in Asset :
       /\ m.free[t][a] >= 0
       /\ m.locked[t][a] = LockedByOrders(m, t, a)
       /\ t \notin m.registered => m.free[t][a] = 0

\* The fee of the order in progress, until it is charged.
FeeDue == IF txn.phase = "match" THEN FeeOn(txn.matchedAdj) ELSE 0

\* What an order in progress has matched is within its budgets, and is what
\* the market's debts have changed by: the taker owes LotsIn of the asset it
\* pays and is owed LotsOut of the other.
OrderAccounts ==
  /\ txn.base >= 0 /\ txn.adj >= 0 /\ txn.limit >= 0
  /\ txn.matchedBase >= 0 /\ txn.matchedAdj >= 0
  /\ txn.matchedAdj % BaseLotsPerBaseUnit = 0
  /\ txn.matchedBase + txn.base <= base_lot_budget(txn.p)
  /\ txn.matchedAdj + txn.adj <= adjusted_quote_lot_budget(txn.p)
  /\ ~ DividesByZero(txn.p)
  /\ (txn.matchedBase = 0) <=> (txn.matchedAdj = 0)
  /\ txn.p.type # "IOC" => txn.who \in txn.m.registered
  /\ \A a \in Asset :
       Owed(txn.m, a) + (IF a = "quote" THEN FeeDue ELSE 0)
         = Owed(market, a) + (IF a = Pays(txn.p.side) THEN LotsIn ELSE - LotsOut)

\* What a cancellation in progress has released is in the caller's free lots
\* or on its way out; nobody else is touched.
CancelAccounts ==
  /\ \A u \in Trader \ {txn.who} :
       /\ \A s \in Side : {o \in txn.m.book[s] : o.trader = u} = Own(u, s)
       /\ txn.m.free[u] = market.free[u]
       /\ txn.m.locked[u] = market.locked[u]
  /\ \A a \in Asset :
       /\ txn.out[a] >= 0
       /\ Holding(txn.m, txn.who, a) + txn.out[a] = Holding(market, txn.who, a)
  /\ IF txn.claim THEN txn.m.free[txn.who] = market.free[txn.who]
                  ELSE txn.out = NoLots
  /\ txn.m.unclaimed = market.unclaimed

AccInv ==
  /\ AccountsOK(market)
  /\ txn # NoTxn => AccountsOK(txn.m)
  /\ txn.phase \in {"cross", "match", "place"} => OrderAccounts
  /\ txn.phase = "cancel" => CancelAccounts

\* A market whose account is removed has nothing left in it.
RemovedEmpty ==
  status = "Tombstoned" =>
    txn = NoTxn /\ market.registered = {} /\ market.unclaimed = 0

\* What trader t gave and received between markets m0 and m, if it was
\* traded with by a taker of this side: one asset left it, for at least the
\* price of an order it had in m0.
GotItsPrice(m0, m, t, side) ==
  LET dq == Holding(m, t, "quote") - Holding(m0, t, "quote")
      db == Holding(m, t, "base") - Holding(m0, t, "base")
  IN \/ dq = 0 /\ db = 0
     \/ /\ side = "Ask" /\ dq <= 0 /\ db >= 0
        /\ \E b \in m0.book["Bid"] :
             b.trader = t /\ - dq * BaseLotsPerBaseUnit <= AdjustedQuote(b.price, db)
     \/ /\ side = "Bid" /\ dq >= 0 /\ db <= 0
        /\ \E a \in m0.book["Ask"] :
             a.trader = t /\ dq * BaseLotsPerBaseUnit >= AdjustedQuote(a.price, - db)

\* The orders of m are left over from orders of m0.
OrdersFrom(m0, m) ==
  \A s \in Side : \A o \in m.book[s] :
    \E x \in m0.book[s] : x.price = o.price /\ x.trader = o.trader

\* The makers of an order in progress, and the fees it has been charged.
MakersInv ==
  txn.phase \in {"cross", "match", "place"} =>
    /\ txn.m.unclaimed >= market.unclaimed
    /\ OrdersFrom(market, txn.m)
    /\ \A t \in Trader \ {txn.who} : GotItsPrice(market, txn.m, t, txn.p.side)
============================================================================

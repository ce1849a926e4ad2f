---------------------------- MODULE OrderProofs ----------------------------
(***************************************************************************)
(* The operations with which the engine settles an order keep the accounts *)
(* of a market in order, and so do the steps of an order in progress, from *)
(* the instruction that starts it to the one that writes the market back.  *)
(***************************************************************************)
EXTENDS PhoenixMarketProofs

----------------------------------------------------------------------------
(* Claiming, making room and posting keep the accounts in order.           *)

\* Reducing an order and claiming what it released: the claim pays exactly
\* the lots of the reduction, so free lots stay what they were.
LEMMA ReduceAndClaimAccounts ==
  ASSUME NEW m \in Market, AccountsOK(m), NEW side \in Side,
         NEW o \in m.book[side], NEW n \in Nat, n <= o.size,
         \A x \in m.book[side] : x.seq = o.seq => x = o, NEW claim \in BOOLEAN
  PROVE  LET r == ReduceAndClaim(m, side, o, n, claim)
         IN /\ r.m \in Market /\ AccountsOK(r.m) /\ r.out \in Amounts
            /\ r.m.book = TakeFrom(m.book, side, o, n)
            /\ r.m.registered = m.registered /\ r.m.unclaimed = m.unclaimed
            /\ \A u \in Trader \ {o.trader} :
                 r.m.free[u] = m.free[u] /\ r.m.locked[u] = m.locked[u]
            /\ \A a \in Asset : r.out[a] >= 0
            /\ \A u \in Trader, a \in Asset : Holding(r.m, u, a)
                 = Holding(m, u, a) - (IF u = o.trader THEN r.out[a] ELSE 0)
            /\ \A a \in Asset : Owed(m, a) \in Int /\ Owed(r.m, a) = Owed(m, a) - r.out[a]
            /\ IF claim THEN r.m.free[o.trader] = m.free[o.trader]
                        ELSE r.out = NoLots
<1> DEFINE r == ReduceAndClaim(m, side, o, n, claim)
           d == ReduceBy(m, side, o, n)
           L == Lots(side, o.price, n)
           want == [NoLots EXCEPT ![Pays(side)] = L]
           t == o.trader
<1>1. t \in Trader /\ o.price \in Nat /\ Pays(side) \in Asset /\ t \in m.registered
  BY SideFacts DEF Market, Book, Order, AccountsOK
<1>2. L \in Nat
  BY Zenon, <1>1, LotsNat
<1>3. /\ r.m = Debit(d, t, r.out)
      /\ r.out = IF claim THEN Claimable(d, t, want) ELSE NoLots
  BY Zenon DEF ReduceAndClaim
<1> HIDE DEF L
<1>4. /\ d \in Market /\ AccountsOK(d)
      /\ d.book = TakeFrom(m.book, side, o, n)
      /\ d.registered = m.registered /\ d.unclaimed = m.unclaimed
      /\ \A u \in Trader, a \in Asset : Holding(d, u, a) = Holding(m, u, a)
      /\ \A u \in Trader \ {t} : d.free[u] = m.free[u] /\ d.locked[u] = m.locked[u]
      /\ \A a \in Asset : d.free[t][a] = m.free[t][a]
           + (IF a = Pays(side) THEN L ELSE 0)
  BY ReduceByAccounts DEF L
<1>5. want \in Amounts /\ \A a \in Asset : want[a] = IF a = Pays(side) THEN L ELSE 0
  BY <1>1, <1>2 DEF NoLots, Amounts
<1> HIDE DEF d, want
<1>6. \A a \in Asset : m.free[t][a] \in Nat
  BY Zenon, <1>1, AccountsNat
<1>7. \A a \in Asset : want[a] <= d.free[t][a]
  BY <1>2, <1>4, <1>5, <1>6
<1>8. Claimable(d, t, want) = want
  <2>1. Claimable(d, t, want) = [a \in Asset |-> want[a]]
    BY Zenon, <1>7 DEF Claimable, Least
  <2>2. QED
    BY Zenon, <1>5, <2>1 DEF Amounts
<1>9. r.out = IF claim THEN want ELSE NoLots
  BY Zenon, <1>3, <1>8
<1> HIDE DEF r
<1>10. /\ r.out \in Amounts
       /\ \A a \in Asset : r.out[a] >= 0 /\ r.out[a] <= d.free[t][a]
  <2>1. NoLots \in Amounts /\ \A a \in Asset : NoLots[a] = 0
    BY DEF NoLots, Amounts
  <2>2. \A a \in Asset : d.free[t][a] >= 0
    BY Zenon, <1>1, <1>4 DEF AccountsOK
  <2>3. QED
    BY <1>2, <1>5, <1>7, <1>9, <2>1, <2>2
<1>11. /\ r.m \in Market /\ AccountsOK(r.m)
       /\ r.m.book = d.book /\ r.m.registered = d.registered
       /\ r.m.unclaimed = d.unclaimed /\ r.m.locked = d.locked
       /\ \A u \in Trader \ {t} : r.m.free[u] = d.free[u]
       /\ \A a \in Asset : r.m.free[t][a] = d.free[t][a] - r.out[a]
       /\ \A u \in Trader, a \in Asset : Holding(r.m, u, a)
            = Holding(d, u, a) - (IF u = t THEN r.out[a] ELSE 0)
       /\ \A a \in Asset : Owed(d, a) \in Int /\ Owed(r.m, a) = Owed(d, a) - r.out[a]
  <2>1. t \in d.registered
    BY Zenon, <1>1, <1>4
  <2> HIDE DEF t
  <2>2. QED
    BY <1>1, <1>3, <1>4, <1>10, <2>1, DebitAccounts
<1>12. \A a \in Asset : Owed(d, a) = Owed(m, a)
  <2>1. TAKE a \in Asset
  <2>2. 0 \in Int /\ d.unclaimed = m.unclaimed + 0
    BY <1>4 DEF Market
  <2>3. Owed(m, a) \in Int /\ Owed(d, a) = Owed(m, a) + (IF a = "quote" THEN 0 ELSE 0)
    BY Zenon, <1>4, <2>2, OwedSame
  <2>4. QED
    BY <2>3
<1>13. claim => r.m.free[t] = m.free[t]
  <2>1. ASSUME claim PROVE \A a \in Asset : r.m.free[t][a] = m.free[t][a]
    BY <1>2, <1>4, <1>5, <1>6, <1>9, <1>11, <2>1
  <2>2. r.m.free[t] \in Amounts /\ m.free[t] \in Amounts
    BY Zenon, <1>1, <1>11 DEF Market, Balances
  <2>3. QED
    BY <2>1, <2>2 DEF Amounts
<1>14. /\ \A u \in Trader \ {t} : r.m.free[u] = m.free[u] /\ r.m.locked[u] = m.locked[u]
       /\ \A u \in Trader, a \in Asset : Holding(r.m, u, a)
            = Holding(m, u, a) - (IF u = t THEN r.out[a] ELSE 0)
       /\ \A a \in Asset : Owed(m, a) \in Int /\ Owed(r.m, a) = Owed(m, a) - r.out[a]
       /\ r.m.book = TakeFrom(m.book, side, o, n)
       /\ r.m.registered = m.registered /\ r.m.unclaimed = m.unclaimed
  BY <1>4, <1>11, <1>12
<1>15. IF claim THEN r.m.free[t] = m.free[t] ELSE r.out = NoLots
  BY Zenon, <1>9, <1>13
<1>16. QED
  BY Zenon, <1>10, <1>11, <1>14, <1>15 DEF r, t

\* The order that makes room on a full book gets its lots back.
LEMMA MakeRoomAccounts ==
  ASSUME NEW m \in Market, AccountsOK(m), NEW side \in Side, NEW price,
         \A x, y \in m.book[side] : x.seq = y.seq => x = y
  PROVE  LET r == MakeRoom(m, side, price)
         IN /\ r \in Market /\ AccountsOK(r)
            /\ r.registered = m.registered /\ r.unclaimed = m.unclaimed
            /\ \A t \in Trader, a \in Asset : Holding(r, t, a) = Holding(m, t, a)
<1> DEFINE w == CHOOSE x \in Evictable(m, side, price) : TRUE
<1>1. CASE Evictable(m, side, price) # {}
  <2>1. w \in m.book[side]
    BY Zenon, <1>1 DEF Evictable
  <2> HIDE DEF w
  <2>2. w.size \in Nat /\ w.size <= w.size
    BY <2>1 DEF Market, Order, Book
  <2> DEFINE r == ReduceBy(m, side, w, w.size)
  <2>3. /\ r \in Market /\ AccountsOK(r)
        /\ r.registered = m.registered /\ r.unclaimed = m.unclaimed
        /\ \A t \in Trader, a \in Asset : Holding(r, t, a) = Holding(m, t, a)
    BY <2>1, <2>2, ReduceByAccounts
  <2>4. MakeRoom(m, side, price) = r \/ MakeRoom(m, side, price) = m
    BY Zenon DEF MakeRoom, RemoveOrder, w
  <2> HIDE DEF r
  <2>5. QED
    BY Zenon, <2>3, <2>4
<1>2. CASE Evictable(m, side, price) = {}
  BY Zenon, <1>2 DEF MakeRoom
<1>3. QED
  BY Zenon, <1>1, <1>2

\* r is m with an order of t that locks some lots of p, in part from those
\* that were free.
Posted(m, r, t, p, lock, fromFree) ==
  /\ AccountsOK(r)
  /\ lock \in Nat /\ fromFree \in Nat /\ fromFree <= lock
  /\ r.registered = m.registered /\ r.unclaimed = m.unclaimed
  /\ r.free[t][p] = m.free[t][p] - fromFree
  /\ \A u \in Trader, a \in Asset : Holding(r, u, a) = Holding(m, u, a)
       + (IF u = t /\ a = p THEN lock - fromFree ELSE 0)

\* A posted order locks its lots, from what is free first.
LEMMA PostAccounts ==
  ASSUME NEW m \in Market, AccountsOK(m), NEW side \in Side, NEW t \in m.registered,
         NEW price \in Nat \ {0}, NEW n \in Nat \ {0}, NEW lvs \in Nat,
         StoredSeq(side, m.seq) \in Nat,
         \A x \in m.book[side] : x.seq # StoredSeq(side, m.seq),
         NEW r \in Market, r = Post(m, side, t, price, n, lvs)
  PROVE  LET lock == Lots(side, price, n)
             fromFree == Least(lock, m.free[t][Pays(side)])
         IN Posted(m, r, t, Pays(side), lock, fromFree)
<1> DEFINE o == [price |-> price, seq |-> StoredSeq(side, m.seq), trader |-> t,
                 size |-> n, lvs |-> lvs]
           lock == Lots(side, price, n)
           p == Pays(side)
           fromFree == Least(lock, m.free[t][p])
<1>1. /\ t \in Trader /\ p \in Asset /\ m.book \in Book
      /\ m.free \in Balances /\ m.locked \in Balances
  BY Zenon, SideFacts DEF Market
<1>2. o \in Order /\ o \notin m.book[side] /\ o.trader = t /\ o.price = price /\ o.size = n
  BY Zenon, <1>1 DEF Order
<1>3. /\ r.book = [m.book EXCEPT ![side] = @ \cup {o}]
      /\ r.registered = m.registered /\ r.unclaimed = m.unclaimed
      /\ r.locked = AddLots(m.locked, t, p, lock)
      /\ r.free = AddLots(m.free, t, p, - fromFree)
  BY Zenon DEF Post, Market
<1>4. /\ r.book[side] = m.book[side] \cup {o}
      /\ \A s \in Side \ {side} : r.book[s] = m.book[s]
  BY Zenon, <1>1, <1>3 DEF Book
<1>5. lock \in Nat
  BY Zenon, LotsNat
<1> HIDE DEF o, lock, p
<1>6. m.free[t][p] \in Nat
  BY Zenon, <1>1, AccountsNat
<1>7. fromFree \in Nat /\ fromFree <= lock /\ fromFree <= m.free[t][p]
  BY <1>5, <1>6 DEF Least
<1> HIDE DEF fromFree
<1>8. lock \in Int /\ - fromFree \in Int
  BY <1>5, <1>7
<1>9. \A u \in Trader, a \in Asset :
        r.locked[u][a] = m.locked[u][a] + (IF u = t /\ a = p THEN lock ELSE 0)
  BY <1>1, <1>3, <1>8, AddLotsAt
<1>10. \A u \in Trader, a \in Asset :
        r.free[u][a] = m.free[u][a] + (IF u = t /\ a = p THEN - fromFree ELSE 0)
  BY <1>1, <1>3, <1>8, AddLotsAt
<1>11. \A u \in Trader, a \in Asset : m.free[u][a] \in Int /\ m.locked[u][a] \in Int
  BY Zenon, HoldingType
<1>12. \A u \in Trader, a \in Asset : Holding(r, u, a) = Holding(m, u, a)
         + (IF u = t /\ a = p THEN lock - fromFree ELSE 0)
  BY <1>5, <1>7, <1>9, <1>10, <1>11 DEF Holding
<1>13. r.free[t][p] = m.free[t][p] - fromFree
  BY Zenon, <1>1, <1>6, <1>7, <1>10
<1>14. \A s \in Side : m.book[s] \in SUBSET Order /\ IsFiniteSet(m.book[s])
  BY Zenon, <1>1 DEF Book, AccountsOK
<1>15. AccountsOK(r)
  <2>1. \A s \in Side : IsFiniteSet(r.book[s])
    <3>1. IsFiniteSet(m.book[side] \cup {o})
      BY Zenon, <1>14, FS_AddElement
    <3>2. QED
      BY Zenon, <1>4, <1>14, <3>1
  <2>2. \A s \in Side : \A x \in r.book[s] : x.trader \in r.registered
    BY Zenon, <1>2, <1>3, <1>4 DEF AccountsOK
  <2>3. \A u \in Trader, a \in Asset :
          r.free[u][a] >= 0 /\ (u \notin r.registered => r.free[u][a] = 0)
    BY <1>3, <1>6, <1>7, <1>10, <1>11 DEF AccountsOK
  <2>4. ASSUME NEW u \in Trader, NEW a \in Asset
        PROVE  r.locked[u][a] = LockedByOrders(r, u, a)
    <3> DEFINE s == IF a = "quote" THEN "Bid" ELSE "Ask"
               mine == {x \in m.book[s] : x.trader = u}
               after == {x \in r.book[s] : x.trader = u}
    <3>1. s \in Side /\ (a = p <=> side = s)
      BY Zenon, PaysSide DEF p
    <3>2. m.locked[u][a] = OrderLots(s, mine)
      BY Zenon DEF AccountsOK, LockedByOrders
    <3>3. LockedByOrders(r, u, a) = OrderLots(s, after)
      BY Zenon DEF LockedByOrders
    <3>5. CASE s = side /\ u = t
      <4>1. after = mine \cup {o}
        BY Zenon, <1>2, <1>4, <3>5
      <4>2. mine \in SUBSET Order /\ IsFiniteSet(mine) /\ o \notin mine
        BY Zenon, <1>2, <1>14, <3>1, <3>5, FS_Subset
      <4> HIDE DEF mine, after, s
      <4>3. OrderLots(s, after) = OrderLots(s, mine) + lock
        BY Zenon, <1>2, <3>1, <4>1, <4>2, OrderLotsAdd, <3>5 DEF lock
      <4>4. QED
        BY Zenon, <1>9, <3>1, <3>2, <3>3, <3>5, <4>3
    <3>6. CASE ~ (s = side /\ u = t)
      <4>1. after = mine
        BY <1>2, <1>4, <3>1, <3>6
      <4>2. r.locked[u][a] = m.locked[u][a]
        BY <1>9, <1>11, <3>1, <3>6
      <4>3. QED
        BY Zenon, <3>2, <3>3, <4>1, <4>2
    <3>7. QED
      BY Zenon, <3>5, <3>6
  <2>5. r.unclaimed >= 0
    BY Zenon, <1>3 DEF AccountsOK
  <2>6. QED
    BY Zenon, <2>1, <2>2, <2>3, <2>4, <2>5 DEF AccountsOK
<1>16. QED
  BY Zenon, <1>3, <1>5, <1>7, <1>12, <1>13, <1>15 DEF lock, fromFree, p, Posted

\* Fees come or go; nothing else changes.
LEMMA FeeAccounts ==
  ASSUME NEW m \in Market, AccountsOK(m), NEW r \in Market, NEW e \in Int,
         r.book = m.book, r.registered = m.registered,
         r.free = m.free, r.locked = m.locked,
         r.unclaimed = m.unclaimed + e, r.unclaimed >= 0
  PROVE  /\ AccountsOK(r)
         /\ \A t \in Trader, a \in Asset : Holding(r, t, a) = Holding(m, t, a)
         /\ \A a \in Asset : /\ Owed(m, a) \in Int
                             /\ Owed(r, a) = Owed(m, a) + (IF a = "quote" THEN e ELSE 0)
<1>1. \A t \in Trader, a \in Asset : Holding(r, t, a) = Holding(m, t, a)
  BY Zenon DEF Holding
<1>2. \A t \in Trader, a \in Asset : LockedByOrders(r, t, a) = LockedByOrders(m, t, a)
  BY Zenon DEF LockedByOrders
<1>3. AccountsOK(r)
  BY Zenon, <1>2 DEF AccountsOK
<1>4. ASSUME NEW a \in Asset
      PROVE  Owed(m, a) \in Int /\ Owed(r, a) = Owed(m, a) + (IF a = "quote" THEN e ELSE 0)
  BY <1>1, OwedSame
<1>5. QED
  BY Zenon, <1>1, <1>3, <1>4

----------------------------------------------------------------------------
(* Whose tokens and lots a step moves.                                     *)

\* Tokens move exactly as the debts of the market do.
VaultsFollow ==
  \A a \in Asset : vault'[a] - Owed(market', a) = vault[a] - Owed(market, a)

\* Tokens move between the vaults and the token accounts of trader t.
OwnTokens(t) ==
  /\ \A u \in Trader \ {t} : wallet'[u] = wallet[u]
  /\ \A a \in Asset : wallet'[t][a] \in Int
                      /\ vault'[a] + wallet'[t][a] = vault[a] + wallet[t][a]
  /\ treasury' = treasury

\* The market changes its debts to trader t only.
OwnLots(t) ==
  /\ \A u \in Trader \ {t}, a \in Asset : Holding(market', u, a) = Holding(market, u, a)
  /\ market'.unclaimed = market.unclaimed

\* Nobody's tokens and lots move; fees may be collected.
NobodysAccounts ==
  /\ wallet' = wallet
  /\ \A u \in Trader, a \in Asset : Holding(market', u, a) = Holding(market, u, a)
  /\ market'.unclaimed + treasury' = market.unclaimed + treasury

\* Steps that write nobody's tokens and leave the lots in the market alone.
LEMMA NobodysWhen ==
  ASSUME wallet' = wallet, treasury' = treasury,
         market'.free = market.free, market'.locked = market.locked,
         market'.unclaimed = market.unclaimed
  PROVE  NobodysAccounts
BY Zenon DEF NobodysAccounts, Holding

\* Payments into and out of the vaults move tokens of one trader.
LEMMA PaymentsOwn ==
  ASSUME wallet \in Balances, vault \in Amounts, treasury' = treasury,
         NEW t \in Trader, NEW lots \in Amounts, PayIn(t, lots) \/ PayOut(t, lots)
  PROVE  OwnTokens(t)
<1>1. ASSUME NEW l \in Amounts, wallet' = AddAll(wallet, t, l),
             \A a \in Asset : vault'[a] = vault[a] - l[a]
      PROVE  OwnTokens(t)
  <2>1. /\ \A u \in Trader, a \in Asset :
             wallet'[u][a] = wallet[u][a] + (IF u = t THEN l[a] ELSE 0)
        /\ \A u \in Trader \ {t} : wallet'[u] = wallet[u]
    BY <1>1, AddAllAt
  <2>2. \A a \in Asset : vault[a] \in Int /\ l[a] \in Int /\ wallet[t][a] \in Int
    BY Zenon DEF Amounts, Balances
  <2>3. QED
    BY <1>1, <2>1, <2>2 DEF OwnTokens
<1>2. CASE PayIn(t, lots)
  <2> DEFINE less == [a \in Asset |-> - lots[a]]
  <2>1. wallet' = AddAll(wallet, t, less) /\ vault' = [a \in Asset |-> vault[a] + lots[a]]
    BY Zenon, <1>2 DEF PayIn
  <2>2. less \in Amounts /\ \A a \in Asset : vault'[a] = vault[a] - less[a]
    BY <2>1 DEF Amounts
  <2> HIDE DEF less
  <2>3. QED
    BY Zenon, <1>1, <2>1, <2>2
<1>3. CASE PayOut(t, lots)
  <2>1. wallet' = AddAll(wallet, t, lots) /\ vault' = [a \in Asset |-> vault[a] - lots[a]]
    BY Zenon, <1>3 DEF PayOut
  <2>2. QED
    BY Zenon, <1>1, <2>1
<1>4. QED
  BY Zenon, <1>2, <1>3

\* Claims never exceed what is free.
LEMMA ClaimableWithin ==
  ASSUME NEW m \in Market, AccountsOK(m), NEW t \in Trader, NEW want \in Amounts
  PROVE  LET out == Claimable(m, t, want)
         IN out \in Amounts /\ \A a \in Asset : out[a] <= m.free[t][a]
<1>1. \A a \in Asset : m.free[t][a] \in Int /\ want[a] \in Int
  BY Zenon, HoldingType DEF Amounts
<1>2. QED
  BY <1>1 DEF Claimable, Least, Amounts

\* A step that ends the instruction.
LEMMA TxnEnds ==
  ASSUME AccountsOK(market'), txn' = NoTxn
  PROVE  AccInv'
<1>1. txn'.phase = "idle"
  BY Zenon DEF NoTxn
<1>2. QED
  BY Zenon, <1>1 DEF AccInv

\* Steps that change none of the variables keep the accounts.
LEMMA StutterAccounts ==
  ASSUME AccInv, UNCHANGED vars
  PROVE  AccInv'
<1>1. market' = market /\ txn' = txn
  BY Zenon DEF vars
<1>2. OrderAccounts' <=> OrderAccounts
  BY Zenon, <1>1 DEF OrderAccounts, FeeDue, LotsIn, LotsOut, MatchedQuote
<1>3. CancelAccounts' <=> CancelAccounts
  BY Zenon, <1>1 DEF CancelAccounts, Own
<1>4. QED
  BY Zenon, <1>1, <1>2, <1>3 DEF AccInv

----------------------------------------------------------------------------
(* Steps of an order.                                                      *)

\* Adding lots twice changes the balances of one trader.
LEMMA AddLotsTwice ==
  ASSUME NEW f \in Balances, NEW t \in Trader, NEW b \in Asset, NEW c \in Asset,
         NEW g \in Int, NEW n \in Int
  PROVE  LET w == AddLots(AddLots(f, t, b, g), t, c, n)
         IN /\ \A u \in Trader \ {t} : w[u] = f[u]
            /\ \A a \in Asset : w[t][a] = f[t][a] + (IF a = b THEN g ELSE 0)
                                             + (IF a = c THEN n ELSE 0)
<1> DEFINE v == AddLots(f, t, b, g)
           w == AddLots(v, t, c, n)
<1>1. v \in Balances
  BY Zenon, AddLotsType
<1>2. /\ \A a \in Asset : v[t][a] = f[t][a] + (IF a = b THEN g ELSE 0)
      /\ \A u \in Trader \ {t} : v[u] = f[u]
  BY AddLotsAt
<1> HIDE DEF v
<1>3. /\ \A a \in Asset : w[t][a] = v[t][a] + (IF a = c THEN n ELSE 0)
      /\ \A u \in Trader \ {t} : w[u] = v[u]
  BY <1>1, AddLotsAt
<1> HIDE DEF w
<1>4. /\ \A u \in Trader \ {t} : w[u] = f[u]
      /\ \A a \in Asset : w[t][a] = f[t][a] + (IF a = b THEN g ELSE 0)
                                       + (IF a = c THEN n ELSE 0)
  BY Zenon, <1>2, <1>3
<1>5. QED
  BY Zenon, <1>4 DEF w, v

\* A taker that pays from its wallet moves tokens of both assets.
LEMMA TakerPays ==
  ASSUME wallet \in Balances, vault \in Amounts, treasury' = treasury,
         NEW t \in Trader, NEW pay \in Asset, NEW get \in Asset, pay # get,
         NEW d \in Int, NEW n \in Int,
         vault' = [vault EXCEPT ![pay] = @ + d, ![get] = @ - n],
         wallet' = AddLots(AddLots(wallet, t, pay, - d), t, get, n)
  PROVE  OwnTokens(t)
<1>1. PICK g \in Int : g = - d
  OBVIOUS
<1>2. wallet' = AddLots(AddLots(wallet, t, pay, g), t, get, n)
  BY Zenon, <1>1
<1>3. /\ \A u \in Trader \ {t} : wallet'[u] = wallet[u]
      /\ \A a \in Asset : wallet'[t][a] = wallet[t][a] + (IF a = pay THEN g ELSE 0)
                                             + (IF a = get THEN n ELSE 0)
  BY <1>2, AddLotsTwice
<1>4. ASSUME NEW a \in Asset
      PROVE  wallet'[t][a] \in Int /\ vault'[a] + wallet'[t][a] = vault[a] + wallet[t][a]
  <2>1. vault[a] \in Int /\ wallet[t][a] \in Int
    BY Zenon DEF Balances, Amounts
  <2>2. /\ a = pay => vault'[a] = vault[a] + d
        /\ a = get => vault'[a] = vault[a] - n
        /\ a # pay /\ a # get => vault'[a] = vault[a]
    BY Zenon DEF Amounts
  <2>3. /\ a = pay => wallet'[t][a] = wallet[t][a] + g
        /\ a = get => wallet'[t][a] = wallet[t][a] + n
        /\ a # pay /\ a # get => wallet'[t][a] = wallet[t][a]
    BY <1>3, <2>1
  <2>4. QED
    BY <1>1, <2>1, <2>2, <2>3
<1>5. QED
  BY Zenon, <1>3, <1>4 DEF OwnTokens

\* What is known while an order is in progress.
LEMMA OrderAccountsFacts ==
  ASSUME IndInv, AccInv, txn.phase \in {"cross", "match", "place"}
  PROVE  /\ AccountsOK(market) /\ AccountsOK(txn.m) /\ OrderAccounts
         /\ market \in Market /\ txn.m \in Market /\ txn.who \in Trader
         /\ txn.p \in Packet /\ txn.p.side \in Side
         /\ txn.base \in Nat /\ txn.adj \in Nat /\ txn.limit \in Nat
         /\ txn.matchedBase \in Nat /\ txn.matchedAdj \in Nat
         /\ txn.terminate \in BOOLEAN
         /\ \A s \in Side : \A x, y \in txn.m.book[s] : x.seq = y.seq => x = y
<1>1. txn \in OrderTxn /\ txn # NoTxn /\ MarketOK(txn.m, slot)
  BY Zenon, OrderFacts
<1>2. AccountsOK(market) /\ AccountsOK(txn.m) /\ OrderAccounts
  BY Zenon, <1>1 DEF AccInv
<1>3. market \in Market
  BY Zenon DEF IndInv, TypeOK
<1>4. /\ txn.m \in Market /\ txn.who \in Trader /\ txn.p \in Packet
      /\ txn.base \in Int /\ txn.adj \in Int /\ txn.limit \in Int
      /\ txn.matchedBase \in Int /\ txn.matchedAdj \in Int
      /\ txn.terminate \in BOOLEAN
  BY Zenon, <1>1 DEF OrderTxn
<1>5. /\ txn.base \in Nat /\ txn.adj \in Nat /\ txn.limit \in Nat
      /\ txn.matchedBase \in Nat /\ txn.matchedAdj \in Nat
  BY <1>2, <1>4 DEF OrderAccounts
<1>6. txn.p.side \in Side
  BY Zenon, <1>4 DEF Packet
<1>7. \A s \in Side : \A x, y \in txn.m.book[s] : x.seq = y.seq => x = y
  BY Zenon, <1>1 DEF MarketOK, BookOK
<1>8. QED
  BY Zenon, <1>2, <1>3, <1>4, <1>5, <1>6, <1>7

\* A step that only moves the order on.
LEMMA OrderGoesOn ==
  ASSUME AccInv, market' = market, txn' \in OrderTxn, AccountsOK(txn'.m), OrderAccounts'
  PROVE  AccInv'
<1>1. txn'.phase # "cancel"
  BY Zenon DEF OrderTxn
<1>2. AccountsOK(market')
  BY Zenon DEF AccInv
<1>3. QED
  BY Zenon, <1>1, <1>2 DEF AccInv

\* The engine takes lots off a resting order without a trade: budgets may
\* shrink, and what was matched stays.
LEMMA OrderRemovesAccounts ==
  ASSUME IndInv, AccInv, txn.phase \in {"cross", "match"}, NEW o \in Resting,
         NEW n \in Nat, n <= o.size,
         NEW base \in Nat, base <= txn.base, NEW adj \in Nat, adj <= txn.adj,
         NEW limit \in Nat, NEW terminate \in BOOLEAN, market' = market,
         txn' = [txn EXCEPT !.m = ReduceBy(txn.m, Maker, o, n),
                            !.base = base, !.adj = adj, !.limit = limit,
                            !.terminate = terminate]
  PROVE  AccInv'
<1>1. /\ AccountsOK(market) /\ AccountsOK(txn.m) /\ OrderAccounts
      /\ market \in Market /\ txn.m \in Market /\ txn.p \in Packet
      /\ txn.base \in Nat /\ txn.adj \in Nat
      /\ txn.matchedBase \in Nat /\ txn.matchedAdj \in Nat
      /\ \A s \in Side : \A x, y \in txn.m.book[s] : x.seq = y.seq => x = y
  BY Zenon, OrderAccountsFacts
<1>2. txn \in OrderTxn /\ Maker \in Side
  BY Zenon, OrderFacts
<1> DEFINE m == ReduceBy(txn.m, Maker, o, n)
<1>3. /\ m \in Market /\ AccountsOK(m) /\ m.registered = txn.m.registered
      /\ m.unclaimed = txn.m.unclaimed
      /\ \A t \in Trader, a \in Asset : Holding(m, t, a) = Holding(txn.m, t, a)
  BY <1>1, <1>2, ReduceByAccounts DEF Resting
<1> HIDE DEF m
<1>4. \A a \in Asset : Owed(m, a) = Owed(txn.m, a)
  <2>1. TAKE a \in Asset
  <2>2. 0 \in Int /\ m.unclaimed = txn.m.unclaimed + 0
    BY <1>1, <1>3 DEF Market
  <2>3. Owed(txn.m, a) \in Int /\ Owed(m, a) = Owed(txn.m, a) + (IF a = "quote" THEN 0 ELSE 0)
    BY <1>1, <1>3, <2>2, OwedSame
  <2>4. QED
    BY <2>3
<1>5. /\ txn'.m = m /\ txn'.phase = txn.phase /\ txn'.p = txn.p
      /\ txn'.who = txn.who /\ txn'.base = base /\ txn'.adj = adj
      /\ txn'.limit = limit
      /\ txn'.matchedBase = txn.matchedBase /\ txn'.matchedAdj = txn.matchedAdj
  BY Zenon, <1>2 DEF OrderTxn, m
<1>6. txn' \in OrderTxn
  <2>1. base \in Int /\ adj \in Int /\ limit \in Int
    OBVIOUS
  <2>2. QED
    BY Zenon, <1>2, <1>3, <2>1 DEF OrderTxn, m
<1>7. MatchedQuote' = MatchedQuote /\ FeeDue' = FeeDue
  BY <1>5 DEF MatchedQuote, FeeDue
<1>8. LotsIn' = LotsIn /\ LotsOut' = LotsOut
  BY Zenon, <1>5, <1>7 DEF LotsIn, LotsOut
<1>9. \A a \in Asset : Owed(txn'.m, a) + (IF a = "quote" THEN FeeDue' ELSE 0)
        = Owed(market', a) + (IF a = Pays(txn'.p.side) THEN LotsIn' ELSE - LotsOut')
  BY Zenon, <1>1, <1>4, <1>5, <1>7, <1>8 DEF OrderAccounts
<1>10. /\ txn'.matchedBase + txn'.base <= base_lot_budget(txn'.p)
       /\ txn'.matchedAdj + txn'.adj <= adjusted_quote_lot_budget(txn'.p)
       /\ ~ DividesByZero(txn'.p)
  <2>1. /\ txn.matchedBase + txn.base <= base_lot_budget(txn.p)
        /\ txn.matchedAdj + txn.adj <= adjusted_quote_lot_budget(txn.p)
        /\ ~ DividesByZero(txn.p)
    BY Zenon, <1>1 DEF OrderAccounts
  <2>2. base_lot_budget(txn.p) \in Int /\ adjusted_quote_lot_budget(txn.p) \in Int
    BY <1>1, <2>1, BudgetType, ConfigAssumption DEF base_lot_budget, Packet
  <2>3. QED
    BY <1>1, <1>5, <2>1, <2>2
<1>11. /\ txn'.base >= 0 /\ txn'.adj >= 0 /\ txn'.limit >= 0
       /\ txn'.matchedBase >= 0 /\ txn'.matchedAdj >= 0
       /\ txn'.matchedAdj % BaseLotsPerBaseUnit = 0
  BY <1>1, <1>3, <1>5 DEF OrderAccounts
<1>12. OrderAccounts'
  <2>1. /\ (txn'.matchedBase = 0) <=> (txn'.matchedAdj = 0)
        /\ txn'.p.type # "IOC" => txn'.who \in txn'.m.registered
    BY Zenon, <1>1, <1>3, <1>5 DEF OrderAccounts
  <2>2. QED
    BY Zenon, <1>9, <1>10, <1>11, <2>1 DEF OrderAccounts
<1>13. QED
  BY Zenon, <1>3, <1>5, <1>6, <1>12, OrderGoesOn

\* A step that ends the search of the book: the order is about to be placed.
LEMMA OrderReady ==
  ASSUME IndInv, AccInv, txn.phase = "cross", NEW price \in Nat, market' = market,
         txn' = [txn EXCEPT !.phase = "place", !.p = [txn.p EXCEPT !.price = price]]
  PROVE  AccInv'
<1>1. /\ AccountsOK(market) /\ AccountsOK(txn.m) /\ OrderAccounts
      /\ txn.p \in Packet
  BY Zenon, OrderAccountsFacts
<1>2. txn \in OrderTxn
  BY Zenon, OrderFacts
<1> DEFINE p == [txn.p EXCEPT !.price = price]
<1>3. /\ p \in Packet /\ p.side = txn.p.side /\ p.type = txn.p.type
      /\ p.base = txn.p.base /\ p.quote = txn.p.quote
  BY Zenon, <1>1 DEF Packet
<1> HIDE DEF p
<1>5. txn' \in OrderTxn
  BY Zenon, <1>2, <1>3 DEF OrderTxn, p
<1>6. /\ txn'.m = txn.m /\ txn'.phase = "place" /\ txn'.p = p
      /\ txn'.who = txn.who /\ txn'.base = txn.base /\ txn'.adj = txn.adj
      /\ txn'.limit = txn.limit
      /\ txn'.matchedBase = txn.matchedBase /\ txn'.matchedAdj = txn.matchedAdj
  BY Zenon, <1>2 DEF OrderTxn, p
<1>7. MatchedQuote' = MatchedQuote /\ FeeDue' = 0 /\ FeeDue = 0
  BY <1>3, <1>6 DEF MatchedQuote, FeeDue
<1>8. LotsIn' = LotsIn /\ LotsOut' = LotsOut
  BY Zenon, <1>3, <1>6, <1>7 DEF LotsIn, LotsOut
<1>9. \A a \in Asset : Owed(txn'.m, a) + (IF a = "quote" THEN FeeDue' ELSE 0)
        = Owed(market', a) + (IF a = Pays(txn'.p.side) THEN LotsIn' ELSE - LotsOut')
  BY Zenon, <1>1, <1>3, <1>6, <1>7, <1>8 DEF OrderAccounts
<1>10. /\ base_lot_budget(p) = base_lot_budget(txn.p)
       /\ adjusted_quote_lot_budget(p) = adjusted_quote_lot_budget(txn.p)
       /\ DividesByZero(p) = DividesByZero(txn.p)
  BY Zenon, <1>3 DEF base_lot_budget, adjusted_quote_lot_budget, DividesByZero
<1>11. OrderAccounts'
  BY Zenon, <1>1, <1>3, <1>6, <1>9, <1>10 DEF OrderAccounts
<1>12. QED
  BY Zenon, <1>1, <1>5, <1>6, <1>11, OrderGoesOn

\* check_for_cross trades nothing.
LEMMA CrossAccounts ==
  ASSUME IndInv, AccInv, CrossExpiredOrder \/ CrossLiveOrder \/ CrossNothing
  PROVE  AccInv'
<1>0. txn.phase = "cross" /\ market' = market
  BY Zenon DEF CrossExpiredOrder, CrossLiveOrder, CrossNothing, Working
<1>1. /\ txn \in OrderTxn /\ Maker \in Side /\ Resting \subseteq Order
      /\ txn.p \in Packet /\ txn.p.price \in Nat
  <2>1. txn \in OrderTxn /\ Maker \in Side /\ Resting \subseteq Order
    BY Zenon, <1>0, OrderFacts
  <2>2. QED
    BY Zenon, <2>1 DEF OrderTxn, Packet
<1>2. /\ txn.base \in Nat /\ txn.adj \in Nat /\ txn.limit \in Nat
      /\ txn.terminate \in BOOLEAN /\ AccountsOK(market)
  BY Zenon, <1>0, OrderAccountsFacts
<1>3. CASE CrossExpiredOrder
  <2>1. PICK o \in Resting :
          txn' = [txn EXCEPT !.m = RemoveOrder(txn.m, Maker, o)]
    BY Zenon, <1>3 DEF CrossExpiredOrder
  <2>2. o.size \in Nat /\ o.size <= o.size
    BY <1>1 DEF Order
  <2>3. txn' = [txn EXCEPT !.m = ReduceBy(txn.m, Maker, o, o.size),
                           !.base = txn.base, !.adj = txn.adj,
                           !.limit = txn.limit, !.terminate = txn.terminate]
    BY Zenon, <1>1, <2>1 DEF RemoveOrder, OrderTxn
  <2>4. txn.base <= txn.base /\ txn.adj <= txn.adj
    BY <1>2
  <2>5. QED
    BY Zenon, <1>0, <1>2, <2>2, <2>3, <2>4, OrderRemovesAccounts
<1>4. CASE CrossLiveOrder
  <2>1. PICK o \in Resting :
          txn' = IF txn.p.reject \/ (txn.p.side = "Bid" /\ o.price <= 1)
                 THEN NoTxn
                 ELSE [txn EXCEPT !.phase = "place",
                        !.p = [txn.p EXCEPT !.price = IF txn.p.side = "Bid"
                                                      THEN o.price - 1
                                                      ELSE o.price + 1]]
    BY Zenon, <1>4 DEF CrossLiveOrder
  <2>2. CASE txn' = NoTxn
    BY Zenon, <1>0, <1>2, <2>2, TxnEnds
  <2>3. CASE txn' # NoTxn
    <3> DEFINE price == IF txn.p.side = "Bid" THEN o.price - 1 ELSE o.price + 1
    <3>1. price \in Nat
      BY <1>1, <2>1, <2>3 DEF Order, Side
    <3>2. txn' = [txn EXCEPT !.phase = "place",
                             !.p = [txn.p EXCEPT !.price = price]]
      BY Zenon, <2>1, <2>3
    <3> HIDE DEF price
    <3>3. QED
      BY Zenon, <1>0, <3>1, <3>2, OrderReady
  <2>4. QED
    BY Zenon, <2>2, <2>3
<1>5. CASE CrossNothing
  <2>1. txn' = [txn EXCEPT !.phase = "place"]
    BY Zenon, <1>5 DEF CrossNothing
  <2>2. [txn.p EXCEPT !.price = txn.p.price] = txn.p
    BY Zenon, <1>1 DEF Packet
  <2>3. txn' = [txn EXCEPT !.phase = "place",
                           !.p = [txn.p EXCEPT !.price = txn.p.price]]
    BY Zenon, <1>1, <2>1, <2>2 DEF OrderTxn
  <2>4. QED
    BY Zenon, <1>0, <1>1, <2>3, OrderReady
<1>6. QED
  BY Zenon, <1>3, <1>4, <1>5

\* The lots that the remaining budgets pay for are within both budgets.
LEMMA AffordableWithin ==
  ASSUME IndInv, AccInv, txn.phase = "match", NEW o \in Resting,
         NEW n \in Nat, n <= Affordable(o)
  PROVE  n <= txn.base /\ AdjustedQuote(o.price, n) <= txn.adj
<1>1. o \in Order /\ txn.base \in Nat /\ txn.adj \in Nat
  BY Zenon, OrderFacts, OrderAccountsFacts
<1> DEFINE d == o.price * TickSize
<1>2. d \in Nat \ {0} /\ n \in Int /\ o.price \in Nat /\ TickSize \in Nat
  BY <1>1, ConfigAssumption DEF Order
<1>3. AdjustedQuote(o.price, n) = d * n
  BY Zenon, <1>2 DEF AdjustedQuote
<1> HIDE DEF d
<1>4. Affordable(o) = Least(txn.base, txn.adj \div d)
  BY Zenon DEF Affordable, d
<1>5. /\ txn.adj \div d \in Int
      /\ n <= txn.adj \div d => d * n <= txn.adj
  BY <1>1, <1>2, DivBelow
<1>6. n <= txn.base /\ n <= txn.adj \div d
  BY <1>1, <1>4, <1>5 DEF Least
<1>7. QED
  BY Zenon, <1>3, <1>5, <1>6

\* There are no fractions of a lot to pay for.
LEMMA AffordableNat ==
  ASSUME IndInv, AccInv, txn.phase = "match", NEW o \in Resting
  PROVE  Affordable(o) \in Nat
<1>1. o \in Order /\ txn.base \in Nat /\ txn.adj \in Nat
  BY Zenon, OrderFacts, OrderAccountsFacts
<1> DEFINE d == o.price * TickSize
<1>2. d \in Nat \ {0}
  BY <1>1, ConfigAssumption DEF Order
<1>3. Affordable(o) = Least(txn.base, txn.adj \div d)
  BY Zenon DEF Affordable
<1> HIDE DEF d
<1>4. txn.adj \div d \in Nat
  BY <1>1, <1>2, DivBelow
<1>5. QED
  BY Zenon, <1>1, <1>3, <1>4 DEF Least

\* match_order: the iterations that trade nothing.
LEMMA MatchRemovesAccounts ==
  ASSUME IndInv, AccInv,
         \/ MatchExpiredOrder \/ SelfTradeAbort \/ SelfTradeCancelProvide
         \/ SelfTradeDecrementTake
  PROVE  AccInv'
<1>0. /\ txn.phase = "match" /\ market' = market /\ txn.limit > 0
  BY Zenon DEF MatchExpiredOrder, SelfTradeAbort, SelfTradeCancelProvide,
         SelfTradeDecrementTake, Working, in_progress
<1>1. txn \in OrderTxn /\ Maker \in Side /\ Resting \subseteq Order
  BY Zenon, <1>0, OrderFacts
<1>2. /\ txn.base \in Nat /\ txn.adj \in Nat /\ txn.limit \in Nat
      /\ txn.terminate \in BOOLEAN /\ AccountsOK(market)
  BY Zenon, <1>0, OrderAccountsFacts
<1>3. txn.limit - 1 \in Nat /\ txn.base <= txn.base /\ txn.adj <= txn.adj
  BY <1>0, <1>2
<1>4. CASE MatchExpiredOrder \/ SelfTradeCancelProvide
  <2>1. PICK o \in Resting :
          txn' = [txn EXCEPT !.m = RemoveOrder(txn.m, Maker, o), !.limit = @ - 1]
    BY Zenon, <1>4 DEF MatchExpiredOrder, SelfTradeCancelProvide
  <2>2. o.size \in Nat /\ o.size <= o.size
    BY <1>1 DEF Order
  <2>3. txn' = [txn EXCEPT !.m = ReduceBy(txn.m, Maker, o, o.size),
                           !.base = txn.base, !.adj = txn.adj,
                           !.limit = txn.limit - 1, !.terminate = txn.terminate]
    BY Zenon, <1>1, <2>1 DEF RemoveOrder, OrderTxn
  <2>4. QED
    BY Zenon, <1>0, <1>2, <1>3, <2>2, <2>3, OrderRemovesAccounts
<1>5. CASE SelfTradeAbort
  <2>1. txn' = NoTxn
    BY Zenon, <1>5 DEF SelfTradeAbort
  <2>2. QED
    BY Zenon, <1>0, <1>2, <2>1, TxnEnds
<1>6. CASE SelfTradeDecrementTake
  <2> DEFINE removed(o) == Least(Affordable(o), o.size)
  <2>1. PICK o \in Resting :
          txn' = [txn EXCEPT
                    !.m = ReduceBy(txn.m, Maker, o, removed(o)),
                    !.base = Largest(@ - removed(o), 0),
                    !.adj = Largest(@ - AdjustedQuote(o.price, removed(o)), 0),
                    !.limit = @ - 1,
                    !.terminate = removed(o) < o.size]
    BY Zenon, <1>6 DEF SelfTradeDecrementTake
  <2> DEFINE n == removed(o)
             base == Largest(txn.base - n, 0)
             adj == Largest(txn.adj - AdjustedQuote(o.price, n), 0)
  <2>2. o.size \in Nat /\ o.price \in Nat
    BY Zenon, <1>1 DEF Order
  <2>3. n \in Nat /\ n <= o.size
    BY <1>0, <2>2, AffordableNat DEF Least
  <2>4. txn' = [txn EXCEPT !.m = ReduceBy(txn.m, Maker, o, n), !.base = base,
                           !.adj = adj, !.limit = txn.limit - 1,
                           !.terminate = n < o.size]
    BY Zenon, <1>1, <2>1 DEF OrderTxn
  <2> HIDE DEF removed, n
  <2>5. AdjustedQuote(o.price, n) \in Nat
    <3>1. n \in Int /\ n >= 0
      BY <2>3
    <3>2. AdjustedQuote(o.price, n) \in Int
          /\ (n >= 0 => AdjustedQuote(o.price, n) >= 0)
      BY Zenon, <2>2, <3>1, AdjustedLots
    <3>3. QED
      BY <3>1, <3>2
  <2>6. /\ base \in Nat /\ base <= txn.base /\ adj \in Nat /\ adj <= txn.adj
        /\ (n < o.size) \in BOOLEAN
    BY <1>2, <2>3, <2>5 DEF Largest
  <2> HIDE DEF base, adj
  <2>7. QED
    BY Zenon, <1>0, <1>3, <2>3, <2>4, <2>6, OrderRemovesAccounts
<1>7. QED
  BY Zenon, <1>4, <1>5, <1>6

\* The quote lots of everything an order matched, before and after the fee.
LEMMA MatchedQuoteIs ==
  ASSUME NEW a \in Nat, (a % BaseLotsPerBaseUnit) = 0
  PROVE  \E k \in Nat :
           /\ a = BaseLotsPerBaseUnit * k
           /\ RoundUp(a) \div BaseLotsPerBaseUnit = k
           /\ RoundDown(a) \div BaseLotsPerBaseUnit = k
           /\ FeeOn(a) \in Nat /\ FeeOn(a) <= k
<1> DEFINE d == BaseLotsPerBaseUnit
           k == a \div d
<1>1. d \in Nat \ {0}
  BY ConfigAssumption
<1>2. a = d * k + (a % d) /\ k \in Nat
  BY <1>1, DivBelow
<1>3. a = d * k
  BY <1>1, <1>2
<1> HIDE DEF k
<1>4. /\ RoundUp(d * k) \div d = k /\ RoundDown(d * k) \div d = k
      /\ FeeOn(d * k) \in Nat /\ FeeOn(d * k) <= k
  BY Zenon, <1>2, RoundExact
<1>5. QED
  BY Zenon, <1>2, <1>3, <1>4

\* A multiple of a positive number is zero only when the factor is.
LEMMA TimesZero ==
  ASSUME NEW d \in Nat \ {0}, NEW n \in Nat
  PROVE  (n = 0) <=> (d * n = 0)
  OBVIOUS

\* The debts of a market after a fill: the taker's side of the trade.
LEMMA FillOwed ==
  ASSUME NEW m \in Market, AccountsOK(m), NEW side \in Side,
         NEW o \in m.book[Opposite(side)], NEW n \in Nat, n <= o.size,
         \A x \in m.book[Opposite(side)] : x.seq = o.seq => x = o
  PROVE  LET r == Fill(m, side, o, n)
             q == Lots("Bid", o.price, n)
         IN /\ q \in Nat /\ Owed(m, "quote") \in Int /\ Owed(m, "base") \in Int
            /\ Owed(r, "quote") = Owed(m, "quote") + (IF side = "Bid" THEN q ELSE - q)
            /\ Owed(r, "base") = Owed(m, "base") + (IF side = "Bid" THEN - n ELSE n)
<1> DEFINE r == Fill(m, side, o, n)
           maker == Opposite(side)
           q == Lots("Bid", o.price, n)
           R == Lots(side, o.price, n)
           G == Lots(maker, o.price, n)
<1>1. /\ r \in Market /\ r.unclaimed = m.unclaimed
      /\ \A t \in Trader \ {o.trader}, a \in Asset : Holding(r, t, a) = Holding(m, t, a)
      /\ Holding(r, o.trader, Gets(side)) = Holding(m, o.trader, Gets(side)) - G
      /\ Holding(r, o.trader, Pays(side)) = Holding(m, o.trader, Pays(side)) + R
  BY FillAccounts
<1>2. /\ o.trader \in Trader /\ o.price \in Nat
      /\ maker \in Side /\ "Bid" \in Side /\ "quote" \in Asset /\ "base" \in Asset
  BY SideFacts DEF Market, Book, Order, Side, Asset
<1>3. q \in Nat
  BY Zenon, <1>2, LotsNat
<1>4. /\ Pays(side) = IF side = "Bid" THEN "quote" ELSE "base"
      /\ Gets(side) = IF side = "Bid" THEN "base" ELSE "quote"
      /\ R = IF side = "Bid" THEN q ELSE n
      /\ G = IF side = "Bid" THEN n ELSE q
  BY Zenon DEF Pays, Gets, Lots, Opposite, Side
<1> HIDE DEF r, q, R, G
<1>5. \A a \in Asset : Holding(m, o.trader, a) \in Int /\ 0 \in Int
        /\ r.unclaimed = m.unclaimed + 0
  BY <1>1, <1>2, HoldingType
<1> DEFINE dq == IF side = "Bid" THEN q ELSE - q
           db == IF side = "Bid" THEN - n ELSE n
<1>6. dq \in Int /\ db \in Int
  BY <1>3
<1>7. /\ Holding(r, o.trader, "quote") = Holding(m, o.trader, "quote") + dq
      /\ Holding(r, o.trader, "base") = Holding(m, o.trader, "base") + db
  BY Zenon, <1>1, <1>2, <1>3, <1>4, <1>5
<1> HIDE DEF dq, db
<1>8. /\ Owed(m, "quote") \in Int
      /\ Owed(r, "quote") = Owed(m, "quote") + dq + (IF "quote" = "quote" THEN 0 ELSE 0)
  BY <1>1, <1>2, <1>5, <1>6, <1>7, OwedShift
<1>9. /\ Owed(m, "base") \in Int
      /\ Owed(r, "base") = Owed(m, "base") + db + (IF "base" = "quote" THEN 0 ELSE 0)
  BY <1>1, <1>2, <1>5, <1>6, <1>7, OwedShift
<1>10. Owed(r, "quote") = Owed(m, "quote") + dq /\ Owed(r, "base") = Owed(m, "base") + db
  BY <1>6, <1>8, <1>9
<1>11. QED
  BY Zenon, <1>3, <1>8, <1>9, <1>10 DEF r, q, dq, db
\* match_order: a fill moves the debts of the market by exactly what the
\* taker owes and is owed more, and stays within the budgets.
LEMMA MatchOrderAccounts ==
  ASSUME IndInv, AccInv, MatchOrder
  PROVE  AccInv'
<1>0. txn.phase = "match" /\ market' = market /\ txn.limit > 0
  BY Zenon DEF MatchOrder, Working, in_progress
<1>1. txn \in OrderTxn /\ Maker \in Side /\ Resting \subseteq Order
  BY Zenon, <1>0, OrderFacts
<1>2. /\ AccountsOK(market) /\ AccountsOK(txn.m) /\ OrderAccounts
      /\ market \in Market /\ txn.m \in Market /\ txn.p \in Packet
      /\ txn.p.side \in Side
      /\ txn.base \in Nat /\ txn.adj \in Nat /\ txn.limit \in Nat
      /\ txn.matchedBase \in Nat /\ txn.matchedAdj \in Nat
      /\ \A s \in Side : \A x, y \in txn.m.book[s] : x.seq = y.seq => x = y
  BY Zenon, <1>0, OrderAccountsFacts
<1> DEFINE whole(o) == /\ o.size <= txn.base
                       /\ AdjustedQuote(o.price, o.size) <= txn.adj
           taken(o) == IF whole(o) THEN o.size ELSE Affordable(o)
<1>3. PICK o \in Resting :
        txn' = [txn EXCEPT
                  !.m = Fill(txn.m, txn.p.side, o, taken(o)),
                  !.base = @ - taken(o),
                  !.adj = @ - AdjustedQuote(o.price, taken(o)),
                  !.limit = @ - 1,
                  !.matchedBase = @ + taken(o),
                  !.matchedAdj = @ + AdjustedQuote(o.price, taken(o)),
                  !.terminate = ~ whole(o)]
  BY Zenon DEF MatchOrder
<1> DEFINE side == txn.p.side
           d == BaseLotsPerBaseUnit
           n == taken(o)
           q == Lots("Bid", o.price, n)
           adj == AdjustedQuote(o.price, n)
           m == Fill(txn.m, side, o, n)
<1>4. o.size \in Nat /\ o.price \in Nat /\ d \in Nat \ {0}
  BY <1>1, ConfigAssumption DEF Order
<1>5. n \in Nat /\ n <= o.size /\ n <= txn.base /\ adj <= txn.adj
  <2>1. CASE whole(o)
    BY <1>4, <2>1
  <2>2. CASE ~ whole(o)
    <3>1. n = Affordable(o)
      BY Zenon, <2>2
    <3>2. Affordable(o) \in Nat
      BY Zenon, <1>0, AffordableNat
    <3>3. Affordable(o) < o.size
      BY <1>0, <1>2, <1>4, <2>2, AffordableType
    <3>4. Affordable(o) <= Affordable(o)
      BY <3>2
    <3>5. Affordable(o) <= txn.base /\ AdjustedQuote(o.price, Affordable(o)) <= txn.adj
      BY Zenon, <1>0, <3>2, <3>4, AffordableWithin
    <3>6. QED
      BY <1>4, <3>1, <3>2, <3>3, <3>5
  <2>3. QED
    BY Zenon, <2>1, <2>2
<1>6. txn' = [txn EXCEPT !.m = m, !.base = @ - n, !.adj = @ - adj,
                         !.limit = @ - 1, !.matchedBase = @ + n,
                         !.matchedAdj = @ + adj, !.terminate = ~ whole(o)]
  BY Zenon, <1>3
<1> HIDE DEF n, whole, taken
<1>7. adj = d * q /\ q \in Nat /\ adj \in Nat
  <2>1. n \in Int /\ n >= 0 /\ "Bid" \in Side
    BY <1>5 DEF Side
  <2>2. q \in Nat
    BY Zenon, <1>4, <1>5, <2>1, LotsNat
  <2>3. adj = d * q /\ adj \in Int /\ adj >= 0
    BY Zenon, <1>4, <2>1, AdjustedLots
  <2> HIDE DEF adj, q
  <2>4. QED
    BY <2>2, <2>3
<1>8. /\ m \in Market /\ AccountsOK(m) /\ m.registered = txn.m.registered
      /\ Owed(txn.m, "quote") \in Int /\ Owed(txn.m, "base") \in Int
      /\ Owed(m, "quote") = Owed(txn.m, "quote") + (IF side = "Bid" THEN q ELSE - q)
      /\ Owed(m, "base") = Owed(txn.m, "base") + (IF side = "Bid" THEN - n ELSE n)
  <2>1. o \in txn.m.book[Opposite(side)] /\ Opposite(side) \in Side
    BY Zenon, <1>1 DEF Resting, Maker
  <2>2. \A x \in txn.m.book[Opposite(side)] : x.seq = o.seq => x = o
    BY Zenon, <1>2, <2>1
  <2> HIDE DEF side
  <2>3. side \in Side
    BY Zenon, <1>2 DEF side
  <2>4. m \in Market /\ AccountsOK(m) /\ m.registered = txn.m.registered
    BY <1>2, <1>5, <2>1, <2>2, <2>3, FillAccounts
  <2>5. /\ Owed(txn.m, "quote") \in Int /\ Owed(txn.m, "base") \in Int
        /\ Owed(m, "quote") = Owed(txn.m, "quote") + (IF side = "Bid" THEN q ELSE - q)
        /\ Owed(m, "base") = Owed(txn.m, "base") + (IF side = "Bid" THEN - n ELSE n)
    BY <1>2, <1>5, <2>1, <2>2, <2>3, FillOwed
  <2>6. QED
    BY Zenon, <2>4, <2>5
<1> HIDE DEF m, adj, q, d
<1> DEFINE base == txn.base - n
           budget == txn.adj - adj
           limit == txn.limit - 1
           matched == txn.matchedBase + n
           quote == txn.matchedAdj + adj
           stop == ~ whole(o)
<1>9. /\ base \in Nat /\ budget \in Nat /\ limit \in Nat
      /\ matched \in Nat /\ quote \in Nat
      /\ matched + base = txn.matchedBase + txn.base
      /\ quote + budget = txn.matchedAdj + txn.adj
  BY <1>0, <1>2, <1>5, <1>7
<1>10. stop \in BOOLEAN
  BY Zenon DEF whole
<1>11. txn' = [txn EXCEPT !.m = m, !.base = base, !.adj = budget, !.limit = limit,
                          !.matchedBase = matched, !.matchedAdj = quote,
                          !.terminate = stop]
  BY Zenon, <1>6
<1> HIDE DEF base, budget, limit, matched, quote, stop
<1>12. /\ txn'.m = m /\ txn'.phase = txn.phase /\ txn'.p = txn.p
       /\ txn'.who = txn.who /\ txn'.base = base /\ txn'.adj = budget
       /\ txn'.limit = limit /\ txn'.matchedBase = matched /\ txn'.matchedAdj = quote
  BY Zenon, <1>1, <1>11 DEF OrderTxn
<1>13. txn' \in OrderTxn
  <2>1. base \in Int /\ budget \in Int /\ limit \in Int /\ matched \in Int /\ quote \in Int
    BY <1>9
  <2>2. QED
    BY Zenon, <1>1, <1>8, <1>10, <1>11, <2>1 DEF OrderTxn
<1>14. (txn.matchedAdj % d) = 0
  BY Zenon, <1>2 DEF OrderAccounts, d
<1>15. PICK k \in Nat :
         /\ txn.matchedAdj = d * k
         /\ RoundUp(txn.matchedAdj) \div d = k /\ RoundDown(txn.matchedAdj) \div d = k
         /\ FeeOn(txn.matchedAdj) \in Nat
  BY Zenon, <1>2, <1>14, MatchedQuoteIs DEF d
<1>16. quote = d * (k + q) /\ k + q \in Nat
  BY <1>4, <1>7, <1>15 DEF quote
<1>17. /\ RoundUp(quote) \div d = k + q /\ RoundDown(quote) \div d = k + q
       /\ FeeOn(quote) \in Nat /\ (quote % d) = 0
  <2> DEFINE kq == k + q
  <2>1. kq \in Nat /\ quote = d * kq
    BY Zenon, <1>16
  <2> HIDE DEF kq
  <2>2. /\ RoundUp(quote) \div d = kq /\ RoundDown(quote) \div d = kq
        /\ FeeOn(quote) \in Nat
    BY Zenon, <2>1, RoundExact DEF d
  <2>3. (quote % d) = 0
    BY Zenon, <1>4, <2>1, MultipleSum
  <2>4. QED
    BY Zenon, <2>2, <2>3 DEF kq
<1>18. /\ MatchedQuote = IF side = "Bid" THEN k + FeeOn(txn.matchedAdj)
                                         ELSE k - FeeOn(txn.matchedAdj)
       /\ MatchedQuote' = IF side = "Bid" THEN k + q + FeeOn(quote)
                                          ELSE k + q - FeeOn(quote)
       /\ FeeDue = FeeOn(txn.matchedAdj) /\ FeeDue' = FeeOn(quote)
  <2>1. FeeDue = FeeOn(txn.matchedAdj) /\ FeeDue' = FeeOn(quote)
    BY Zenon, <1>0, <1>12 DEF FeeDue
  <2>2. MatchedQuote = IF side = "Bid" THEN k + FeeOn(txn.matchedAdj)
                                       ELSE k - FeeOn(txn.matchedAdj)
    BY Zenon, <1>15 DEF MatchedQuote, d
  <2>3. MatchedQuote' = IF side = "Bid" THEN k + q + FeeOn(quote)
                                        ELSE k + q - FeeOn(quote)
    <3>1. MatchedQuote' = IF txn'.p.side = "Bid"
                          THEN RoundUp(txn'.matchedAdj) \div d + FeeOn(txn'.matchedAdj)
                          ELSE RoundDown(txn'.matchedAdj) \div d - FeeOn(txn'.matchedAdj)
      BY Zenon DEF MatchedQuote, d
    <3>2. txn'.p.side = side /\ txn'.matchedAdj = quote
      BY Zenon, <1>12
    <3>3. /\ RoundUp(txn'.matchedAdj) \div d = k + q
          /\ RoundDown(txn'.matchedAdj) \div d = k + q
      BY Zenon, <1>17, <3>2
    <3>4. FeeOn(txn'.matchedAdj) = FeeOn(quote) /\ FeeOn(quote) \in Int /\ q \in Int
      BY <1>7, <1>17, <3>2
    <3> HIDE DEF side
    <3>5. CASE side = "Bid"
      BY Zenon, <3>1, <3>2, <3>3, <3>4, <3>5
    <3>6. CASE side # "Bid"
      BY <3>1, <3>2, <3>3, <3>4, <3>6
    <3>7. QED
      BY Zenon, <3>5, <3>6
  <2>4. QED
    BY Zenon, <2>1, <2>2, <2>3
<1>19. \A a \in Asset : Owed(txn'.m, a) + (IF a = "quote" THEN FeeDue' ELSE 0)
         = Owed(market', a) + (IF a = Pays(txn'.p.side) THEN LotsIn' ELSE - LotsOut')
  <2>1. Owed(market, "quote") \in Nat /\ Owed(market, "base") \in Nat
    BY Zenon, <1>2, AccountsNat DEF Asset
  <2>2. /\ Owed(txn.m, "quote") + FeeDue = Owed(market, "quote")
             + (IF "quote" = Pays(side) THEN LotsIn ELSE - LotsOut)
        /\ Owed(txn.m, "base") + 0 = Owed(market, "base")
             + (IF "base" = Pays(side) THEN LotsIn ELSE - LotsOut)
    BY Zenon, <1>2 DEF OrderAccounts, Asset
  <2>3. CASE side = "Bid"
    <3>1. /\ Pays(side) = "quote" /\ LotsIn = MatchedQuote /\ LotsOut = txn.matchedBase
          /\ LotsIn' = MatchedQuote' /\ LotsOut' = matched
      BY Zenon, <1>12, <2>3 DEF Pays, LotsIn, LotsOut
    <3>2. /\ Owed(m, "quote") + FeeDue' = Owed(market, "quote") + MatchedQuote'
          /\ Owed(m, "base") + 0 = Owed(market, "base") - matched
      <4>1. FeeOn(txn.matchedAdj) \in Int /\ FeeOn(quote) \in Int /\ k \in Int /\ q \in Int
        BY <1>7, <1>15, <1>17
      <4>2. n \in Int /\ txn.matchedBase \in Int
        BY <1>2, <1>5
      <4>3. Owed(m, "quote") + FeeDue' = Owed(market, "quote") + MatchedQuote'
        BY <1>8, <1>18, <2>1, <2>2, <2>3, <3>1, <4>1
      <4>4. Owed(m, "base") + 0 = Owed(market, "base") - matched
        BY <1>8, <2>1, <2>2, <2>3, <3>1, <4>2 DEF matched
      <4>5. QED
        BY Zenon, <4>3, <4>4
    <3>3. matched \in Int
      BY <1>9
    <3>4. QED
      BY Zenon, <1>0, <1>12, <2>1, <3>1, <3>2, <3>3 DEF Asset
  <2>4. CASE side = "Ask"
    <3>1. /\ Pays(side) = "base" /\ LotsIn = txn.matchedBase /\ LotsOut = MatchedQuote
          /\ LotsIn' = matched /\ LotsOut' = MatchedQuote'
      BY Zenon, <1>12, <2>4 DEF Pays, LotsIn, LotsOut
    <3>2. /\ Owed(m, "quote") + FeeDue' = Owed(market, "quote") - MatchedQuote'
          /\ Owed(m, "base") + 0 = Owed(market, "base") + matched
      <4>1. FeeOn(txn.matchedAdj) \in Int /\ FeeOn(quote) \in Int /\ k \in Int /\ q \in Int
        BY <1>7, <1>15, <1>17
      <4>2. n \in Int /\ txn.matchedBase \in Int
        BY <1>2, <1>5
      <4>3. Owed(m, "quote") + FeeDue' = Owed(market, "quote") - MatchedQuote'
        <5>1. Owed(txn.m, "quote") + FeeOn(txn.matchedAdj)
                = Owed(market, "quote") - (k - FeeOn(txn.matchedAdj))
          BY Zenon, <1>18, <2>1, <2>2, <2>4, <3>1, <4>1
        <5>2. Owed(m, "quote") = Owed(txn.m, "quote") - q
          BY Zenon, <1>8, <2>4, <4>1
        <5>3. MatchedQuote' = k + q - FeeOn(quote) /\ FeeDue' = FeeOn(quote)
          BY Zenon, <1>18, <2>4
        <5>4. QED
          BY <1>8, <2>1, <4>1, <5>1, <5>2, <5>3
      <4>4. Owed(m, "base") + 0 = Owed(market, "base") + matched
        BY <1>8, <2>1, <2>2, <2>4, <3>1, <4>2 DEF matched
      <4>5. QED
        BY Zenon, <4>3, <4>4
    <3>3. MatchedQuote' \in Int
      BY <1>7, <1>17, <1>18
    <3>4. QED
      BY Zenon, <1>0, <1>12, <2>1, <3>1, <3>2, <3>3 DEF Asset
  <2>5. QED
    BY Zenon, <1>2, <2>3, <2>4 DEF Side
<1>20. OrderAccounts'
  <2>1. /\ txn'.base >= 0 /\ txn'.adj >= 0 /\ txn'.limit >= 0
        /\ txn'.matchedBase >= 0 /\ txn'.matchedAdj >= 0
        /\ (txn'.matchedAdj % BaseLotsPerBaseUnit) = 0
    BY <1>9, <1>12, <1>17 DEF d
  <2>2. /\ txn'.matchedBase + txn'.base <= base_lot_budget(txn'.p)
        /\ txn'.matchedAdj + txn'.adj <= adjusted_quote_lot_budget(txn'.p)
        /\ ~ DividesByZero(txn'.p)
        /\ txn'.p.type # "IOC" => txn'.who \in txn'.m.registered
    BY Zenon, <1>2, <1>8, <1>9, <1>12 DEF OrderAccounts
  <2>3. (matched = 0) <=> (quote = 0)
    <3>1. (txn.matchedBase = 0) <=> (txn.matchedAdj = 0)
      BY Zenon, <1>2 DEF OrderAccounts
    <3>2. (n = 0) <=> (adj = 0)
      <4>1. o.price * TickSize \in Nat \ {0} /\ n \in Nat
        BY <1>1, <1>5, ConfigAssumption DEF Order
      <4>2. adj = (o.price * TickSize) * n
        BY Zenon DEF adj, AdjustedQuote
      <4>3. QED
        BY <4>1, <4>2, TimesZero
    <3>3. QED
      BY <1>2, <1>5, <1>7, <3>1, <3>2 DEF matched, quote
  <2>4. (txn'.matchedBase = 0) <=> (txn'.matchedAdj = 0)
    BY Zenon, <1>12, <2>3
  <2>5. QED
    BY Zenon, <1>19, <2>1, <2>2, <2>4 DEF OrderAccounts
<1>21. QED
  BY Zenon, <1>0, <1>8, <1>12, <1>13, <1>20, OrderGoesOn

\* The end of match_order records the fee on everything matched.
LEMMA MatchDoneAccounts ==
  ASSUME IndInv, AccInv, MatchDone
  PROVE  AccInv'
<1>0. txn.phase = "match" /\ market' = market
  BY Zenon DEF MatchDone, Working
<1>1. txn \in OrderTxn
  BY Zenon, <1>0, OrderFacts
<1>2. /\ AccountsOK(market) /\ AccountsOK(txn.m) /\ OrderAccounts
      /\ txn.m \in Market /\ txn.matchedAdj \in Nat
  BY Zenon, <1>0, OrderAccountsFacts
<1> DEFINE e == FeeOn(txn.matchedAdj)
           m == [txn.m EXCEPT !.unclaimed = @ + e]
<1>3. txn' = [txn EXCEPT !.phase = "place", !.m = m]
  BY Zenon DEF MatchDone
<1>4. e \in Nat /\ e \in Int
  BY <1>2, FeeLots
<1>5. txn.m.unclaimed \in Int /\ txn.m.unclaimed >= 0
  BY Zenon, <1>2 DEF Market, AccountsOK
<1> HIDE DEF e
<1>6. /\ m \in Market /\ m.book = txn.m.book /\ m.registered = txn.m.registered
      /\ m.free = txn.m.free /\ m.locked = txn.m.locked
      /\ m.unclaimed = txn.m.unclaimed + e /\ m.unclaimed >= 0
  BY <1>2, <1>4, <1>5 DEF Market
<1> HIDE DEF m
<1>7. /\ AccountsOK(m)
      /\ \A a \in Asset : /\ Owed(txn.m, a) \in Int
                          /\ Owed(m, a) = Owed(txn.m, a) + (IF a = "quote" THEN e ELSE 0)
  BY <1>2, <1>4, <1>6, FeeAccounts
<1>8. /\ txn'.m = m /\ txn'.phase = "place" /\ txn'.p = txn.p
      /\ txn'.who = txn.who /\ txn'.base = txn.base /\ txn'.adj = txn.adj
      /\ txn'.limit = txn.limit
      /\ txn'.matchedBase = txn.matchedBase /\ txn'.matchedAdj = txn.matchedAdj
  BY Zenon, <1>1, <1>3 DEF OrderTxn
<1>9. txn' \in OrderTxn
  BY Zenon, <1>1, <1>3, <1>6 DEF OrderTxn
<1>10. MatchedQuote' = MatchedQuote /\ FeeDue' = 0 /\ FeeDue = e
  BY Zenon, <1>0, <1>8 DEF MatchedQuote, FeeDue, e
<1>11. LotsIn' = LotsIn /\ LotsOut' = LotsOut
  BY Zenon, <1>8, <1>10 DEF LotsIn, LotsOut
<1>12. \A a \in Asset : Owed(txn'.m, a) + (IF a = "quote" THEN FeeDue' ELSE 0)
         = Owed(market', a) + (IF a = Pays(txn'.p.side) THEN LotsIn' ELSE - LotsOut')
  <2>1. TAKE a \in Asset
  <2>2. Owed(txn.m, a) + (IF a = "quote" THEN e ELSE 0)
          = Owed(market, a) + (IF a = Pays(txn.p.side) THEN LotsIn ELSE - LotsOut)
    BY Zenon, <1>2, <1>10 DEF OrderAccounts
  <2>3. Owed(m, a) + (IF a = "quote" THEN 0 ELSE 0)
          = Owed(txn.m, a) + (IF a = "quote" THEN e ELSE 0)
    BY <1>4, <1>7
  <2>4. QED
    BY Zenon, <1>0, <1>8, <1>10, <1>11, <2>2, <2>3
<1>13. OrderAccounts'
  BY Zenon, <1>2, <1>6, <1>8, <1>12 DEF OrderAccounts
<1>14. QED
  BY Zenon, <1>0, <1>7, <1>8, <1>9, <1>13, OrderGoesOn

\* The quote budget of an order is not negative.
LEMMA BudgetNat ==
  ASSUME NEW p \in Packet, ~ DividesByZero(p)
  PROVE  adjusted_quote_lot_budget(p) \in Nat /\ base_lot_budget(p) \in Nat
<1>1. /\ MaxU64 \in Nat \ {0} /\ BaseLotsPerBaseUnit \in Nat
      /\ p.quote \in Nat /\ p.side \in Side /\ p.base \in Nat
  BY ConfigAssumption DEF Packet
<1>2. compute_fee(MaxU64) \in Nat /\ compute_fee(MaxU64) <= MaxU64
  BY Zenon, <1>1, FeeBound
<1> DEFINE q == p.quote * BaseLotsPerBaseUnit * MaxU64
           up == compute_fee(MaxU64) + MaxU64
           down == MaxU64 - compute_fee(MaxU64)
<1>3. q \in Nat /\ up \in Nat \ {0}
  BY <1>1, <1>2
<1>4. q \div up \in Nat
  <2> HIDE DEF q, up
  <2>1. QED
    BY <1>3, DivBelow
<1>5. CASE p.type # "IOC" \/ p.quote = 0
  BY Zenon, <1>1, <1>5 DEF adjusted_quote_lot_budget, base_lot_budget
<1>6. CASE ~ (p.type # "IOC" \/ p.quote = 0) /\ p.side = "Bid"
  BY Zenon, <1>1, <1>4, <1>6 DEF adjusted_quote_lot_budget, base_lot_budget, BudgetForBuys, Least
<1>7. CASE ~ (p.type # "IOC" \/ p.quote = 0) /\ p.side = "Ask"
  <2>1. down \in Nat \ {0}
    BY <1>1, <1>2, <1>7 DEF DividesByZero
  <2>2. q \div down \in Nat
    <3> HIDE DEF q, down
    <3>1. QED
      BY <1>3, <2>1, DivBelow
  <2>3. QED
    BY Zenon, <1>1, <1>7, <2>2 DEF adjusted_quote_lot_budget, base_lot_budget, BudgetForSells, Least
<1>8. QED
  BY Zenon, <1>1, <1>5, <1>6, <1>7 DEF Side

\* A new order starts on a market with the same debts.
LEMMA NewOrderAccounts ==
  ASSUME IndInv, AccInv, NEW t \in Trader, NEW p \in Packets, NewOrder(t, p)
  PROVE  AccInv' /\ VaultsFollow
<1> DEFINE m == IF p.type = "IOC" THEN market ELSE get_or_register_trader(market, t)
<1>1. /\ Idle /\ OrderAccepted(t, p) /\ ~ DividesByZero(p)
      /\ vault' = vault
      /\ \/ market' = m /\ UNCHANGED txn
         \/ StartOrder(t, p, m) /\ UNCHANGED market
  BY Zenon DEF NewOrder
<1>2. /\ market \in Market /\ MarketOK(market, slot)
      /\ txn = NoTxn /\ AccountsOK(market)
  BY Zenon, <1>1, IdleFacts DEF AccInv
<1>3. /\ m \in Market /\ AccountsOK(m) /\ \A a \in Asset : Owed(m, a) = Owed(market, a)
      /\ market.registered \subseteq m.registered
      /\ p.type # "IOC" => t \in m.registered
  BY Zenon, <1>2, RegisterAccounts
<1> HIDE DEF m
<1>5. CASE market' = m /\ UNCHANGED txn
  <2>1. AccInv'
    BY Zenon, <1>2, <1>3, <1>5, TxnEnds
  <2>2. VaultsFollow
    BY Zenon, <1>1, <1>3, <1>5 DEF VaultsFollow
  <2>3. QED
    BY Zenon, <2>1, <2>2
<1>6. CASE StartOrder(t, p, m) /\ UNCHANGED market
  <2>1. p \in Packet
    BY Zenon, InputAssumption
  <2> DEFINE q == [p EXCEPT !.price = Price(p)]
             base == base_lot_budget(p)
             adj == adjusted_quote_lot_budget(p)
             phase == IF p.type = "PostOnly" THEN "cross" ELSE "match"
  <2>2. Price(p) \in Nat
    BY Zenon, <2>1 DEF Price, Largest, Packet
  <2>3. /\ q \in Packet /\ q.type = p.type /\ q.side = p.side
        /\ q.base = p.base /\ q.quote = p.quote /\ p.limit \in Nat
    BY Zenon, <2>1, <2>2 DEF Packet
  <2>5. base \in Nat /\ adj \in Nat
    BY Zenon, <1>1, <2>1, BudgetNat
  <2>6. txn' = [phase |-> phase, who |-> t, p |-> q, m |-> m, base |-> base,
                adj |-> adj, limit |-> p.limit, terminate |-> FALSE,
                matchedBase |-> 0, matchedAdj |-> 0]
    BY Zenon, <1>6 DEF StartOrder
  <2>7. /\ base_lot_budget(q) = base /\ adjusted_quote_lot_budget(q) = adj
        /\ ~ DividesByZero(q)
    BY <1>1, <2>3 DEF base_lot_budget, adjusted_quote_lot_budget, DividesByZero
  <2>8. phase \in {"cross", "match", "place"}
    BY Zenon
  <2> HIDE DEF q, base, adj, phase
  <2>9. /\ txn'.m = m /\ txn'.p = q /\ txn'.who = t /\ txn'.phase = phase
        /\ txn'.base = base /\ txn'.adj = adj /\ txn'.limit = p.limit
        /\ txn'.matchedBase = 0 /\ txn'.matchedAdj = 0
    BY Zenon, <2>6
  <2>10. txn' \in OrderTxn
    <3>1. base \in Int /\ adj \in Int /\ p.limit \in Int /\ 0 \in Int
      BY <2>3, <2>5
    <3>2. QED
      BY Zenon, <1>3, <2>3, <2>6, <2>8, <3>1 DEF OrderTxn
  <2>11. /\ FeeOn(0) = 0 /\ RoundUp(0) \div BaseLotsPerBaseUnit = 0
         /\ RoundDown(0) \div BaseLotsPerBaseUnit = 0
         /\ (0 % BaseLotsPerBaseUnit) = 0
    <3> DEFINE d == BaseLotsPerBaseUnit
    <3>1. d \in Nat \ {0} /\ 0 \in Nat /\ d * 0 = 0
      BY ConfigAssumption
    <3>2. /\ RoundUp(d * 0) \div d = 0 /\ RoundDown(d * 0) \div d = 0
          /\ FeeOn(d * 0) \in Nat /\ FeeOn(d * 0) <= 0
      BY Zenon, <3>1, RoundExact
    <3>3. ((d * 0) % d) = 0
      BY Zenon, <3>1, MultipleSum
    <3>4. QED
      BY <3>1, <3>2, <3>3
  <2>12. MatchedQuote' = 0 /\ FeeDue' = 0
    <3>1. FeeDue' = 0
      BY Zenon, <2>9, <2>11 DEF FeeDue
    <3>2. MatchedQuote' = IF txn'.p.side = "Bid"
            THEN RoundUp(txn'.matchedAdj) \div BaseLotsPerBaseUnit + FeeOn(txn'.matchedAdj)
            ELSE RoundDown(txn'.matchedAdj) \div BaseLotsPerBaseUnit - FeeOn(txn'.matchedAdj)
      BY Zenon DEF MatchedQuote
    <3>3. MatchedQuote' = IF txn'.p.side = "Bid" THEN 0 + 0 ELSE 0 - 0
      BY Zenon, <2>9, <2>11, <3>2
    <3>4. QED
      BY <3>1, <3>3
  <2>13. LotsIn' = 0 /\ LotsOut' = 0
    BY Zenon, <2>9, <2>12 DEF LotsIn, LotsOut
  <2>14. \A a \in Asset : Owed(txn'.m, a) + (IF a = "quote" THEN FeeDue' ELSE 0)
           = Owed(market', a) + (IF a = Pays(txn'.p.side) THEN LotsIn' ELSE - LotsOut')
    <3>1. \A a \in Asset : Owed(market, a) \in Nat
      BY Zenon, <1>2, AccountsNat
    <3>2. QED
      BY <1>3, <1>6, <2>9, <2>12, <2>13, <3>1
  <2>15. OrderAccounts'
    <3>1. /\ txn'.base >= 0 /\ txn'.adj >= 0 /\ txn'.limit >= 0
          /\ txn'.matchedBase >= 0 /\ txn'.matchedAdj >= 0
          /\ (txn'.matchedAdj % BaseLotsPerBaseUnit) = 0
          /\ txn'.matchedBase + txn'.base <= base_lot_budget(txn'.p)
          /\ txn'.matchedAdj + txn'.adj <= adjusted_quote_lot_budget(txn'.p)
          /\ ~ DividesByZero(txn'.p)
      BY <2>3, <2>5, <2>7, <2>9, <2>11
    <3>2. /\ (txn'.matchedBase = 0) <=> (txn'.matchedAdj = 0)
          /\ txn'.p.type # "IOC" => txn'.who \in txn'.m.registered
      BY Zenon, <1>3, <2>3, <2>9
    <3>3. QED
      BY Zenon, <2>14, <3>1, <3>2 DEF OrderAccounts
  <2>16. AccInv'
    BY Zenon, <1>3, <1>6, <2>9, <2>10, <2>15, OrderGoesOn
  <2>17. QED
    BY Zenon, <1>1, <1>6, <2>16 DEF VaultsFollow
<1>7. QED
  BY Zenon, <1>1, <1>5, <1>6
\* The lots an order in progress owes and is owed are not negative.
LEMMA MatchedNat ==
  ASSUME IndInv, AccInv, txn.phase \in {"cross", "match", "place"}
  PROVE  MatchedQuote \in Nat /\ LotsIn \in Nat /\ LotsOut \in Nat
<1>1. txn.matchedBase \in Nat /\ txn.matchedAdj \in Nat
  BY Zenon, OrderAccountsFacts
<1>2. (txn.matchedAdj % BaseLotsPerBaseUnit) = 0
  BY Zenon, OrderAccountsFacts DEF OrderAccounts
<1>3. PICK k \in Nat :
        /\ RoundUp(txn.matchedAdj) \div BaseLotsPerBaseUnit = k
        /\ RoundDown(txn.matchedAdj) \div BaseLotsPerBaseUnit = k
        /\ FeeOn(txn.matchedAdj) \in Nat /\ FeeOn(txn.matchedAdj) <= k
  BY Zenon, <1>1, <1>2, MatchedQuoteIs
<1>4. MatchedQuote = IF txn.p.side = "Bid" THEN k + FeeOn(txn.matchedAdj)
                                           ELSE k - FeeOn(txn.matchedAdj)
  BY Zenon, <1>3 DEF MatchedQuote
<1>5. MatchedQuote \in Nat
  BY <1>3, <1>4
<1>6. QED
  BY Zenon, <1>1, <1>5 DEF LotsIn, LotsOut

\* An order that owes nothing is owed nothing: a fill moves lots both ways.
LEMMA NothingForNothing ==
  ASSUME IndInv, AccInv, txn.phase \in {"cross", "match", "place"}, LotsIn = 0
  PROVE  LotsOut = 0
<1>1. /\ txn.matchedBase \in Nat /\ txn.matchedAdj \in Nat
      /\ txn.p.side \in Side
  BY Zenon, OrderAccountsFacts
<1>2. /\ (txn.matchedAdj % BaseLotsPerBaseUnit) = 0
      /\ (txn.matchedBase = 0) <=> (txn.matchedAdj = 0)
  BY Zenon, OrderAccountsFacts DEF OrderAccounts
<1>3. PICK k \in Nat :
        /\ txn.matchedAdj = BaseLotsPerBaseUnit * k
        /\ RoundUp(txn.matchedAdj) \div BaseLotsPerBaseUnit = k
        /\ RoundDown(txn.matchedAdj) \div BaseLotsPerBaseUnit = k
        /\ FeeOn(txn.matchedAdj) \in Nat /\ FeeOn(txn.matchedAdj) <= k
  BY Zenon, <1>1, <1>2, MatchedQuoteIs
<1>4. BaseLotsPerBaseUnit \in Nat \ {0}
  BY ConfigAssumption
<1>5. (k = 0) <=> (txn.matchedAdj = 0)
  BY Zenon, <1>3, <1>4, TimesZero
<1>6. MatchedQuote = IF txn.p.side = "Bid" THEN k + FeeOn(txn.matchedAdj)
                                           ELSE k - FeeOn(txn.matchedAdj)
  BY Zenon, <1>3 DEF MatchedQuote
<1>7. CASE txn.p.side = "Bid"
  <2>1. LotsIn = MatchedQuote /\ LotsOut = txn.matchedBase
    BY Zenon, <1>7 DEF LotsIn, LotsOut
  <2>2. k = 0
    BY <1>3, <1>6, <1>7, <2>1
  <2>3. QED
    BY Zenon, <1>2, <1>5, <2>1, <2>2
<1>8. CASE txn.p.side = "Ask"
  <2>1. LotsIn = txn.matchedBase /\ LotsOut = MatchedQuote
    BY Zenon, <1>8 DEF LotsIn, LotsOut
  <2>2. k = 0
    BY Zenon, <1>2, <1>5, <2>1
  <2>3. QED
    BY <1>3, <1>6, <1>8, <2>1, <2>2
<1>9. QED
  BY Zenon, <1>1, <1>7, <1>8 DEF Side

\* The free lots a registered taker pays with, and the market they leave.
UsedFree(m, t, pay, in) ==
  IF t \in m.registered THEN Least(m.free[t][pay], in) ELSE 0

PaidMarket(m, t, pay, in) ==
  Debit(m, t, [NoLots EXCEPT ![pay] = UsedFree(m, t, pay, in)])

\* The market r is m after one trader brought n lots of one asset.
Brought(m, r, t, pay, n) ==
  /\ r.unclaimed = m.unclaimed
  /\ \A u \in Trader, a \in Asset : Holding(r, u, a) = Holding(m, u, a)
       + (IF u = t /\ a = pay THEN n ELSE 0)

\* What a taker owes is taken from its free lots first.
LEMMA PaidAccounts ==
  ASSUME NEW m \in Market, AccountsOK(m), NEW t \in Trader, NEW pay \in Asset,
         NEW get \in Asset, pay # get, NEW in \in Nat
  PROVE  LET used == UsedFree(m, t, pay, in)
             paid == PaidMarket(m, t, pay, in)
         IN /\ paid \in Market /\ AccountsOK(paid)
            /\ paid.registered = m.registered
            /\ \A u \in Trader \ {t}, a \in Asset : Holding(paid, u, a) = Holding(m, u, a)
            /\ used \in Nat /\ used <= in
            /\ Owed(m, pay) \in Int /\ Owed(paid, pay) = Owed(m, pay) - used
            /\ Owed(m, get) \in Int /\ Owed(paid, get) = Owed(m, get)
<1> DEFINE used == IF t \in m.registered THEN Least(m.free[t][pay], in) ELSE 0
           debit == [NoLots EXCEPT ![pay] = used]
           paid == Debit(m, t, debit)
<1>1. \A a \in Asset : m.free[t][a] \in Nat
  BY Zenon, AccountsNat
<1>2. used \in Nat /\ used <= in /\ used <= m.free[t][pay]
      /\ (t \notin m.registered => used = 0)
  BY <1>1 DEF Least
<1> HIDE DEF used
<1>3. debit \in Amounts /\ \A a \in Asset : debit[a] = IF a = pay THEN used ELSE 0
  BY <1>2 DEF NoLots, Amounts
<1> HIDE DEF debit
<1>4. /\ \A a \in Asset : debit[a] <= m.free[t][a]
      /\ t \in m.registered \/ \A a \in Asset : debit[a] = 0
  BY <1>1, <1>2, <1>3
<1>5. /\ paid \in Market /\ AccountsOK(paid) /\ paid.registered = m.registered
      /\ \A u \in Trader, a \in Asset :
           Holding(paid, u, a) = Holding(m, u, a) - (IF u = t THEN debit[a] ELSE 0)
      /\ \A a \in Asset : Owed(m, a) \in Int /\ Owed(paid, a) = Owed(m, a) - debit[a]
  BY <1>3, <1>4, DebitAccounts
<1> HIDE DEF paid
<1>6. \A u \in Trader, a \in Asset : Holding(m, u, a) \in Int
  BY Zenon, HoldingType
<1>7. \A u \in Trader \ {t}, a \in Asset : Holding(paid, u, a) = Holding(m, u, a)
  BY <1>5, <1>6
<1>8. /\ Owed(m, pay) \in Int /\ Owed(paid, pay) = Owed(m, pay) - used
      /\ Owed(m, get) \in Int /\ Owed(paid, get) = Owed(m, get)
  BY <1>2, <1>3, <1>5
<1>9. QED
  BY Zenon, <1>2, <1>5, <1>7, <1>8 DEF paid, debit, used, UsedFree, PaidMarket

\* The debts of a market change when one trader brings lots of one asset.
LEMMA BroughtOwed ==
  ASSUME NEW m \in Market, NEW r \in Market, NEW t \in Trader,
         NEW pay \in Asset, NEW get \in Asset, pay # get, NEW n \in Int, Brought(m, r, t, pay, n)
  PROVE  /\ \A u \in Trader \ {t}, a \in Asset : Holding(r, u, a) = Holding(m, u, a)
         /\ Owed(m, pay) \in Int /\ Owed(r, pay) = Owed(m, pay) + n
         /\ Owed(m, get) \in Int /\ Owed(r, get) = Owed(m, get)
<1>1. \A u \in Trader, a \in Asset : Holding(m, u, a) \in Int
  BY Zenon, HoldingType
<1> USE DEF Brought
<1>2. 0 \in Int /\ r.unclaimed = m.unclaimed + 0
  BY DEF Market
<1>3. Owed(m, pay) \in Int /\ Owed(r, pay) = Owed(m, pay) + n
  <2>1. /\ \A u \in Trader \ {t} : Holding(r, u, pay) = Holding(m, u, pay)
        /\ Holding(r, t, pay) = Holding(m, t, pay) + n
    BY <1>1
  <2>2. /\ Owed(m, pay) \in Int
        /\ Owed(r, pay) = Owed(m, pay) + n + (IF pay = "quote" THEN 0 ELSE 0)
    BY <1>2, <2>1, OwedShift
  <2>3. QED
    BY <2>2
<1>4. Owed(m, get) \in Int /\ Owed(r, get) = Owed(m, get)
  <2>1. \A u \in Trader : Holding(r, u, get) = Holding(m, u, get)
    BY <1>1
  <2>2. /\ Owed(m, get) \in Int
        /\ Owed(r, get) = Owed(m, get) + (IF get = "quote" THEN 0 ELSE 0)
    BY Zenon, <1>2, <2>1, OwedSame
  <2>3. QED
    BY <2>2
<1>5. QED
  BY <1>1, <1>3, <1>4

\* The next sequence number is not on the book.
LEMMA NextSeqIsNew ==
  ASSUME NEW m \in Market, NEW now, BookOK(m.book, m.seq, now), m.seq < MaxSeq,
         NEW side \in Side
  PROVE  /\ StoredSeq(side, m.seq) \in Nat
         /\ \A x \in m.book[side] : x.seq # StoredSeq(side, m.seq)
<1>1. m.seq \in Nat \ {0} /\ MaxSeq \in Nat \ {0} /\ m.book \in Book
  BY ConfigAssumption DEF Market
<1>2. StoredSeq(side, m.seq) \in Nat
  BY <1>1 DEF StoredSeq
<1>3. \A x \in m.book[side] : x.seq # StoredSeq(side, m.seq)
  BY <1>1 DEF BookOK, StoredSeq, Side, Order
<1>4. QED
  BY Zenon, <1>2, <1>3

\* The end of an order: debts and vaults change by the same lots, and nobody
\* else's lots change.
LEMMA PlaceOrderAccounts ==
  ASSUME IndInv, AccInv, PlaceOrder
  PROVE  /\ AccInv' /\ VaultsFollow /\ OwnTokens(txn.who)
         /\ \/ market' = market
            \/ /\ \A u \in Trader \ {txn.who}, a \in Asset :
                    Holding(market', u, a) = Holding(txn.m, u, a)
               /\ market'.unclaimed = txn.m.unclaimed
<1>1. txn.phase = "place"
  BY Zenon DEF PlaceOrder
<1>2. /\ txn \in OrderTxn /\ MarketOK(txn.m, slot) /\ OrderOK
      /\ slot \in Nat /\ txn.p.side \in Side
  BY Zenon, <1>1, OrderFacts
<1>3. /\ AccountsOK(market) /\ AccountsOK(txn.m) /\ OrderAccounts
      /\ market \in Market /\ txn.m \in Market /\ txn.who \in Trader
      /\ txn.p \in Packet
      /\ \A s \in Side : \A x, y \in txn.m.book[s] : x.seq = y.seq => x = y
  BY Zenon, <1>1, OrderAccountsFacts
<1>4. LotsIn \in Nat /\ LotsOut \in Nat
  BY Zenon, <1>1, MatchedNat
<1> DEFINE t == txn.who
           side == txn.p.side
           pay == Pays(side)
           get == Gets(side)
           room == MakeRoom(txn.m, side, txn.p.price)
           lock == IF Posts THEN Lots(side, txn.p.price, RestingSize) ELSE 0
           posted == IF Posts
                     THEN Post(room, side, t, txn.p.price, RestingSize, txn.p.lvs)
                     ELSE txn.m
           usedForPost == (IF Posts THEN room ELSE txn.m).free[t][pay]
                            - posted.free[t][pay]
           used == IF t \in posted.registered
                   THEN Least(posted.free[t][pay], LotsIn) ELSE 0
           debit == [NoLots EXCEPT ![pay] = used]
           paid == Debit(posted, t, debit)
           deposit == [NoLots EXCEPT ![pay] = LotsIn + lock - usedForPost - used]
           out == [NoLots EXCEPT ![get] = LotsOut]
           fromFree == IF Posts THEN Least(lock, room.free[t][pay]) ELSE 0
<1>5. pay \in Asset /\ get \in Asset /\ pay # get /\ Asset = {pay, get}
  BY Zenon, <1>2, SideFacts
<1>6. /\ room \in Market /\ AccountsOK(room) /\ room.registered = txn.m.registered
      /\ room.unclaimed = txn.m.unclaimed
      /\ \A u \in Trader, a \in Asset : Holding(room, u, a) = Holding(txn.m, u, a)
  BY <1>2, <1>3, MakeRoomAccounts
<1>7. MarketOK(room, slot) /\ room.seq = txn.m.seq
      /\ room.book[Opposite(side)] = txn.m.book[Opposite(side)]
  BY <1>2, MakeRoomOK
<1>8. Posts => t \in txn.m.registered
  BY Zenon, <1>3 DEF Posts, OrderAccounts
<1> HIDE DEF room
<1>9. /\ posted \in Market /\ AccountsOK(posted)
      /\ lock \in Nat /\ fromFree \in Nat /\ fromFree <= lock
      /\ usedForPost = fromFree
      /\ posted.registered = txn.m.registered /\ posted.unclaimed = txn.m.unclaimed
      /\ \A u \in Trader, a \in Asset : Holding(posted, u, a) = Holding(txn.m, u, a)
           + (IF u = t /\ a = pay THEN lock - fromFree ELSE 0)
  <2>1. CASE Posts
    <3> DEFINE r == Post(room, side, t, txn.p.price, RestingSize, txn.p.lvs)
               L == Lots(side, txn.p.price, RestingSize)
               F == Least(L, room.free[t][pay])
    <3>1. /\ RestingSize \in Nat \ {0} /\ txn.p.price \in Nat \ {0}
          /\ \A o \in room.book[Opposite(side)] :
               ~ is_expired(o, slot) => ~ Crosses(side, txn.p.price, o.price)
      BY Zenon, <1>1, <1>7, <2>1, PostsUncrossed DEF Resting, Maker
    <3>2. txn.p.lvs \in Nat /\ room.seq < MaxSeq
      BY Zenon, <1>2, <1>3, <1>7 DEF Packet, OrderOK
    <3>3. MarketOK(r, slot)
      BY Zenon, <1>2, <1>3, <1>7, <3>1, <3>2, PostOK
    <3>4. r \in Market
      BY Zenon, <3>3 DEF MarketOK
    <3>5. /\ StoredSeq(side, room.seq) \in Nat
          /\ \A x \in room.book[side] : x.seq # StoredSeq(side, room.seq)
      BY Zenon, <1>2, <1>6, <1>7, <3>2, NextSeqIsNew DEF MarketOK
    <3>6. t \in room.registered
      BY Zenon, <1>6, <1>8, <2>1
    <3> HIDE DEF r
    <3>7. Posted(room, r, t, pay, L, F)
      <4>1. /\ side \in Side /\ t \in room.registered /\ room \in Market
            /\ AccountsOK(room) /\ r \in Market
            /\ r = Post(room, side, t, txn.p.price, RestingSize, txn.p.lvs)
        BY Zenon, <1>2, <1>6, <3>4, <3>6 DEF r
      <4>2. QED
        BY Zenon, <3>1, <3>2, <3>5, <4>1, PostAccounts
    <3> HIDE DEF L, F
    <3>8. posted = r /\ lock = L /\ fromFree = F
      BY Zenon, <2>1 DEF r, L, F
    <3> HIDE DEF posted, lock, fromFree
    <3>9. room.free[t][pay] \in Int
      BY Zenon, <1>3, <1>5, <1>6, HoldingType
    <3>10. usedForPost = fromFree
      BY <2>1, <3>7, <3>8, <3>9 DEF Posted
    <3> HIDE DEF usedForPost
    <3>11. QED
      BY Zenon, <1>6, <3>4, <3>7, <3>8, <3>10 DEF Posted
  <2>2. CASE ~ Posts
    <3>1. txn.m.free[t][pay] \in Int
      BY Zenon, <1>3, <1>5, HoldingType
    <3>2. \A u \in Trader, a \in Asset : Holding(txn.m, u, a) \in Int
      BY Zenon, <1>3, HoldingType
    <3>3. posted = txn.m /\ lock = 0 /\ fromFree = 0 /\ usedForPost = 0
      BY <2>2, <3>1
    <3> HIDE DEF posted, lock, fromFree, usedForPost
    <3>4. QED
      BY <1>3, <3>2, <3>3
  <2>3. QED
    BY Zenon, <2>1, <2>2
<1> HIDE DEF posted, lock, fromFree, usedForPost, side, t
<1> HIDE DEF pay, get
<1>10. /\ \A u \in Trader \ {t}, a \in Asset : Holding(posted, u, a) = Holding(txn.m, u, a)
       /\ Owed(posted, pay) = Owed(txn.m, pay) + (lock - fromFree)
       /\ Owed(posted, get) = Owed(txn.m, get)
       /\ Owed(txn.m, pay) \in Int /\ Owed(txn.m, get) \in Int
  <2>1. lock - fromFree \in Int
    BY <1>9
  <2>2. t \in Trader
    BY Zenon, <1>3 DEF t
  <2> DEFINE n == lock - fromFree
  <2>3. n \in Int /\ Brought(txn.m, posted, t, pay, n)
    BY Zenon, <1>9, <2>1 DEF Brought
  <2> HIDE DEF n
  <2>4. /\ \A u \in Trader \ {t}, a \in Asset : Holding(posted, u, a) = Holding(txn.m, u, a)
        /\ Owed(posted, pay) = Owed(txn.m, pay) + n
        /\ Owed(posted, get) = Owed(txn.m, get)
        /\ Owed(txn.m, pay) \in Int /\ Owed(txn.m, get) \in Int
    <3>1. txn.m \in Market /\ posted \in Market
      BY Zenon, <1>3, <1>9
    <3>2. pay \in Asset /\ get \in Asset /\ pay # get
      BY Zenon, <1>5
    <3>3. QED
      BY SMT, <2>2, <2>3, <3>1, <3>2, BroughtOwed
  <2>5. QED
    BY Zenon, <2>4 DEF n
<1>0. paid.unclaimed = txn.m.unclaimed
  BY Zenon, <1>9 DEF Debit, Market
<1>11. /\ paid \in Market /\ AccountsOK(paid) /\ paid.registered = txn.m.registered
       /\ \A u \in Trader \ {t}, a \in Asset : Holding(paid, u, a) = Holding(txn.m, u, a)
       /\ Owed(paid, pay) = Owed(txn.m, pay) + lock - fromFree - used
       /\ Owed(paid, get) = Owed(txn.m, get)
       /\ used \in Nat /\ used <= LotsIn
       /\ Owed(txn.m, pay) \in Int /\ Owed(txn.m, get) \in Int
  <2>0. used = UsedFree(posted, t, pay, LotsIn) /\ paid = PaidMarket(posted, t, pay, LotsIn)
    BY Zenon DEF UsedFree, PaidMarket
  <2> HIDE DEF paid, used
  <2>1. /\ paid \in Market /\ AccountsOK(paid) /\ paid.registered = posted.registered
        /\ \A u \in Trader \ {t}, a \in Asset : Holding(paid, u, a) = Holding(posted, u, a)
        /\ used \in Nat /\ used <= LotsIn
        /\ Owed(posted, pay) \in Int /\ Owed(paid, pay) = Owed(posted, pay) - used
        /\ Owed(posted, get) \in Int /\ Owed(paid, get) = Owed(posted, get)
    <3>1. posted \in Market /\ AccountsOK(posted) /\ t \in Trader
      BY Zenon, <1>3, <1>9 DEF t
    <3>2. pay \in Asset /\ get \in Asset /\ pay # get
      BY Zenon, <1>5
    <3>3. LotsIn \in Nat
      BY Zenon, <1>4
    <3>4. QED
      BY SMT, <2>0, <3>1, <3>2, <3>3, PaidAccounts
  <2>2. QED
    BY <1>9, <1>10, <2>1
<1> HIDE DEF paid, used
<1>12. /\ Owed(txn.m, pay) = Owed(market, pay) + LotsIn
       /\ Owed(txn.m, get) = Owed(market, get) - LotsOut
       /\ Owed(market, pay) \in Int /\ Owed(market, get) \in Int
  <2>1. FeeDue = 0
    BY Zenon, <1>1 DEF FeeDue
  <2>2. \A a \in Asset : Owed(txn.m, a) + 0
          = Owed(market, a) + (IF a = pay THEN LotsIn ELSE - LotsOut)
    BY Zenon, <1>3, <2>1 DEF OrderAccounts, pay, side
  <2>3. \A a \in Asset : Owed(market, a) \in Nat
    BY Zenon, <1>3, AccountsNat
  <2>4. QED
    BY <1>4, <1>5, <1>11, <2>2, <2>3
<1>13. /\ deposit \in Amounts /\ deposit[pay] = LotsIn + lock - fromFree - used
       /\ out \in Amounts /\ out[pay] = 0 /\ out[get] = LotsOut
       /\ \A a \in Asset : out[a] >= 0
  BY <1>4, <1>5, <1>9, <1>11 DEF NoLots, Amounts
<1> HIDE DEF deposit, out
<1>14. /\ Owed(paid, pay) = Owed(market, pay) + deposit[pay]
       /\ Owed(paid, get) = Owed(market, get) - LotsOut
       /\ deposit[pay] \in Int
  BY <1>4, <1>9, <1>11, <1>12, <1>13
<1>15. \A a \in Asset : wallet[txn.who][a] \in Int /\ vault[a] \in Int
  <2>1. wallet \in Balances /\ vault \in Amounts /\ txn.who \in Trader
    BY Zenon, <1>3 DEF IndInv, TypeOK
  <2>2. QED
    BY Zenon, <2>1 DEF Balances, Amounts
<1>16. CASE Abort
  <2>1. /\ market' = market /\ txn' = NoTxn
        /\ vault' = vault /\ wallet' = wallet /\ treasury' = treasury
    BY Zenon, <1>16 DEF Abort
  <2>2. AccInv'
    BY Zenon, <1>3, <2>1, TxnEnds
  <2>3. VaultsFollow
    BY Zenon, <2>1 DEF VaultsFollow
  <2>4. QED
    BY Zenon, <1>15, <2>1, <2>2, <2>3 DEF OwnTokens
<1>17. CASE /\ txn.p.freeFunds /\ deposit[pay] = 0
            /\ market' = Credit(paid, t, out) /\ txn' = NoTxn
            /\ vault' = vault /\ wallet' = wallet /\ treasury' = treasury
  <2>1. t \in paid.registered \/ \A a \in Asset : out[a] = 0
    <3>1. CASE t \in txn.m.registered
      BY Zenon, <1>11, <3>1
    <3>2. CASE t \notin txn.m.registered
      <4>1. ~ Posts
        BY Zenon, <1>8, <3>2 DEF t
      <4>2. used = 0 /\ lock = 0 /\ fromFree = 0
        BY Zenon, <1>9, <3>2, <4>1 DEF used, lock, fromFree
      <4>3. LotsIn = 0
        BY <1>4, <1>13, <1>17, <4>2
      <4>4. LotsOut = 0
        BY Zenon, <1>1, <4>3, NothingForNothing
      <4>5. QED
        BY Zenon, <1>5, <1>13, <4>4
    <3>3. QED
      BY Zenon, <3>1, <3>2
  <2>2. /\ AccountsOK(market')
        /\ \A u \in Trader, a \in Asset :
             Holding(market', u, a) = Holding(paid, u, a) + (IF u = t THEN out[a] ELSE 0)
        /\ \A a \in Asset : Owed(paid, a) \in Int /\ Owed(market', a) = Owed(paid, a) + out[a]
    <3>1. Credited(paid, market', t, out)
      BY Zenon, <1>3, <1>11, <1>13, <1>17, <2>1, CreditAccounts DEF t
    <3>2. QED
      BY Zenon, <3>1 DEF Credited
  <2>0. market'.unclaimed = txn.m.unclaimed
    BY Zenon, <1>0, <1>11, <1>17 DEF Credit, Market
  <2>3. AccInv'
    BY Zenon, <1>17, <2>2, TxnEnds
  <2>4. Owed(market', pay) = Owed(market, pay) /\ Owed(market', get) = Owed(market, get)
    BY <1>4, <1>5, <1>12, <1>13, <1>14, <1>17, <2>2
  <2>5. VaultsFollow
    BY Zenon, <1>5, <1>17, <2>4 DEF VaultsFollow
  <2>6. \A u \in Trader \ {txn.who}, a \in Asset :
          Holding(market', u, a) = Holding(txn.m, u, a)
    <3>1. TAKE u \in Trader \ {txn.who}, a \in Asset
    <3>2. Holding(paid, u, a) \in Int
      BY Zenon, <1>11, HoldingType
    <3>3. QED
      BY <1>11, <2>2, <3>2 DEF t
  <2>7. OwnTokens(txn.who)
    BY Zenon, <1>17, <1>15 DEF OwnTokens
  <2>8. QED
    BY Zenon, <2>0, <2>3, <2>5, <2>6, <2>7
<1>18. CASE /\ market' = paid /\ txn' = NoTxn
            /\ vault' = [vault EXCEPT ![pay] = @ + deposit[pay],
                                      ![get] = @ - LotsOut]
            /\ wallet' = AddLots(AddLots(wallet, t, pay, - deposit[pay]),
                                 t, get, LotsOut)
            /\ treasury' = treasury
  <2>1. AccInv'
    BY Zenon, <1>11, <1>18, TxnEnds
  <2>2. vault \in Amounts
    BY Zenon DEF IndInv, TypeOK
  <2>3. /\ vault'[pay] = vault[pay] + deposit[pay]
        /\ vault'[get] = vault[get] - LotsOut
        /\ vault[pay] \in Int /\ vault[get] \in Int
    BY Zenon, <1>5, <1>18, <2>2 DEF Amounts
  <2>4. /\ vault'[pay] - Owed(market', pay) = vault[pay] - Owed(market, pay)
        /\ vault'[get] - Owed(market', get) = vault[get] - Owed(market, get)
    BY <1>4, <1>12, <1>14, <1>18, <2>3
  <2>5. VaultsFollow
    BY Zenon, <1>5, <2>4 DEF VaultsFollow
  <2>6. \A u \in Trader \ {txn.who}, a \in Asset :
          Holding(market', u, a) = Holding(txn.m, u, a)
    BY Zenon, <1>11, <1>18 DEF t
  <2>7. market'.unclaimed = txn.m.unclaimed
    BY Zenon, <1>0, <1>18
  <2>8. wallet \in Balances /\ deposit[pay] \in Int /\ LotsOut \in Int
    BY Zenon, <1>4, <1>5, <1>13 DEF IndInv, TypeOK, Amounts
  <2>9. OwnTokens(t)
    BY Zenon, <1>3, <1>5, <1>18, <2>2, <2>8, TakerPays DEF t
  <2>10. QED
    BY Zenon, <2>1, <2>5, <2>6, <2>7, <2>9 DEF t
<1>19. QED
  BY Zenon, <1>16, <1>17, <1>18
  DEF PlaceOrder, paid, debit, deposit, out, used, usedForPost, posted, lock, room,
      pay, get, side, t
============================================================================

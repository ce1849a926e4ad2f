-------------------------- MODULE AccountingProofs --------------------------
(***************************************************************************)
(* The accounts of a market add up, for every configuration and every set  *)
(* of inputs.                                                              *)
(***************************************************************************)
EXTENDS OrderProofs

----------------------------------------------------------------------------
(* Cancellations.                                                          *)

\* Payments move tokens between the vaults and one trader.
LEMMA PaidOut ==
  ASSUME IndInv, NEW t \in Trader, NEW lots \in Amounts, PayOut(t, lots),
         \A a \in Asset : Owed(market, a) \in Int
           /\ Owed(market', a) = Owed(market, a) - lots[a],
         treasury' = treasury
  PROVE  VaultsFollow /\ OwnTokens(t)
<1>1. vault \in Amounts /\ wallet \in Balances
  BY Zenon DEF IndInv, TypeOK
<1>2. \A a \in Asset : vault'[a] = vault[a] - lots[a]
  BY Zenon DEF PayOut
<1>3. \A a \in Asset : vault[a] \in Int /\ lots[a] \in Int
  BY Zenon, <1>1 DEF Amounts
<1>4. OwnTokens(t)
  BY Zenon, <1>1, PaymentsOwn
<1>5. QED
  BY <1>2, <1>3, <1>4 DEF VaultsFollow

\* A step that leaves market and vaults alone.
LEMMA NothingFlows ==
  ASSUME market' = market, vault' = vault
  PROVE  VaultsFollow
BY Zenon DEF VaultsFollow

\* Cancellation instructions begin with nothing released.
LEMMA StartCancelAccounts ==
  ASSUME IndInv, AccInv, Idle, NEW t \in Trader, NEW claim \in BOOLEAN,
         NEW ids \in SUBSET [price : Nat, seq : Nat],
         StartCancel(t, ids, claim)
  PROVE  AccInv' /\ VaultsFollow
<1>1. market \in Market
  BY Zenon, IdleFacts
<1>2. NoLots \in Amounts /\ \A a \in Asset : NoLots[a] = 0
  BY DEF NoLots, Amounts
<1>3. AccountsOK(market)
  BY Zenon DEF AccInv
<1>4. market' = market /\ vault' = vault
  BY Zenon DEF StartCancel
<1>5. /\ txn'.phase = "cancel" /\ txn'.who = t /\ txn'.m = market
      /\ txn'.out = NoLots /\ txn'.claim = claim
  BY Zenon DEF StartCancel
<1>6. \A a \in Asset : Holding(market, t, a) \in Int
  BY Zenon, <1>1, HoldingType
<1> HIDE DEF NoLots
<1>7. \A u \in Trader, s \in Side : Own(u, s)' = Own(u, s)
  BY Zenon, <1>4 DEF Own
<1>8. CancelAccounts'
  <2>1. \A u \in Trader \ {txn'.who} :
          /\ \A s \in Side : {o \in txn'.m.book[s] : o.trader = u} = Own(u, s)'
          /\ txn'.m.free[u] = market'.free[u]
          /\ txn'.m.locked[u] = market'.locked[u]
    BY Zenon, <1>4, <1>5, <1>7 DEF Own
  <2>2. \A a \in Asset :
          /\ txn'.out[a] >= 0
          /\ Holding(txn'.m, txn'.who, a) + txn'.out[a] = Holding(market', txn'.who, a)
    BY <1>2, <1>4, <1>5, <1>6
  <2>3. /\ IF txn'.claim THEN txn'.m.free[txn'.who] = market'.free[txn'.who]
                         ELSE txn'.out = NoLots
        /\ txn'.m.unclaimed = market'.unclaimed
    BY Zenon, <1>4, <1>5
  <2>4. QED
    BY Zenon, <2>1, <2>2, <2>3 DEF CancelAccounts
<1>9. AccInv'
  BY Zenon, <1>3, <1>4, <1>5, <1>8 DEF AccInv
<1>10. QED
  BY Zenon, <1>4, <1>9, NothingFlows

\* CancelAllOrders, CancelUpTo, CancelMultipleOrdersById and
\* ForceCancelOrders begin with nothing released.
LEMMA CancelStartsAccounts ==
  ASSUME IndInv, AccInv, NEW t \in Trader, NEW claim \in BOOLEAN, NEW side \in Side,
         NEW lim, NEW ids \in SUBSET BookIds,
         \/ CancelAllOrders(t, claim) \/ CancelUpTo(t, side, lim, claim)
         \/ CancelMultipleOrdersById(t, ids, claim)
         \/ ForceCancelOrders(t, side, lim)
  PROVE  AccInv' /\ VaultsFollow
<1>1. Idle
  BY Zenon DEF CancelAllOrders, CancelUpTo, CancelMultipleOrdersById, ForceCancelOrders
<1>2. market.book["Bid"] \subseteq Order /\ market.book["Ask"] \subseteq Order
  BY Zenon, <1>1, IdleFacts DEF Market, Side, Book
<1>3. /\ {Id(o) : o \in Own(t, "Bid") \cup Own(t, "Ask")}
           \in SUBSET [price : Nat, seq : Nat]
      /\ {Id(o) : o \in UpTo(t, side, lim)} \in SUBSET [price : Nat, seq : Nat]
      /\ ids \in SUBSET [price : Nat, seq : Nat]
  <2>1. Own(t, "Bid") \cup Own(t, "Ask") \subseteq Order
    BY Zenon, <1>2 DEF Own
  <2>2. UpTo(t, side, lim) \subseteq market.book[side]
    BY Zenon DEF UpTo, FirstOf
  <2>3. UpTo(t, side, lim) \subseteq Order
    BY Zenon, <1>2, <2>2 DEF Side
  <2>4. ids \subseteq {Id(o) : o \in Order}
    BY Zenon, <1>2 DEF BookIds
  <2>5. QED
    BY Zenon, <2>1, <2>3, <2>4, IdType
<1>4. QED
  BY Zenon, <1>1, <1>3, StartCancelAccounts
  DEF CancelAllOrders, CancelUpTo, CancelMultipleOrdersById, ForceCancelOrders

\* What holds of a cancellation in progress.
LEMMA CancelAccountsFacts ==
  ASSUME IndInv, AccInv, txn.phase = "cancel"
  PROVE  /\ AccountsOK(market) /\ AccountsOK(txn.m) /\ CancelAccounts
         /\ market \in Market /\ txn.m \in Market /\ txn.who \in Trader
         /\ txn.out \in Amounts /\ txn.claim \in BOOLEAN
         /\ \A s \in Side : \A x, y \in txn.m.book[s] : x.seq = y.seq => x = y
<1>1. /\ txn \in CancelTxn /\ MarketOK(txn.m, slot) /\ market \in Market
  BY Zenon, CancelFacts
<1>2. /\ txn.m \in Market /\ txn.who \in Trader /\ txn.out \in Amounts
      /\ txn.claim \in BOOLEAN
  BY Zenon, <1>1 DEF CancelTxn
<1>3. \A s \in Side : \A x, y \in txn.m.book[s] : x.seq = y.seq => x = y
  BY Zenon, <1>1 DEF MarketOK, BookOK
<1>4. txn # NoTxn
  BY DEF NoTxn
<1>5. AccountsOK(market) /\ AccountsOK(txn.m) /\ CancelAccounts
  BY Zenon, <1>4 DEF AccInv
<1>6. QED
  BY Zenon, <1>1, <1>2, <1>3, <1>5

\* The orders of other traders stay on the book when one is reduced.
LEMMA OthersOrdersStay ==
  ASSUME NEW book \in Book, NEW side \in Side, NEW o \in book[side], NEW n \in Int,
         \A x \in book[side] : x.seq = o.seq => x = o,
         NEW u \in Trader, u # o.trader, NEW s \in Side
  PROVE  {x \in TakeFrom(book, side, o, n)[s] : x.trader = u}
           = {x \in book[s] : x.trader = u}
<1>1. CASE s # side
  BY Zenon, <1>1 DEF TakeFrom, Book
<1>2. CASE s = side
  <2>1. TakeFrom(book, side, o, n)[side]
          \subseteq (book[side] \ {o}) \cup {[o EXCEPT !.size = o.size - n]}
    BY Zenon DEF TakeFrom, Book
  <2>2. book[side] \ {o} \subseteq TakeFrom(book, side, o, n)[side]
    BY Zenon DEF TakeFrom, Book
  <2>3. [o EXCEPT !.size = o.size - n].trader = o.trader
    <3>1. o \in Order
      BY Zenon DEF Book
    <3>2. QED
      BY Zenon, <3>1 DEF Order
  <2>4. QED
    BY Zenon, <1>2, <2>1, <2>2, <2>3
<1>3. QED
  BY Zenon, <1>1, <1>2

\* What releasing one order adds to a cancellation in progress.
LEMMA ReleaseAccounts ==
  ASSUME IndInv, AccInv, txn.phase = "cancel", NEW side \in Side,
         NEW o \in txn.m.book[side], o.trader = txn.who, market' = market,
         LET r == ReduceAndClaim(txn.m, side, o, o.size, txn.claim)
         IN /\ txn'.phase = "cancel" /\ txn'.m = r.m
            /\ txn'.out = [a \in Asset |-> txn.out[a] + r.out[a]]
            /\ txn'.who = txn.who /\ txn'.claim = txn.claim
  PROVE  AccountsOK(txn'.m) /\ CancelAccounts'
<1> DEFINE m == txn.m
           t == txn.who
           claim == txn.claim
           r == ReduceAndClaim(m, side, o, o.size, claim)
<1>1. /\ AccountsOK(market) /\ AccountsOK(m) /\ CancelAccounts
      /\ market \in Market /\ m \in Market /\ t \in Trader
      /\ txn.out \in Amounts /\ claim \in BOOLEAN
      /\ \A s \in Side : \A x, y \in m.book[s] : x.seq = y.seq => x = y
  BY Zenon, CancelAccountsFacts
<1>2. /\ txn'.m = r.m /\ txn'.out = [a \in Asset |-> txn.out[a] + r.out[a]]
      /\ txn'.who = t /\ txn'.claim = claim
  BY Zenon
<1>3. m.book \in Book /\ o \in m.book[side] /\ o.size \in Nat /\ o.size <= o.size
      /\ \A x \in m.book[side] : x.seq = o.seq => x = o
  BY <1>1 DEF Market, Book, Order
<1>4. o.trader = t
  BY Zenon
<1> HIDE DEF m, t, claim
<1>5. /\ r.m \in Market /\ AccountsOK(r.m) /\ r.out \in Amounts
      /\ r.m.book = TakeFrom(m.book, side, o, o.size)
      /\ r.m.unclaimed = m.unclaimed
      /\ \A u \in Trader \ {t} :
           r.m.free[u] = m.free[u] /\ r.m.locked[u] = m.locked[u]
      /\ \A a \in Asset : r.out[a] >= 0
      /\ \A u \in Trader, a \in Asset : Holding(r.m, u, a)
           = Holding(m, u, a) - (IF u = t THEN r.out[a] ELSE 0)
      /\ IF claim THEN r.m.free[t] = m.free[t] ELSE r.out = NoLots
  BY <1>1, <1>3, <1>4, ReduceAndClaimAccounts
<1> HIDE DEF r
<1>6. \A a \in Asset : /\ Holding(m, t, a) \in Int /\ Holding(market, t, a) \in Int
                       /\ txn.out[a] \in Int /\ r.out[a] \in Int
  BY Zenon, <1>1, <1>5, HoldingType DEF Amounts
<1>7. /\ \A u \in Trader \ {t} :
           /\ \A s \in Side : {x \in m.book[s] : x.trader = u} = Own(u, s)
           /\ m.free[u] = market.free[u]
           /\ m.locked[u] = market.locked[u]
      /\ \A a \in Asset :
           /\ txn.out[a] >= 0
           /\ Holding(m, t, a) + txn.out[a] = Holding(market, t, a)
      /\ IF claim THEN m.free[t] = market.free[t] ELSE txn.out = NoLots
      /\ m.unclaimed = market.unclaimed
  BY Zenon, <1>1 DEF CancelAccounts, m, t, claim
<1>8. \A u \in Trader \ {t} :
        /\ \A s \in Side : {x \in r.m.book[s] : x.trader = u} = Own(u, s)
        /\ r.m.free[u] = market.free[u]
        /\ r.m.locked[u] = market.locked[u]
  <2> TAKE u \in Trader \ {t}
  <2>1. ASSUME NEW s \in Side
        PROVE  {x \in r.m.book[s] : x.trader = u} = {x \in m.book[s] : x.trader = u}
    BY <1>3, <1>4, <1>5, OthersOrdersStay
  <2>2. QED
    BY Zenon, <1>5, <1>7, <2>1
<1>9. \A a \in Asset :
        /\ txn'.out[a] >= 0
        /\ Holding(r.m, t, a) + txn'.out[a] = Holding(market, t, a)
  <2> TAKE a \in Asset
  <2>1. txn'.out[a] = txn.out[a] + r.out[a]
    BY Zenon, <1>2
  <2>2. Holding(r.m, t, a) = Holding(m, t, a) - r.out[a]
    BY Zenon, <1>1, <1>5
  <2>3. QED
    BY <1>5, <1>6, <1>7, <2>1, <2>2
<1>10. IF claim THEN r.m.free[t] = market.free[t] ELSE txn'.out = NoLots
  <2>1. CASE claim
    BY Zenon, <1>5, <1>7, <2>1
  <2>2. CASE ~ claim
    <3>1. r.out = NoLots /\ txn.out = NoLots
      BY Zenon, <1>5, <1>7, <2>2
    <3>2. txn'.out = NoLots
      BY <1>2, <3>1 DEF NoLots
    <3>3. QED
      BY Zenon, <2>2, <3>2
  <2>3. QED
    BY Zenon, <2>1, <2>2
<1>11. \A u \in Trader, s \in Side : Own(u, s)' = Own(u, s)
  BY Zenon DEF Own
<1>12. CancelAccounts'
  <2>1. \A u \in Trader \ {txn'.who} :
          /\ \A s \in Side : {x \in txn'.m.book[s] : x.trader = u} = Own(u, s)'
          /\ txn'.m.free[u] = market'.free[u]
          /\ txn'.m.locked[u] = market'.locked[u]
    <3>1. \A u \in Trader \ {t} :
            /\ \A s \in Side : {x \in txn'.m.book[s] : x.trader = u} = Own(u, s)
            /\ txn'.m.free[u] = market'.free[u]
            /\ txn'.m.locked[u] = market'.locked[u]
      <4>1. txn'.m = r.m
        BY Zenon, <1>2
      <4>2. QED
        BY Zenon, <1>8, <4>1
    <3>2. QED
      BY <1>2, <1>11, <3>1
  <2>2. \A a \in Asset :
          /\ txn'.out[a] >= 0
          /\ Holding(txn'.m, txn'.who, a) + txn'.out[a] = Holding(market', txn'.who, a)
    BY Zenon, <1>2, <1>9
  <2>3. /\ IF txn'.claim THEN txn'.m.free[txn'.who] = market'.free[txn'.who]
                         ELSE txn'.out = NoLots
        /\ txn'.m.unclaimed = market'.unclaimed
    BY Zenon, <1>2, <1>5, <1>7, <1>10
  <2>4. QED
    BY Zenon, <2>1, <2>2, <2>3 DEF CancelAccounts
<1>13. QED
  BY Zenon, <1>2, <1>5, <1>12

\* Each id of a cancellation releases the lots of at most one order, the
\* caller's own.
LEMMA CancelStepAccounts ==
  ASSUME IndInv, AccInv, CancelStep
  PROVE  AccInv' /\ VaultsFollow
<1>1. txn.phase = "cancel" /\ market' = market /\ vault' = vault
  BY Zenon DEF CancelStep, Working
<1>2. txn \in CancelTxn
  BY Zenon, <1>1, CancelFacts
<1>3. AccountsOK(market) /\ AccountsOK(txn.m) /\ CancelAccounts
  BY Zenon, <1>1, CancelAccountsFacts
<1>4. PICK id \in txn.ids :
        LET side == from_order_sequence_number(id.seq)
            mine == {o \in txn.m.book[side] : Id(o) = id /\ o.trader = txn.who}
            next == [txn EXCEPT !.ids = @ \ {id}]
        IN \/ mine = {} /\ txn' = next
           \/ \E o \in mine :
                LET r == ReduceAndClaim(txn.m, side, o, o.size, txn.claim)
                IN txn' = [next EXCEPT
                     !.m = r.m,
                     !.out = [a \in Asset |-> @[a] + r.out[a]]]
  BY Zenon DEF CancelStep
<1> DEFINE side == from_order_sequence_number(id.seq)
           next == [txn EXCEPT !.ids = @ \ {id}]
           r(o) == ReduceAndClaim(txn.m, side, o, o.size, txn.claim)
<1>5. side \in Side
  BY Zenon DEF from_order_sequence_number, Side
<1>6. /\ next.phase = "cancel" /\ next.m = txn.m /\ next.out = txn.out
      /\ next.who = txn.who
      /\ DOMAIN next = {"phase", "who", "m", "ids", "claim", "out"}
  BY Zenon, <1>2 DEF CancelTxn
<1>7. next.claim = txn.claim
  BY Zenon, <1>2 DEF CancelTxn
<1> HIDE DEF side, next
<1>8. txn'.phase = "cancel" /\ AccountsOK(txn'.m) /\ CancelAccounts'
  <2>1. CASE txn' = next
    <3>1. /\ txn'.phase = "cancel" /\ txn'.m = txn.m /\ txn'.out = txn.out
          /\ txn'.who = txn.who /\ txn'.claim = txn.claim
      BY Zenon, <1>6, <1>7, <2>1
    <3>2. \A u \in Trader, s \in Side : Own(u, s)' = Own(u, s)
      BY Zenon, <1>1 DEF Own
    <3>3. CancelAccounts'
      <4>1. \A u \in Trader \ {txn'.who} :
              /\ \A s \in Side : {o \in txn'.m.book[s] : o.trader = u} = Own(u, s)'
              /\ txn'.m.free[u] = market'.free[u]
              /\ txn'.m.locked[u] = market'.locked[u]
        BY <1>1, <1>3, <3>1, <3>2 DEF CancelAccounts
      <4>2. \A a \in Asset :
              /\ txn'.out[a] >= 0
              /\ Holding(txn'.m, txn'.who, a) + txn'.out[a] = Holding(market', txn'.who, a)
        BY Zenon, <1>1, <1>3, <3>1 DEF CancelAccounts
      <4>3. /\ IF txn'.claim THEN txn'.m.free[txn'.who] = market'.free[txn'.who]
                             ELSE txn'.out = NoLots
            /\ txn'.m.unclaimed = market'.unclaimed
        BY Zenon, <1>1, <1>3, <3>1 DEF CancelAccounts
      <4>4. QED
        BY Zenon, <4>1, <4>2, <4>3 DEF CancelAccounts
    <3>4. QED
      BY Zenon, <1>3, <3>1, <3>3
  <2>2. CASE \E o \in txn.m.book[side] : o.trader = txn.who
               /\ txn' = [next EXCEPT !.m = r(o).m,
                                      !.out = [a \in Asset |-> @[a] + r(o).out[a]]]
    <3>1. PICK o \in txn.m.book[side] : o.trader = txn.who
            /\ txn' = [next EXCEPT !.m = r(o).m,
                                   !.out = [a \in Asset |-> @[a] + r(o).out[a]]]
      BY Zenon, <2>2
    <3> DEFINE rm == r(o).m
               out == [a \in Asset |-> txn.out[a] + r(o).out[a]]
    <3>2. txn' = [next EXCEPT !.m = rm, !.out = out]
      BY Zenon, <1>6, <3>1
    <3> HIDE DEF rm, out
    <3>3. /\ txn'.phase = "cancel" /\ txn'.m = rm /\ txn'.out = out
          /\ txn'.who = txn.who
      BY Zenon, <1>6, <3>2
    <3>4. txn'.claim = txn.claim
      BY Zenon, <1>6, <1>7, <3>2
    <3>5. QED
      BY Zenon, <1>1, <1>5, <3>1, <3>3, <3>4, ReleaseAccounts DEF rm, out
  <2>3. QED
    BY Zenon, <1>4, <2>1, <2>2 DEF side, next
<1>9. AccInv'
  BY Zenon, <1>1, <1>3, <1>8 DEF AccInv
<1>10. QED
  BY Zenon, <1>1, <1>9, NothingFlows

\* The end of a cancellation: what it released leaves the vaults.
LEMMA CancelDoneAccounts ==
  ASSUME IndInv, AccInv, CancelDone
  PROVE  AccInv' /\ VaultsFollow /\ OwnTokens(txn.who) /\ OwnLots(txn.who)
<1>1. /\ txn.phase = "cancel" /\ market' = txn.m /\ PayOut(txn.who, txn.out)
      /\ txn' = NoTxn /\ treasury' = treasury
  BY Zenon DEF CancelDone
<1>2. /\ AccountsOK(market) /\ AccountsOK(txn.m) /\ CancelAccounts
      /\ market \in Market /\ txn.m \in Market /\ txn.who \in Trader
      /\ txn.out \in Amounts
  BY Zenon, <1>1, CancelAccountsFacts
<1>3. AccInv'
  BY Zenon, <1>1, <1>2, TxnEnds
<1>4. ASSUME NEW a \in Asset
      PROVE  Owed(market, a) \in Int /\ Owed(market', a) = Owed(market, a) - txn.out[a]
  <2> DEFINE n == - txn.out[a]
  <2>1. /\ txn.out[a] \in Int /\ n \in Int
        /\ Holding(txn.m, txn.who, a) \in Int /\ Holding(market, txn.who, a) \in Int
        /\ market.unclaimed \in Int
    BY <1>2, HoldingType DEF Amounts
  <2>2. /\ Holding(txn.m, txn.who, a) + txn.out[a] = Holding(market, txn.who, a)
        /\ txn.m.unclaimed = market.unclaimed
    BY Zenon, <1>2 DEF CancelAccounts
  <2>3. Holding(txn.m, txn.who, a) = Holding(market, txn.who, a) + n
    BY <2>1, <2>2
  <2>4. \A u \in Trader \ {txn.who} : Holding(txn.m, u, a) = Holding(market, u, a)
    BY Zenon, <1>2 DEF CancelAccounts, Holding
  <2>5. txn.m.unclaimed = market.unclaimed + 0 /\ 0 \in Int
    BY <2>1, <2>2
  <2> HIDE DEF n
  <2>6. /\ Owed(market, a) \in Int
        /\ Owed(txn.m, a) = Owed(market, a) + n + (IF a = "quote" THEN 0 ELSE 0)
    BY <1>2, <2>1, <2>3, <2>4, <2>5, OwedShift
  <2>7. QED
    BY <1>1, <2>1, <2>6 DEF n
<1>5. VaultsFollow /\ OwnTokens(txn.who)
  BY Zenon, <1>1, <1>2, <1>4, PaidOut
<1>6. OwnLots(txn.who)
  BY Zenon, <1>1, <1>2 DEF CancelAccounts, OwnLots, Holding
<1>7. QED
  BY Zenon, <1>3, <1>5, <1>6

----------------------------------------------------------------------------
(* The instructions of one step.                                           *)

\* Every order on the book locks something: prices and sizes are positive.
LEMMA LotsPositive ==
  ASSUME NEW side \in Side, NEW price \in Nat \ {0}, NEW n \in Nat \ {0}
  PROVE  Lots(side, price, n) > 0
<1>1. CASE side = "Ask"
  BY <1>1 DEF Lots
<1>2. CASE side = "Bid"
  <2>1. price * TickSize \in Nat \ {0}
    BY ConfigAssumption, MulPositive
  <2>2. AdjustedQuote(price, n) \in Nat \ {0}
    BY Zenon, <2>1, MulPositive DEF AdjustedQuote
  <2>3. /\ AdjustedQuote(price, n) = BaseLotsPerBaseUnit * Lots("Bid", price, n)
    BY AdjustedLots
  <2>4. Lots("Bid", price, n) \in Nat
    BY Zenon, LotsNat DEF Side
  <2>5. Lots("Bid", price, n) # 0
    <3>1. BaseLotsPerBaseUnit * 0 = 0
      BY ConfigAssumption
    <3>2. QED
      BY Zenon, <2>2, <2>3, <3>1
  <2>6. QED
    BY <1>2, <2>4, <2>5
<1>3. QED
  BY Zenon, <1>1, <1>2 DEF Side

\* A trader without locked lots has no order on the book.
LEMMA NoLotsNoOrders ==
  ASSUME NEW m \in Market, AccountsOK(m), NEW t \in Trader, m.locked[t] = NoLots
  PROVE  \A s \in Side : \A o \in m.book[s] : o.trader # t
<1> SUFFICES ASSUME NEW s \in Side, NEW o \in m.book[s], o.trader = t
             PROVE  FALSE
  BY Zenon
<1> DEFINE mine == {x \in m.book[s] : x.trader = t}
           a == IF s = "Bid" THEN "quote" ELSE "base"
<1>1. a \in Asset /\ s = (IF a = "quote" THEN "Bid" ELSE "Ask")
  BY Zenon DEF Asset, Side
<1>2. m.book[s] \in SUBSET Order /\ IsFiniteSet(m.book[s])
  BY Zenon DEF Market, Book, AccountsOK
<1>3. mine \in SUBSET Order /\ IsFiniteSet(mine) /\ o \in mine
  BY Zenon, <1>2, FS_Subset
<1>4. m.locked[t][a] = LockedByOrders(m, t, a)
  BY Zenon, <1>1 DEF AccountsOK
<1>5. LockedByOrders(m, t, a) = OrderLots(s, mine)
  BY Zenon, <1>1 DEF LockedByOrders
<1>6. m.locked[t][a] = 0
  BY Zenon, <1>1 DEF NoLots
<1> HIDE DEF mine
<1>7. OrderLots(s, mine) \in Nat /\ Lots(s, o.price, o.size) \in Nat
      /\ Lots(s, o.price, o.size) <= OrderLots(s, mine)
  BY Zenon, <1>3, OrderLotsNat
<1>8. o.price \in Nat \ {0} /\ o.size \in Nat \ {0}
  BY Zenon, <1>2 DEF Order
<1>9. Lots(s, o.price, o.size) > 0
  BY Zenon, <1>8, LotsPositive
<1>10. QED
  BY <1>4, <1>5, <1>6, <1>7, <1>9

\* A registered trader that holds nothing can be removed.
LEMMA RemoveTraderAccounts ==
  ASSUME NEW m \in Market, AccountsOK(m), NEW t \in Trader, HoldsNothing(m, t)
  PROVE  LET r == [m EXCEPT !.registered = @ \ {t}]
         IN /\ r \in Market /\ AccountsOK(r)
            /\ \A a \in Asset : Owed(m, a) \in Int /\ Owed(r, a) = Owed(m, a)
<1> DEFINE r == [m EXCEPT !.registered = m.registered \ {t}]
<1>1. /\ r \in Market /\ r.registered = m.registered \ {t} /\ r.book = m.book
      /\ r.free = m.free /\ r.locked = m.locked /\ r.unclaimed = m.unclaimed
  BY Zenon DEF Market
<1>2. \A s \in Side : \A o \in m.book[s] : o.trader # t
  BY Zenon, NoLotsNoOrders DEF HoldsNothing
<1>3. \A a \in Asset : m.free[t][a] = 0
  BY Zenon DEF HoldsNothing, NoLots
<1>4. r = [m EXCEPT !.registered = @ \ {t}]
  BY Zenon
<1> HIDE DEF r
<1>5. \A u \in Trader, a \in Asset : LockedByOrders(r, u, a) = LockedByOrders(m, u, a)
  BY Zenon, <1>1 DEF LockedByOrders
<1>6. AccountsOK(r)
  BY <1>1, <1>2, <1>3, <1>5 DEF AccountsOK
<1>7. m.unclaimed \in Int
  BY Zenon DEF Market
<1>8. ASSUME NEW a \in Asset
      PROVE  Owed(m, a) \in Int /\ Owed(r, a) = Owed(m, a)
  <2>1. \A u \in Trader : Holding(r, u, a) = Holding(m, u, a)
    BY Zenon, <1>1 DEF Holding
  <2>2. r.unclaimed = m.unclaimed + 0 /\ 0 \in Int
    BY <1>1, <1>7
  <2>3. /\ Owed(m, a) \in Int
        /\ Owed(r, a) = Owed(m, a) + (IF a = "quote" THEN 0 ELSE 0)
    BY <1>1, <2>1, <2>2, OwedSame
  <2>4. QED
    BY <2>3
<1>9. QED
  BY Zenon, <1>1, <1>4, <1>6, <1>8

\* What holds between instructions.
LEMMA IdleAccounts ==
  ASSUME IndInv, AccInv, Idle
  PROVE  /\ market \in Market /\ AccountsOK(market) /\ txn = NoTxn
         /\ \A s \in Side : \A x, y \in market.book[s] : x.seq = y.seq => x = y
<1>1. market \in Market /\ MarketOK(market, slot) /\ txn = NoTxn
  BY Zenon, IdleFacts
<1>2. QED
  BY Zenon, <1>1 DEF AccInv, MarketOK, BookOK

\* ReduceOrder pays out what it releases, or frees it.
LEMMA ReduceOrderAccounts ==
  ASSUME IndInv, AccInv, NEW t \in Trader, NEW side \in Side,
         NEW o \in market.book[side], NEW n \in ReduceSizes,
         NEW claim \in BOOLEAN, ReduceOrder(t, side, o, n, claim)
  PROVE  AccInv' /\ VaultsFollow /\ OwnTokens(t) /\ OwnLots(t)
<1> DEFINE lots == Least(n, o.size)
           r == ReduceAndClaim(market, side, o, lots, claim)
<1>1. /\ market \in Market /\ AccountsOK(market) /\ txn = NoTxn
      /\ \A x \in market.book[side] : x.seq = o.seq => x = o
  BY Zenon, IdleAccounts DEF ReduceOrder
<1>2. lots \in Nat /\ lots <= o.size
  <2>1. o.size \in Nat /\ n \in Nat
    BY <1>1, InputAssumption DEF Market, Order, Book
  <2>2. QED
    BY <2>1 DEF Least
<1> HIDE DEF lots
<1>3. /\ r.m \in Market /\ AccountsOK(r.m) /\ r.out \in Amounts
      /\ r.m.unclaimed = market.unclaimed
      /\ \A u \in Trader \ {o.trader} :
           r.m.free[u] = market.free[u] /\ r.m.locked[u] = market.locked[u]
      /\ \A a \in Asset : Owed(market, a) \in Int
           /\ Owed(r.m, a) = Owed(market, a) - r.out[a]
  BY <1>1, <1>2, ReduceAndClaimAccounts
<1>4. /\ market' = r.m /\ PayOut(t, r.out) /\ txn' = txn /\ treasury' = treasury
      /\ o.trader = t
  BY Zenon DEF ReduceOrder, lots, Own
<1> HIDE DEF r
<1>5. AccInv'
  BY Zenon, <1>1, <1>3, <1>4, TxnEnds
<1>6. VaultsFollow /\ OwnTokens(t)
  BY Zenon, <1>3, <1>4, PaidOut
<1>7. OwnLots(t)
  BY Zenon, <1>3, <1>4 DEF OwnLots, Holding
<1>8. QED
  BY Zenon, <1>5, <1>6, <1>7

\* DepositFunds credits what it takes into the vaults.
LEMMA DepositFundsAccounts ==
  ASSUME IndInv, AccInv, NEW t \in Trader, NEW lots \in Transfers, DepositFunds(t, lots)
  PROVE  AccInv' /\ VaultsFollow /\ OwnTokens(t) /\ OwnLots(t)
<1> DEFINE m == get_or_register_trader(market, t)
           r == Credit(m, t, lots)
<1>1. market \in Market /\ AccountsOK(market) /\ txn = NoTxn
  BY Zenon, IdleAccounts DEF DepositFunds
<1>2. lots \in Amounts /\ \A a \in Asset : lots[a] \in Nat
  BY InputAssumption DEF Amounts
<1>3. /\ m \in Market /\ AccountsOK(m) /\ t \in m.registered
      /\ m.free = market.free /\ m.locked = market.locked
      /\ m.unclaimed = market.unclaimed
      /\ \A a \in Asset : Owed(m, a) = Owed(market, a)
  BY Zenon, <1>1, RegisterAccounts
<1> HIDE DEF m
<1>4. /\ AccountsOK(r)
      /\ r.unclaimed = m.unclaimed /\ r.locked = m.locked
      /\ \A u \in Trader \ {t} : r.free[u] = m.free[u]
      /\ \A a \in Asset : Owed(m, a) \in Int /\ Owed(r, a) = Owed(m, a) + lots[a]
  <2>1. \A a \in Asset : lots[a] >= 0
    BY <1>2
  <2>2. Credited(m, r, t, lots)
    BY Zenon, <1>2, <1>3, <2>1, CreditAccounts
  <2>3. QED
    BY Zenon, <2>2 DEF Credited
<1>5. /\ market' = r /\ txn' = txn /\ vault' = [a \in Asset |-> vault[a] + lots[a]]
      /\ PayIn(t, lots) /\ treasury' = treasury
  BY Zenon DEF DepositFunds, PayIn, m
<1> HIDE DEF r
<1>6. vault \in Amounts /\ wallet \in Balances
  BY Zenon DEF IndInv, TypeOK
<1>7. \A a \in Asset : vault[a] \in Int /\ vault'[a] = vault[a] + lots[a]
  BY Zenon, <1>5, <1>6 DEF Amounts
<1>8. VaultsFollow
  BY <1>2, <1>3, <1>4, <1>5, <1>7 DEF VaultsFollow
<1>9. OwnTokens(t)
  BY Zenon, <1>2, <1>5, <1>6, PaymentsOwn
<1>10. OwnLots(t)
  BY Zenon, <1>3, <1>4, <1>5 DEF OwnLots, Holding
<1>11. QED
  BY Zenon, <1>1, <1>4, <1>5, <1>8, <1>9, <1>10, TxnEnds

\* WithdrawFunds debits what it takes out of the vaults.
LEMMA WithdrawFundsAccounts ==
  ASSUME IndInv, AccInv, NEW t \in Trader, NEW lots \in Transfers, WithdrawFunds(t, lots)
  PROVE  AccInv' /\ VaultsFollow /\ OwnTokens(t) /\ OwnLots(t)
<1> DEFINE out == Claimable(market, t, lots)
           r == Debit(market, t, out)
<1>1. market \in Market /\ AccountsOK(market) /\ txn = NoTxn
  BY Zenon, IdleAccounts DEF WithdrawFunds
<1>2. out \in Amounts /\ \A a \in Asset : out[a] <= market.free[t][a]
  BY Zenon, <1>1, ClaimableWithin, TransferType
<1>3. /\ market' = r /\ txn' = txn /\ PayOut(t, out) /\ t \in market.registered
      /\ treasury' = treasury
  BY Zenon DEF WithdrawFunds
<1> HIDE DEF out
<1>4. /\ AccountsOK(r)
      /\ r.unclaimed = market.unclaimed /\ r.locked = market.locked
      /\ \A u \in Trader \ {t} : r.free[u] = market.free[u]
      /\ \A a \in Asset : Owed(market, a) \in Int /\ Owed(r, a) = Owed(market, a) - out[a]
  BY <1>1, <1>2, <1>3, DebitAccounts
<1> HIDE DEF r
<1>5. VaultsFollow /\ OwnTokens(t)
  BY Zenon, <1>2, <1>3, <1>4, PaidOut
<1>6. OwnLots(t)
  BY Zenon, <1>3, <1>4 DEF OwnLots, Holding
<1>7. QED
  BY Zenon, <1>1, <1>3, <1>4, <1>5, <1>6, TxnEnds

\* EvictSeat pays out everything and removes a trader that holds nothing.
LEMMA EvictSeatAccounts ==
  ASSUME IndInv, AccInv, NEW t \in Trader, EvictSeat(t)
  PROVE  AccInv' /\ VaultsFollow /\ OwnTokens(t) /\ OwnLots(t)
<1> DEFINE out == Claimable(market, t, market.free[t])
           m == Debit(market, t, out)
           e == [m EXCEPT !.registered = @ \ {t}]
<1>1. market \in Market /\ AccountsOK(market) /\ txn = NoTxn
  BY Zenon, IdleAccounts DEF EvictSeat
<1>2. market.free[t] \in Amounts
  BY Zenon, <1>1 DEF Market, Balances, Amounts
<1>3. out \in Amounts /\ \A a \in Asset : out[a] <= market.free[t][a]
  BY Zenon, <1>1, <1>2, ClaimableWithin
<1>4. /\ market' = e /\ txn' = txn /\ PayOut(t, out) /\ t \in market.registered
      /\ HoldsNothing(m, t) /\ treasury' = treasury
  BY Zenon DEF EvictSeat
<1> HIDE DEF out
<1>5. /\ m \in Market /\ AccountsOK(m)
      /\ m.unclaimed = market.unclaimed /\ m.locked = market.locked
      /\ \A u \in Trader \ {t} : m.free[u] = market.free[u]
      /\ \A a \in Asset : Owed(market, a) \in Int /\ Owed(m, a) = Owed(market, a) - out[a]
  BY <1>1, <1>3, <1>4, DebitAccounts
<1> HIDE DEF m
<1>6. /\ AccountsOK(e)
      /\ \A a \in Asset : Owed(m, a) \in Int /\ Owed(e, a) = Owed(m, a)
  BY Zenon, <1>4, <1>5, RemoveTraderAccounts
<1>7. e.unclaimed = m.unclaimed /\ e.locked = m.locked /\ e.free = m.free
  BY Zenon, <1>5 DEF Market
<1> HIDE DEF e
<1>8. VaultsFollow /\ OwnTokens(t)
  BY Zenon, <1>3, <1>4, <1>5, <1>6, PaidOut
<1>9. OwnLots(t)
  BY Zenon, <1>4, <1>5, <1>7 DEF OwnLots, Holding
<1>10. QED
  BY Zenon, <1>1, <1>4, <1>6, <1>8, <1>9, TxnEnds

\* Approving a seat registers a trader with nothing.
LEMMA SeatsChangeAccounts ==
  ASSUME IndInv, AccInv, NEW t \in Trader, NEW new \in SeatStatus,
         RequestSeat(t) \/ ChangeSeatStatus(t, new)
  PROVE  AccInv' /\ VaultsFollow
<1>1. market \in Market /\ AccountsOK(market) /\ txn = NoTxn
  BY Zenon, IdleAccounts DEF RequestSeat, ChangeSeatStatus
<1>2. /\ vault' = vault /\ txn' = txn
      /\ market' = market \/ market' = get_or_register_trader(market, t)
  BY Zenon DEF RequestSeat, ChangeSeatStatus
<1>3. AccountsOK(market') /\ \A a \in Asset : Owed(market', a) = Owed(market, a)
  BY <1>1, <1>2, RegisterAccounts
<1>4. VaultsFollow
  BY Zenon, <1>2, <1>3 DEF VaultsFollow
<1>5. QED
  BY Zenon, <1>1, <1>2, <1>3, <1>4, TxnEnds

\* Collected fees leave the market and its vault.
LEMMA CollectFeesAccounts ==
  ASSUME IndInv, AccInv, CollectFees
  PROVE  AccInv' /\ VaultsFollow
<1>1. market \in Market /\ AccountsOK(market) /\ txn = NoTxn
  BY Zenon, IdleAccounts DEF CollectFees
<1>2. /\ market' = collect_fees(market) /\ txn' = txn
      /\ vault' = [vault EXCEPT !["quote"] = @ - market.unclaimed]
  BY Zenon DEF CollectFees
<1>3. IndInv'
  BY Zenon, CollectFeesOK
<1>4. market' \in Market
  BY Zenon, <1>3 DEF IndInv, TypeOK
<1> DEFINE e == - market.unclaimed
<1>5. market.unclaimed \in Int /\ e \in Int
  BY <1>1 DEF Market
<1>6. /\ market'.book = market.book /\ market'.registered = market.registered
      /\ market'.free = market.free /\ market'.locked = market.locked
      /\ market'.unclaimed = 0
  BY Zenon, <1>1, <1>2 DEF collect_fees, Market
<1>7. market'.unclaimed = market.unclaimed + e /\ market'.unclaimed >= 0
  BY <1>5, <1>6
<1> HIDE DEF e
<1>8. /\ AccountsOK(market')
      /\ \A a \in Asset : /\ Owed(market, a) \in Int
                          /\ Owed(market', a) = Owed(market, a)
                               + (IF a = "quote" THEN e ELSE 0)
  BY Zenon, <1>1, <1>4, <1>5, <1>6, <1>7, FeeAccounts
<1>9. vault \in Amounts
  BY Zenon DEF IndInv, TypeOK
<1>10. \A a \in Asset : vault[a] \in Int
         /\ vault'[a] = vault[a] + (IF a = "quote" THEN e ELSE 0)
  BY <1>2, <1>5, <1>9 DEF e, Amounts
<1>11. VaultsFollow
  BY <1>5, <1>8, <1>10 DEF VaultsFollow
<1>12. QED
  BY Zenon, <1>1, <1>2, <1>8, <1>11, TxnEnds

\* ChangeMarketStatus and the clock move nothing.
LEMMA StatusAndSlotAccounts ==
  ASSUME IndInv, AccInv, NextSlot \/ \E new \in StatusRequests : ChangeMarketStatus(new)
  PROVE  AccInv' /\ VaultsFollow
<1>1. Idle /\ market' = market /\ vault' = vault /\ txn' = txn
  BY Zenon DEF NextSlot, ChangeMarketStatus
<1>2. market \in Market /\ AccountsOK(market) /\ txn = NoTxn
  BY Zenon, <1>1, IdleAccounts
<1>3. QED
  BY Zenon, <1>1, <1>2, TxnEnds, NothingFlows

----------------------------------------------------------------------------
(* The invariant of the accounts, and what follows from it.                *)

\* The loops over the book work on a copy: no tokens move.
LEMMA LoopsMoveNothing ==
  ASSUME \/ CrossExpiredOrder \/ CrossLiveOrder \/ CrossNothing
         \/ MatchExpiredOrder
         \/ SelfTradeAbort \/ SelfTradeCancelProvide \/ SelfTradeDecrementTake
         \/ MatchOrder \/ MatchDone
  PROVE  VaultsFollow
<1>1. market' = market /\ vault' = vault
  BY Zenon DEF CrossExpiredOrder, CrossLiveOrder, CrossNothing, MatchExpiredOrder,
    SelfTradeAbort, SelfTradeCancelProvide, SelfTradeDecrementTake, MatchOrder,
    MatchDone, Working
<1>2. QED
  BY Zenon, <1>1, NothingFlows

\* Every step of every instruction keeps the accounts in order, and changes
\* the vaults by what it changes the market's debts by.
LEMMA NextAccounts ==
  ASSUME IndInv, AccInv, Next
  PROVE  AccInv' /\ VaultsFollow
<1>1. CASE TxnStep
  <2>1. CASE PlaceOrder
    BY Zenon, <2>1, PlaceOrderAccounts
  <2>2. CASE CancelStep \/ CancelDone
    BY Zenon, <2>2, CancelStepAccounts, CancelDoneAccounts
  <2>3. CASE CrossExpiredOrder \/ CrossLiveOrder \/ CrossNothing
    BY Zenon, <2>3, CrossAccounts, LoopsMoveNothing
  <2>4. CASE \/ MatchExpiredOrder \/ SelfTradeAbort \/ SelfTradeCancelProvide
             \/ SelfTradeDecrementTake
    BY Zenon, <2>4, MatchRemovesAccounts, LoopsMoveNothing
  <2>5. CASE MatchOrder \/ MatchDone
    BY Zenon, <2>5, MatchOrderAccounts, MatchDoneAccounts, LoopsMoveNothing
  <2>6. QED
    BY Zenon, <1>1, <2>1, <2>2, <2>3, <2>4, <2>5 DEF TxnStep, OrderStep
<1>2. CASE TraderNext
  <2>1. PICK t \in Trader :
          \/ \E p \in Packets : NewOrder(t, p)
          \/ \E lots \in Transfers : DepositFunds(t, lots) \/ WithdrawFunds(t, lots)
          \/ RequestSeat(t)
          \/ \E claim \in Claims :
               \/ CancelAllOrders(t, claim)
               \/ \E ids \in SUBSET BookIds : CancelMultipleOrdersById(t, ids, claim)
               \/ \E side \in Side :
                    \/ \E lim \in UpToLimits : CancelUpTo(t, side, lim, claim)
                    \/ \E o \in market.book[side], n \in ReduceSizes :
                         ReduceOrder(t, side, o, n, claim)
    BY Zenon, <1>2 DEF TraderNext
  <2>2. CASE \E p \in Packets : NewOrder(t, p)
    BY Zenon, <2>2, NewOrderAccounts
  <2>3. CASE \E lots \in Transfers : DepositFunds(t, lots) \/ WithdrawFunds(t, lots)
    BY Zenon, <2>3, DepositFundsAccounts, WithdrawFundsAccounts
  <2>4. CASE RequestSeat(t)
    <3>1. "Retired" \in SeatStatus
      BY Zenon DEF SeatStatus
    <3>2. QED
      BY Zenon, <2>4, <3>1, SeatsChangeAccounts
  <2>5. ASSUME NEW claim \in Claims, CancelAllOrders(t, claim)
        PROVE  AccInv' /\ VaultsFollow
    <3>1. claim \in BOOLEAN /\ "Bid" \in Side /\ {} \in SUBSET BookIds
      BY Zenon, InputAssumption DEF Side
    <3>2. QED
      BY Zenon, <2>5, <3>1, CancelStartsAccounts
  <2>6. ASSUME NEW claim \in Claims, NEW ids \in SUBSET BookIds,
               CancelMultipleOrdersById(t, ids, claim)
        PROVE  AccInv' /\ VaultsFollow
    <3>1. claim \in BOOLEAN /\ "Bid" \in Side
      BY Zenon, InputAssumption DEF Side
    <3>2. QED
      BY Zenon, <2>6, <3>1, CancelStartsAccounts
  <2>7. ASSUME NEW claim \in Claims, NEW side \in Side, NEW lim \in UpToLimits,
               CancelUpTo(t, side, lim, claim)
        PROVE  AccInv' /\ VaultsFollow
    <3>1. claim \in BOOLEAN /\ {} \in SUBSET BookIds
      BY Zenon, InputAssumption
    <3>2. QED
      BY Zenon, <2>7, <3>1, CancelStartsAccounts
  <2>8. ASSUME NEW claim \in Claims, NEW side \in Side,
               NEW o \in market.book[side], NEW n \in ReduceSizes,
               ReduceOrder(t, side, o, n, claim)
        PROVE  AccInv' /\ VaultsFollow
    <3>1. claim \in BOOLEAN
      BY Zenon, InputAssumption
    <3>2. QED
      BY Zenon, <2>8, <3>1, ReduceOrderAccounts
  <2>9. QED
    BY Zenon, <2>1, <2>2, <2>3, <2>4, <2>5, <2>6, <2>7, <2>8
<1>3. CASE AuthorityNext
  <2>1. CASE \E new \in StatusRequests : ChangeMarketStatus(new)
    BY Zenon, <2>1, StatusAndSlotAccounts
  <2>2. ASSUME NEW t \in Trader, EvictSeat(t)
        PROVE  AccInv' /\ VaultsFollow
    BY Zenon, <2>2, EvictSeatAccounts
  <2>3. ASSUME NEW t \in Trader, NEW new \in SeatRequests, ChangeSeatStatus(t, new)
        PROVE  AccInv' /\ VaultsFollow
    <3>1. new \in SeatStatus
      BY Zenon, InputAssumption
    <3>2. QED
      BY Zenon, <2>3, <3>1, SeatsChangeAccounts
  <2>4. ASSUME NEW t \in Trader, NEW side \in Side, NEW lim \in UpToLimits,
               ForceCancelOrders(t, side, lim)
        PROVE  AccInv' /\ VaultsFollow
    <3>1. TRUE \in BOOLEAN /\ {} \in SUBSET BookIds
      BY Zenon
    <3>2. QED
      BY Zenon, <2>4, <3>1, CancelStartsAccounts
  <2>5. CASE CollectFees
    BY Zenon, <2>5, CollectFeesAccounts
  <2>6. QED
    BY Zenon, <1>3, <2>1, <2>2, <2>3, <2>4, <2>5 DEF AuthorityNext
<1>4. CASE NextSlot
  BY Zenon, <1>4, StatusAndSlotAccounts
<1>5. QED
  BY Zenon, <1>1, <1>2, <1>3, <1>4 DEF Next

\* Nothing but a trader's own cancellations, deposits, withdrawals and
\* eviction, and an order that is written back, moves tokens or lots.
LEMMA NextMoves ==
  ASSUME IndInv, AccInv, Next
  PROVE  \/ NobodysAccounts
         \/ \E t \in Trader : OwnTokens(t) /\ OwnLots(t)
         \/ PlaceOrder
<1> DEFINE Moves == NobodysAccounts \/ \E t \in Trader : OwnTokens(t) /\ OwnLots(t)
<1>1. ASSUME wallet' = wallet, treasury' = treasury, market' = market PROVE Moves
  BY Zenon, <1>1, NobodysWhen
<1>2. ASSUME NEW t \in Trader, Idle, wallet' = wallet, treasury' = treasury,
             market' = get_or_register_trader(market, t)
      PROVE  Moves
  <2>1. market \in Market /\ AccountsOK(market)
    BY Zenon, <1>2, IdleAccounts
  <2>2. /\ market'.free = market.free /\ market'.locked = market.locked
        /\ market'.unclaimed = market.unclaimed
    BY Zenon, <1>2, <2>1, RegisterAccounts
  <2>3. QED
    BY Zenon, <1>2, <2>2, NobodysWhen
<1>3. ASSUME NEW t \in Trader, OwnTokens(t), OwnLots(t) PROVE Moves
  BY Zenon, <1>3
<1>4. CASE TxnStep
  <2>1. CASE CancelDone
    <3>1. txn.phase = "cancel"
      BY Zenon, <2>1 DEF CancelDone
    <3>2. txn.who \in Trader
      BY Zenon, <3>1, CancelFacts DEF CancelTxn
    <3>3. QED
      BY Zenon, <2>1, <3>2, CancelDoneAccounts
  <2>2. CASE \/ CrossExpiredOrder \/ CrossLiveOrder \/ CrossNothing
             \/ MatchExpiredOrder
             \/ SelfTradeAbort \/ SelfTradeCancelProvide \/ SelfTradeDecrementTake
             \/ MatchOrder \/ MatchDone \/ CancelStep
    <3>1. wallet' = wallet /\ treasury' = treasury /\ market' = market
      BY Zenon, <2>2 DEF CrossExpiredOrder, CrossLiveOrder, CrossNothing,
        MatchExpiredOrder, SelfTradeAbort, SelfTradeCancelProvide,
        SelfTradeDecrementTake, MatchOrder, MatchDone, CancelStep, Working
    <3>2. QED
      BY Zenon, <1>1, <3>1
  <2>3. QED
    BY Zenon, <1>4, <2>1, <2>2 DEF TxnStep, OrderStep
<1>5. CASE TraderNext
  <2>1. PICK t \in Trader :
          \/ \E p \in Packets : NewOrder(t, p)
          \/ \E lots \in Transfers : DepositFunds(t, lots) \/ WithdrawFunds(t, lots)
          \/ RequestSeat(t)
          \/ \E claim \in Claims :
               \/ CancelAllOrders(t, claim)
               \/ \E ids \in SUBSET BookIds : CancelMultipleOrdersById(t, ids, claim)
               \/ \E side \in Side :
                    \/ \E lim \in UpToLimits : CancelUpTo(t, side, lim, claim)
                    \/ \E o \in market.book[side], n \in ReduceSizes :
                         ReduceOrder(t, side, o, n, claim)
    BY Zenon, <1>5 DEF TraderNext
  <2>2. ASSUME NEW p \in Packets, NewOrder(t, p) PROVE Moves
    <3>1. /\ Idle /\ wallet' = wallet /\ treasury' = treasury
          /\ market' = market \/ market' = get_or_register_trader(market, t)
      BY Zenon, <2>2 DEF NewOrder
    <3>2. QED
      BY Zenon, <1>1, <1>2, <3>1
  <2>3. CASE \E lots \in Transfers : DepositFunds(t, lots) \/ WithdrawFunds(t, lots)
    BY Zenon, <1>3, <2>3, DepositFundsAccounts, WithdrawFundsAccounts
  <2>4. ASSUME NEW claim \in Claims, NEW side \in Side,
               NEW o \in market.book[side], NEW n \in ReduceSizes,
               ReduceOrder(t, side, o, n, claim)
        PROVE  Moves
    <3>1. claim \in BOOLEAN
      BY Zenon, InputAssumption
    <3>2. QED
      BY Zenon, <1>3, <2>4, <3>1, ReduceOrderAccounts
  <2>5. ASSUME \/ RequestSeat(t)
               \/ \E claim \in Claims :
                    \/ CancelAllOrders(t, claim)
                    \/ \E ids \in SUBSET BookIds : CancelMultipleOrdersById(t, ids, claim)
                    \/ \E side \in Side : \E lim \in UpToLimits :
                         CancelUpTo(t, side, lim, claim)
        PROVE  Moves
    <3>1. wallet' = wallet /\ treasury' = treasury /\ market' = market
      BY Zenon, <2>5 DEF RequestSeat, CancelAllOrders, CancelMultipleOrdersById,
         CancelUpTo, StartCancel
    <3>2. QED
      BY Zenon, <1>1, <3>1
  <2>6. QED
    BY Zenon, <2>1, <2>2, <2>3, <2>4, <2>5
<1>6. CASE AuthorityNext
  <2>1. ASSUME NEW t \in Trader, EvictSeat(t) PROVE Moves
    BY Zenon, <1>3, <2>1, EvictSeatAccounts
  <2>2. ASSUME NEW t \in Trader, NEW new \in SeatRequests, ChangeSeatStatus(t, new)
        PROVE  Moves
    <3>1. /\ Idle /\ wallet' = wallet /\ treasury' = treasury
          /\ market' = market \/ market' = get_or_register_trader(market, t)
      BY Zenon, <2>2 DEF ChangeSeatStatus
    <3>2. QED
      BY Zenon, <1>1, <1>2, <3>1
  <2>3. ASSUME \/ \E new \in StatusRequests : ChangeMarketStatus(new)
               \/ \E t \in Trader : \E side \in Side, lim \in UpToLimits :
                    ForceCancelOrders(t, side, lim)
        PROVE  Moves
    <3>1. wallet' = wallet /\ treasury' = treasury /\ market' = market
      BY Zenon, <2>3 DEF ChangeMarketStatus, ForceCancelOrders, StartCancel
    <3>2. QED
      BY Zenon, <1>1, <3>1
  <2>4. CASE CollectFees
    <3>1. market \in Market /\ treasury \in Int
      BY Zenon DEF IndInv, TypeOK
    <3>2. /\ market' = collect_fees(market) /\ wallet' = wallet
          /\ treasury' = treasury + market.unclaimed
      BY Zenon, <2>4 DEF CollectFees
    <3>3. /\ market'.free = market.free /\ market'.locked = market.locked
          /\ market'.unclaimed = 0 /\ market.unclaimed \in Int
      BY Zenon, <3>1, <3>2 DEF collect_fees, Market
    <3>4. market'.unclaimed + treasury' = market.unclaimed + treasury
      BY <3>1, <3>2, <3>3
    <3>5. QED
      BY Zenon, <3>2, <3>3, <3>4 DEF NobodysAccounts, Holding
  <2>5. QED
    BY Zenon, <1>6, <2>1, <2>2, <2>3, <2>4 DEF AuthorityNext
<1>7. CASE NextSlot
  <2>1. wallet' = wallet /\ treasury' = treasury /\ market' = market
    BY Zenon, <1>7 DEF NextSlot
  <2>2. QED
    BY Zenon, <1>1, <2>1
<1>8. QED
  BY Zenon, <1>4, <1>5, <1>6, <1>7 DEF Next

\* A market without orders and lots owes nothing.
LEMMA EmptyAccounts ==
  ASSUME NEW m \in Market, m.unclaimed = 0, \A s \in Side : m.book[s] = {},
         m.free = [t \in Trader |-> NoLots], m.locked = [t \in Trader |-> NoLots]
  PROVE  AccountsOK(m) /\ \A a \in Asset : Owed(m, a) = 0
<1>1. \A t \in Trader, a \in Asset : m.free[t][a] = 0 /\ m.locked[t][a] = 0
  BY DEF NoLots
<1>2. ASSUME NEW t \in Trader, NEW a \in Asset
      PROVE  LockedByOrders(m, t, a) = 0
  <2> DEFINE side == IF a = "quote" THEN "Bid" ELSE "Ask"
  <2>1. side \in Side
    BY Zenon DEF Side
  <2> HIDE DEF side
  <2>2. {o \in m.book[side] : o.trader = t} = {}
    BY Zenon, <2>1
  <2>3. LockedByOrders(m, t, a) = OrderLots(side, {o \in m.book[side] : o.trader = t})
    BY Zenon DEF LockedByOrders, side
  <2>4. QED
    BY Zenon, <2>2, <2>3, OrderLotsEmpty
<1>3. IsFiniteSet({})
  BY Zenon, FS_EmptySet
<1>4. AccountsOK(m)
  BY <1>1, <1>2, <1>3 DEF AccountsOK
<1>5. ASSUME NEW a \in Asset
      PROVE  Owed(m, a) = 0
  <2> DEFINE f == [t \in Trader |-> Holding(m, t, a)]
  <2>1. \A t \in Trader : f[t] = 0
    BY <1>1 DEF Holding
  <2> HIDE DEF f
  <2>2. SumFunctionOnSet(f, Trader) = 0
    BY Zenon, <2>1, SumZero, TraderAssumption
  <2>3. Owed(m, a) = SumFunctionOnSet(f, Trader) + (IF a = "quote" THEN m.unclaimed ELSE 0)
    BY Zenon DEF Owed, f
  <2>4. QED
    BY <2>2, <2>3
<1>6. QED
  BY Zenon, <1>4, <1>5

\* A fresh market owes nothing and has nothing.
LEMMA InitAccounts == Init => AccInv /\ VaultsBackClaims
<1> SUFFICES ASSUME Init PROVE AccInv /\ VaultsBackClaims
  BY Zenon
<1>1. market \in Market
  BY Zenon, InitOK DEF IndInv, TypeOK
<1>2. /\ market.unclaimed = 0 /\ \A s \in Side : market.book[s] = {}
      /\ market.free = [t \in Trader |-> NoLots]
      /\ market.locked = [t \in Trader |-> NoLots]
  BY Zenon DEF Init, EmptyMarket
<1>3. AccountsOK(market) /\ \A a \in Asset : Owed(market, a) = 0
  BY Zenon, <1>1, <1>2, EmptyAccounts
<1>4. \A a \in Asset : vault[a] = 0
  BY Zenon DEF Init, NoLots
<1>5. txn = NoTxn /\ txn.phase = "idle"
  BY Zenon DEF Init, NoTxn
<1>6. QED
  BY Zenon, <1>3, <1>4, <1>5 DEF AccInv, VaultsBackClaims

\* The accounts of a market are in order at every step of every instruction.
THEOREM AccountsInvariance == Spec => []AccInv
<1>1. IndInv /\ AccInv /\ [Next]_vars => AccInv'
  BY Zenon, NextAccounts, StutterAccounts
<1>2. Init => AccInv
  BY Zenon, InitAccounts
<1>3. QED
  BY <1>1, <1>2, Invariance, PTL DEF Spec

\* When vaults and debts change by the same lots, the vaults go on holding
\* what the market owes.
LEMMA VaultsKeepBacking ==
  ASSUME IndInv, AccInv, VaultsBackClaims, IndInv', AccInv', VaultsFollow
  PROVE  VaultsBackClaims'
<1>1. /\ market \in Market /\ vault \in Amounts /\ AccountsOK(market)
      /\ market' \in Market /\ vault' \in Amounts /\ AccountsOK(market')
  BY Zenon DEF IndInv, TypeOK, AccInv
<1>2. \A a \in Asset : Owed(market', a) \in Int /\ Owed(market, a) \in Int
  BY <1>1, AccountsNat
<1>3. \A a \in Asset : vault'[a] \in Int /\ vault[a] \in Int
  BY Zenon, <1>1 DEF Amounts
<1>4. \A a \in Asset : vault'[a] - Owed(market', a) = vault[a] - Owed(market, a)
  BY Zenon DEF VaultsFollow
<1>5. \A a \in Asset : vault[a] = Owed(market, a)
  BY Zenon DEF VaultsBackClaims
<1>6. \A a \in Asset : vault'[a] = Owed(market', a)
  BY <1>2, <1>3, <1>4, <1>5
<1>7. QED
  BY Zenon, <1>6 DEF VaultsBackClaims

\* Whatever trades, cancellations, expiries, evictions and seat changes a
\* market goes through, its vaults hold exactly what it owes.
THEOREM VaultsAlwaysBack == Spec => []VaultsBackClaims
<1>1. ASSUME IndInv, AccInv, VaultsBackClaims, IndInv', [Next]_vars
      PROVE  VaultsBackClaims'
  <2>1. CASE Next
    BY Zenon, <1>1, <2>1, NextAccounts, VaultsKeepBacking
  <2>2. CASE UNCHANGED vars
    BY Zenon, <1>1, <2>2 DEF vars, VaultsBackClaims
  <2>3. QED
    BY Zenon, <1>1, <2>1, <2>2
<1>2. IndInv /\ AccInv /\ VaultsBackClaims /\ IndInv' /\ [Next]_vars => VaultsBackClaims'
  BY Zenon, <1>1
<1>3. Init => VaultsBackClaims
  BY Zenon, InitAccounts
<1>4. QED
  BY <1>2, <1>3, Invariance, AccountsInvariance, PTL DEF Spec

\* The steps of an instruction do not change the status of the market.
LEMMA TxnStepsKeepStatus ==
  ASSUME TxnStep
  PROVE  txn # NoTxn /\ status' = status
<1>1. /\ txn.phase \in {"cross", "match", "place", "cancel"}
      /\ status' = status
  BY Zenon DEF TxnStep, OrderStep, CrossExpiredOrder, CrossLiveOrder, CrossNothing,
    MatchExpiredOrder, SelfTradeAbort, SelfTradeCancelProvide, SelfTradeDecrementTake,
    MatchOrder, MatchDone, PlaceOrder, Abort, CancelStep, CancelDone, Working
<1>2. NoTxn.phase = "idle"
  BY Zenon DEF NoTxn
<1>3. QED
  BY Zenon, <1>1, <1>2

\* No instruction begins on a removed market, and only ChangeMarketStatus
\* changes the status.
LEMMA InstructionsNeedMarket ==
  ASSUME TraderNext \/ AuthorityNext \/ NextSlot,
         ~ \E new \in StatusRequests : ChangeMarketStatus(new)
  PROVE  status # "Tombstoned" /\ status' = status
<1>1. CASE NextSlot
  BY Zenon, <1>1 DEF NextSlot, Idle
<1>2. CASE AuthorityNext
  BY Zenon, <1>2 DEF AuthorityNext, EvictSeat, ChangeSeatStatus, ForceCancelOrders,
    StartCancel, CollectFees, Idle
<1>3. CASE TraderNext
  <2>1. PICK t \in Trader :
          \/ \E p \in Packets : NewOrder(t, p)
          \/ \E lots \in Transfers : DepositFunds(t, lots) \/ WithdrawFunds(t, lots)
          \/ RequestSeat(t)
          \/ \E claim \in Claims :
               \/ CancelAllOrders(t, claim)
               \/ \E ids \in SUBSET BookIds : CancelMultipleOrdersById(t, ids, claim)
               \/ \E side \in Side :
                    \/ \E lim \in UpToLimits : CancelUpTo(t, side, lim, claim)
                    \/ \E o \in market.book[side], n \in ReduceSizes :
                         ReduceOrder(t, side, o, n, claim)
    BY Zenon, <1>3 DEF TraderNext
  <2>2. CASE \E p \in Packets : NewOrder(t, p)
    BY Zenon, <2>2 DEF NewOrder, Idle
  <2>3. CASE \E lots \in Transfers : DepositFunds(t, lots) \/ WithdrawFunds(t, lots)
    BY Zenon, <2>3 DEF DepositFunds, WithdrawFunds, Idle
  <2>4. CASE RequestSeat(t)
    BY Zenon, <2>4 DEF RequestSeat, Idle
  <2>5. ASSUME NEW claim, CancelAllOrders(t, claim)
        PROVE  status # "Tombstoned" /\ status' = status
    BY Zenon, <2>5 DEF CancelAllOrders, StartCancel, Idle
  <2>6. ASSUME NEW claim, NEW ids, CancelMultipleOrdersById(t, ids, claim)
        PROVE  status # "Tombstoned" /\ status' = status
    BY Zenon, <2>6 DEF CancelMultipleOrdersById, StartCancel, Idle
  <2>7. ASSUME NEW claim, NEW side, NEW lim, CancelUpTo(t, side, lim, claim)
        PROVE  status # "Tombstoned" /\ status' = status
    BY Zenon, <2>7 DEF CancelUpTo, StartCancel, Idle
  <2>8. ASSUME NEW claim, NEW side, NEW o, NEW n, ReduceOrder(t, side, o, n, claim)
        PROVE  status # "Tombstoned" /\ status' = status
    BY Zenon, <2>8 DEF ReduceOrder, Idle
  <2>9. QED
    BY Zenon, <2>1, <2>2, <2>3, <2>4, <2>5, <2>6, <2>7, <2>8
<1>4. QED
  BY Zenon, <1>1, <1>2, <1>3

\* An instruction begins when none is in progress.
LEMMA InstructionsStartIdle ==
  ASSUME TraderNext \/ AuthorityNext \/ NextSlot
  PROVE  txn = NoTxn
<1>1. CASE NextSlot
  BY Zenon, <1>1 DEF NextSlot, Idle
<1>2. CASE AuthorityNext
  BY Zenon, <1>2 DEF AuthorityNext, EvictSeat, ChangeSeatStatus, ForceCancelOrders,
    CollectFees, ChangeMarketStatus, Idle
<1>3. CASE TraderNext
  <2>1. PICK t \in Trader :
          \/ \E p \in Packets : NewOrder(t, p)
          \/ \E lots \in Transfers : DepositFunds(t, lots) \/ WithdrawFunds(t, lots)
          \/ RequestSeat(t)
          \/ \E claim \in Claims :
               \/ CancelAllOrders(t, claim)
               \/ \E ids \in SUBSET BookIds : CancelMultipleOrdersById(t, ids, claim)
               \/ \E side \in Side :
                    \/ \E lim \in UpToLimits : CancelUpTo(t, side, lim, claim)
                    \/ \E o \in market.book[side], n \in ReduceSizes :
                         ReduceOrder(t, side, o, n, claim)
    BY Zenon, <1>3 DEF TraderNext
  <2>2. CASE \E p \in Packets : NewOrder(t, p)
    BY Zenon, <2>2 DEF NewOrder, Idle
  <2>3. CASE \E lots \in Transfers : DepositFunds(t, lots) \/ WithdrawFunds(t, lots)
    BY Zenon, <2>3 DEF DepositFunds, WithdrawFunds, Idle
  <2>4. CASE RequestSeat(t)
    BY Zenon, <2>4 DEF RequestSeat, Idle
  <2>5. ASSUME NEW claim, CancelAllOrders(t, claim)
        PROVE  txn = NoTxn
    BY Zenon, <2>5 DEF CancelAllOrders, Idle
  <2>6. ASSUME NEW claim, NEW ids, CancelMultipleOrdersById(t, ids, claim)
        PROVE  txn = NoTxn
    BY Zenon, <2>6 DEF CancelMultipleOrdersById, Idle
  <2>7. ASSUME NEW claim, NEW side, NEW lim, CancelUpTo(t, side, lim, claim)
        PROVE  txn = NoTxn
    BY Zenon, <2>7 DEF CancelUpTo, Idle
  <2>8. ASSUME NEW claim, NEW side, NEW o, NEW n, ReduceOrder(t, side, o, n, claim)
        PROVE  txn = NoTxn
    BY Zenon, <2>8 DEF ReduceOrder, Idle
  <2>9. QED
    BY Zenon, <2>1, <2>2, <2>3, <2>4, <2>5, <2>6, <2>7, <2>8
<1>4. QED
  BY Zenon, <1>1, <1>2, <1>3

\* A trader's locked lots are exactly what its resting orders lock: the lots
\* that fills and reductions unlock, recomputed from price and size, add up.
THEOREM LocksAreExact == Spec => []LockedMatchesBook
<1>1. AccInv => LockedMatchesBook
  BY Zenon DEF AccInv, LockedMatchesBook, Markets, AccountsOK
<1>2. QED
  BY <1>1, AccountsInvariance, PTL

\* No order is left with a trader that the account does not know.
THEOREM OwnersAlwaysRegistered == Spec => []OwnersRegistered
<1>1. AccInv => OwnersRegistered
  BY Zenon DEF AccInv, OwnersRegistered, Markets, AccountsOK
<1>2. QED
  BY <1>1, AccountsInvariance, PTL

\* The engine never subtracts more than there is, whatever backs the vaults.
LEMMA EngineSubtractsWell ==
  ASSUME IndInv, AccInv, \A a \in Asset : vault[a] >= 0
  PROVE  NoUnderflow
<1>1. \A m \in Markets : m \in Market /\ AccountsOK(m)
  <2>1. market \in Market /\ (txn # NoTxn => txn.m \in Market)
    BY Zenon DEF IndInv, TypeOK, MarketOK
  <2>2. AccountsOK(market) /\ (txn # NoTxn => AccountsOK(txn.m))
    BY Zenon DEF AccInv
  <2>3. QED
    BY Zenon, <2>1, <2>2 DEF Markets
<1>2. \A m \in Markets, t \in Trader, a \in Asset :
        m.free[t][a] >= 0 /\ m.locked[t][a] >= 0
  <2> TAKE m \in Markets, t \in Trader, a \in Asset
  <2>1. m.free[t][a] \in Nat /\ m.locked[t][a] \in Nat
    BY Zenon, <1>1, AccountsNat
  <2>2. QED
    BY <2>1
<1>3. txn.phase = "match" => txn.base >= 0 /\ txn.adj >= 0 /\ txn.limit >= 0
  BY Zenon DEF AccInv, OrderAccounts
<1>4. ASSUME txn.phase = "place"
      PROVE  MatchedQuote >= 0
  <2>1. MatchedQuote \in Nat
    BY Zenon, <1>4, MatchedNat
  <2>2. QED
    BY <2>1
<1>5. QED
  BY Zenon, <1>2, <1>3, <1>4 DEF NoUnderflow

\* No checked subtraction of the engine or of the token program underflows.
THEOREM NothingUnderflows == Spec => []NoUnderflow
<1>1. ASSUME IndInv, AccInv, VaultsBackClaims
      PROVE  NoUnderflow
  <2>1. market \in Market /\ AccountsOK(market)
    BY Zenon, <1>1 DEF IndInv, TypeOK, AccInv
  <2>2. \A a \in Asset : Owed(market, a) \in Nat
    BY Zenon, <2>1, AccountsNat
  <2>3. \A a \in Asset : vault[a] >= 0
    BY <1>1, <2>2 DEF VaultsBackClaims
  <2>4. QED
    BY Zenon, <1>1, <2>3, EngineSubtractsWell
<1>2. IndInv /\ AccInv /\ VaultsBackClaims => NoUnderflow
  BY Zenon, <1>1
<1>3. QED
  BY <1>2, Invariance, AccountsInvariance, VaultsAlwaysBack, PTL

\* Fees included, a taker stays within the budgets of its order, whatever
\* the fee rounds to: the budget that the engine matches against is reduced,
\* or for sells raised, by a rounded fee of its own.
THEOREM BudgetsAreRespected == Spec => []BudgetRespected
<1>1. ASSUME IndInv, AccInv, txn.phase = "place"
      PROVE  /\ txn.p.type = "IOC" /\ txn.p.quote # 0 => MatchedQuote <= txn.p.quote
             /\ txn.p.base # 0 => txn.matchedBase <= txn.p.base
  <2> DEFINE p == txn.p
             adj == txn.matchedAdj
  <2>1. /\ OrderAccounts /\ p \in Packet /\ p.side \in Side
        /\ txn.base \in Nat /\ txn.adj \in Nat
        /\ txn.matchedBase \in Nat /\ adj \in Nat
    BY Zenon, <1>1, OrderAccountsFacts
  <2>2. /\ (adj % BaseLotsPerBaseUnit) = 0
        /\ txn.matchedBase + txn.base <= base_lot_budget(p)
        /\ adj + txn.adj <= adjusted_quote_lot_budget(p)
        /\ ~ DividesByZero(p)
    BY Zenon, <2>1 DEF OrderAccounts
  <2>3. p.base \in Nat /\ p.quote \in Nat
    BY Zenon, <2>1 DEF Packet
  <2>4. ASSUME p.base # 0
        PROVE  txn.matchedBase <= p.base
    BY <2>1, <2>2, <2>3, <2>4 DEF base_lot_budget
  <2>5. ASSUME p.type = "IOC", p.quote # 0
        PROVE  MatchedQuote <= p.quote
    <3>1. PICK k \in Nat :
            /\ adj = BaseLotsPerBaseUnit * k
            /\ RoundUp(adj) \div BaseLotsPerBaseUnit = k
            /\ RoundDown(adj) \div BaseLotsPerBaseUnit = k
            /\ FeeOn(adj) \in Nat /\ FeeOn(adj) <= k
      BY Zenon, <2>1, <2>2, MatchedQuoteIs
    <3>2. adjusted_quote_lot_budget(p) \in Nat
      BY Zenon, <2>1, <2>2, BudgetNat
    <3>3. adj <= adjusted_quote_lot_budget(p)
      BY <2>1, <2>2, <3>2
    <3>4. CASE p.side = "Bid"
      <4>1. adjusted_quote_lot_budget(p) = BudgetForBuys(p.quote * BaseLotsPerBaseUnit)
        BY Zenon, <2>5, <3>4 DEF adjusted_quote_lot_budget
      <4>2. BaseLotsPerBaseUnit * k <= BudgetForBuys(p.quote * BaseLotsPerBaseUnit)
        BY Zenon, <3>1, <3>3, <4>1
      <4>3. k + FeeOn(BaseLotsPerBaseUnit * k) <= p.quote
        BY Zenon, <2>3, <4>2, BuyBudget
      <4>4. MatchedQuote = k + FeeOn(adj)
        BY Zenon, <3>1, <3>4 DEF MatchedQuote
      <4>5. QED
        BY Zenon, <3>1, <4>3, <4>4
    <3>5. CASE p.side = "Ask"
      <4>1. adjusted_quote_lot_budget(p) = BudgetForSells(p.quote * BaseLotsPerBaseUnit)
        BY Zenon, <2>5, <3>5 DEF adjusted_quote_lot_budget
      <4>2. BaseLotsPerBaseUnit * k <= BudgetForSells(p.quote * BaseLotsPerBaseUnit)
        BY Zenon, <3>1, <3>3, <4>1
      <4>3. compute_fee(MaxU64) # MaxU64
        BY Zenon, <2>2, <2>5, <3>5 DEF DividesByZero
      <4>4. k - FeeOn(BaseLotsPerBaseUnit * k) <= p.quote
        BY Zenon, <2>3, <4>2, <4>3, SellBudget
      <4>5. MatchedQuote = k - FeeOn(adj)
        BY Zenon, <3>1, <3>5 DEF MatchedQuote
      <4>6. QED
        BY Zenon, <3>1, <4>4, <4>5
    <3>6. QED
      BY Zenon, <2>1, <3>4, <3>5 DEF Side
  <2>6. QED
    BY Zenon, <2>4, <2>5
<1>2. IndInv /\ AccInv => BudgetRespected
  BY Zenon, <1>1 DEF BudgetRespected
<1>3. QED
  BY <1>2, Invariance, AccountsInvariance, PTL

\* A removed market has been emptied before, and stays that way.
LEMMA RemovedStaysEmpty == Spec => []RemovedEmpty
<1>1. ASSUME IndInv, RemovedEmpty, [Next]_vars
      PROVE  RemovedEmpty'
  <2>1. CASE UNCHANGED vars
    BY Zenon, <1>1, <2>1 DEF vars, RemovedEmpty
  <2>2. CASE \E new \in StatusRequests : ChangeMarketStatus(new)
    <3>1. PICK new \in StatusRequests : ChangeMarketStatus(new)
      BY Zenon, <2>2
    <3>2. QED
      BY Zenon, <3>1 DEF ChangeMarketStatus, RemovedEmpty, Idle
  <2>3. CASE Next /\ ~ \E new \in StatusRequests : ChangeMarketStatus(new)
    <3>1. CASE TxnStep
      <4>1. txn # NoTxn /\ status' = status
        BY Zenon, <3>1, TxnStepsKeepStatus
      <4>2. QED
        BY Zenon, <1>1, <4>1 DEF RemovedEmpty
    <3>2. CASE ~ TxnStep
      <4>1. status # "Tombstoned" /\ status' = status
        BY Zenon, <2>3, <3>2, InstructionsNeedMarket DEF Next
      <4>2. QED
        BY Zenon, <4>1 DEF RemovedEmpty
    <3>3. QED
      BY Zenon, <3>1, <3>2
  <2>4. QED
    BY Zenon, <1>1, <2>1, <2>2, <2>3
<1>2. IndInv /\ RemovedEmpty /\ [Next]_vars => RemovedEmpty'
  BY Zenon, <1>1
<1>3. Init => RemovedEmpty
  BY Zenon, InputAssumption DEF Init, RemovedEmpty
<1>4. QED
  BY <1>2, <1>3, Invariance, PTL DEF Spec

\* A removed market leaves no tokens behind in its vaults: it has no traders,
\* so nobody holds lots, and no unclaimed fees.
THEOREM NothingIsStranded == Spec => []NothingStranded
<1>1. ASSUME IndInv, AccInv, VaultsBackClaims, RemovedEmpty
      PROVE  NothingStranded
  <2> SUFFICES ASSUME status = "Tombstoned" PROVE vault = NoLots
    BY Zenon DEF NothingStranded
  <2>1. market.registered = {} /\ market.unclaimed = 0
    BY Zenon, <1>1 DEF RemovedEmpty
  <2>2. market \in Market /\ AccountsOK(market) /\ vault \in Amounts
    BY Zenon, <1>1 DEF IndInv, TypeOK, AccInv
  <2>3. \A t \in Trader : market.free[t] = NoLots /\ market.locked[t] = NoLots
    BY Zenon, <2>1, <2>2, UnregisteredHoldNothing
  <2>4. \A s \in Side : market.book[s] = {}
    BY Zenon, <2>1, <2>2 DEF AccountsOK
  <2>5. /\ market.free = [t \in Trader |-> NoLots]
        /\ market.locked = [t \in Trader |-> NoLots]
    BY Zenon, <2>2, <2>3 DEF Market, Balances
  <2>6. \A a \in Asset : Owed(market, a) = 0
    BY Zenon, <2>1, <2>2, <2>4, <2>5, EmptyAccounts
  <2>7. QED
    BY Zenon, <1>1, <2>2, <2>6 DEF VaultsBackClaims, Amounts, NoLots
<1>2. IndInv /\ AccInv /\ VaultsBackClaims /\ RemovedEmpty => NothingStranded
  BY Zenon, <1>1
<1>3. QED
  BY <1>2, Invariance, AccountsInvariance, VaultsAlwaysBack, RemovedStaysEmpty, PTL

\* A cancellation gives the caller exactly what its orders locked, once, and
\* touches nobody else.
THEOREM CancelsSettleExactly == Spec => CancelSettlesExactly
<1> DEFINE Settles ==
      txn.phase = "cancel" /\ txn' = NoTxn =>
       /\ \A u \in Trader \ {txn.who} :
            /\ \A s \in Side : {o \in market'.book[s] : o.trader = u} = Own(u, s)
            /\ market'.free[u] = market.free[u]
            /\ market'.locked[u] = market.locked[u]
            /\ wallet'[u] = wallet[u]
       /\ \A a \in Asset :
            Change(txn.who, a) = wallet[txn.who][a] - wallet'[txn.who][a]
       /\ IF txn.claim THEN market'.free[txn.who] = market.free[txn.who]
                       ELSE wallet' = wallet
<1>1. ASSUME IndInv, AccInv, Next, txn.phase = "cancel", txn' = NoTxn
      PROVE  CancelDone
  <2>1. txn # NoTxn
    BY <1>1 DEF NoTxn
  <2>2. TxnStep
    BY Zenon, <1>1, <2>1, InstructionsStartIdle DEF Next
  <2>3. ~ OrderStep
    BY Zenon, <1>1 DEF OrderStep, CrossExpiredOrder, CrossLiveOrder, CrossNothing,
      MatchExpiredOrder, SelfTradeAbort, SelfTradeCancelProvide,
      SelfTradeDecrementTake, MatchOrder, MatchDone, PlaceOrder, Working
  <2>4. ~ CancelStep
    <3> SUFFICES ASSUME CancelStep PROVE FALSE
      BY Zenon
    <3>1. txn \in CancelTxn
      BY Zenon, <1>1, CancelFacts
    <3>2. PICK id \in txn.ids :
            LET side == from_order_sequence_number(id.seq)
                mine == {o \in txn.m.book[side] : Id(o) = id /\ o.trader = txn.who}
                next == [txn EXCEPT !.ids = @ \ {id}]
            IN \/ mine = {} /\ txn' = next
               \/ \E o \in mine :
                    LET r == ReduceAndClaim(txn.m, side, o, o.size, txn.claim)
                    IN txn' = [next EXCEPT
                         !.m = r.m,
                         !.out = [a \in Asset |-> @[a] + r.out[a]]]
      BY Zenon DEF CancelStep
    <3> DEFINE next == [txn EXCEPT !.ids = @ \ {id}]
    <3>3. DOMAIN next = DOMAIN txn /\ "m" \in DOMAIN txn
      BY Zenon, <3>1 DEF CancelTxn
    <3> HIDE DEF next
    <3>4. DOMAIN txn' = DOMAIN txn
      BY Zenon, <3>2, <3>3 DEF next
    <3>5. "m" \notin DOMAIN NoTxn
      BY Zenon DEF NoTxn
    <3>6. QED
      BY Zenon, <1>1, <3>3, <3>4, <3>5
  <2>5. QED
    BY Zenon, <2>2, <2>3, <2>4 DEF TxnStep
<1>2. ASSUME IndInv, AccInv, CancelDone
      PROVE  Settles
  <2> DEFINE t == txn.who
             out == txn.out
  <2>1. market' = txn.m /\ wallet' = AddAll(wallet, t, out) /\ txn.phase = "cancel"
    BY Zenon, <1>2 DEF CancelDone, PayOut
  <2>2. /\ CancelAccounts /\ market \in Market /\ txn.m \in Market
        /\ t \in Trader /\ out \in Amounts
    BY Zenon, <1>2, <2>1, CancelAccountsFacts
  <2>3. wallet \in Balances
    BY Zenon, <1>2 DEF IndInv, TypeOK
  <2>4. \A u \in Trader \ {t} :
          /\ \A s \in Side : {o \in market'.book[s] : o.trader = u} = Own(u, s)
          /\ market'.free[u] = market.free[u]
          /\ market'.locked[u] = market.locked[u]
    BY Zenon, <2>1, <2>2 DEF CancelAccounts
  <2>5. /\ \A u \in Trader, c \in Asset :
             wallet'[u][c] = wallet[u][c] + (IF u = t THEN out[c] ELSE 0)
        /\ \A u \in Trader \ {t} : wallet'[u] = wallet[u]
    BY <2>1, <2>2, <2>3, AddAllAt
  <2>6. ASSUME NEW a \in Asset
        PROVE  Change(t, a) = wallet[t][a] - wallet'[t][a]
    <3>1. /\ wallet[t][a] \in Int /\ out[a] \in Int
          /\ Holding(txn.m, t, a) \in Int /\ Holding(market, t, a) \in Int
      BY Zenon, <2>2, <2>3, HoldingType DEF Balances, Amounts
    <3>2. Holding(txn.m, t, a) + out[a] = Holding(market, t, a)
      BY Zenon, <2>2 DEF CancelAccounts
    <3>3. wallet'[t][a] = wallet[t][a] + out[a]
      BY Zenon, <2>2, <2>5
    <3>4. Change(t, a) = Holding(txn.m, t, a) - Holding(market, t, a)
      BY Zenon, <2>1 DEF Change
    <3>5. QED
      BY <3>1, <3>2, <3>3, <3>4
  <2>7. IF txn.claim THEN market'.free[t] = market.free[t] ELSE wallet' = wallet
    <3>1. CASE txn.claim
      BY Zenon, <2>1, <2>2, <3>1 DEF CancelAccounts
    <3>2. CASE ~ txn.claim
      <4>1. out = NoLots
        BY Zenon, <2>2, <3>2 DEF CancelAccounts
      <4>2. \A u \in Trader, c \in Asset : wallet'[u][c] = wallet[u][c]
        BY <2>3, <2>5, <4>1 DEF NoLots, Balances, Amounts
      <4>3. wallet' \in Balances
        BY Zenon, <2>1, <2>2, <2>3, AddAllType
      <4>4. wallet' = wallet
        BY <2>3, <4>2, <4>3 DEF Balances, Amounts
      <4>5. QED
        BY Zenon, <3>2, <4>4
    <3>3. QED
      BY Zenon, <3>1, <3>2
  <2>8. QED
    BY Zenon, <2>4, <2>5, <2>6, <2>7
<1>3. ASSUME IndInv, AccInv, [Next]_vars
      PROVE  [Settles]_vars
  <2>1. CASE UNCHANGED vars
    BY Zenon, <2>1
  <2>2. CASE Next /\ ~ (txn.phase = "cancel" /\ txn' = NoTxn)
    BY Zenon, <2>2
  <2>3. CASE Next /\ txn.phase = "cancel" /\ txn' = NoTxn
    <3>1. CancelDone
      BY Zenon, <1>1, <1>3, <2>3
    <3> HIDE DEF Settles
    <3>2. Settles
      BY Zenon, <1>2, <1>3, <3>1
    <3>3. QED
      BY Zenon, <3>2
  <2>4. QED
    BY Zenon, <1>3, <2>1, <2>2, <2>3
<1>4. IndInv /\ AccInv /\ [Next]_vars =>
      [txn.phase = "cancel" /\ txn' = NoTxn =>
       /\ \A u \in Trader \ {txn.who} :
            /\ \A s \in Side : {o \in market'.book[s] : o.trader = u} = Own(u, s)
            /\ market'.free[u] = market.free[u]
            /\ market'.locked[u] = market.locked[u]
            /\ wallet'[u] = wallet[u]
       /\ \A a \in Asset :
            Change(txn.who, a) = wallet[txn.who][a] - wallet'[txn.who][a]
       /\ IF txn.claim THEN market'.free[txn.who] = market.free[txn.who]
                       ELSE wallet' = wallet
      ]_vars
  BY Zenon, <1>3
<1>5. QED
  BY <1>4, Invariance, AccountsInvariance, PTL DEF Spec, CancelSettlesExactly
============================================================================

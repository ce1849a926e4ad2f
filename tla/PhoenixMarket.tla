--------------------------- MODULE PhoenixMarket ---------------------------
(***************************************************************************)
(* The instructions of the program on one market: order placement,         *)
(* cancellation, deposits and withdrawals, seats, market status and fees,  *)
(* each with its account checks and its token transfers.                   *)
(*                                                                         *)
(* An instruction that loops over the book is a transaction: it works on a *)
(* copy of the market account (txn.m), one step per iteration, and its     *)
(* last step writes the copy back together with the token transfers.  An   *)
(* error, or a None from the engine, drops the copy.  One transaction runs *)
(* at a time, because every one of them writes the market account.         *)
(***************************************************************************)
EXTENDS FIFOMarket

CONSTANTS
  Packets,          \* order packets that clients submit
  Transfers,        \* lots of each asset that clients deposit or withdraw
  Claims,           \* whether a cancellation also withdraws the released lots
  ReduceSizes,      \* sizes of ReduceOrder
  UpToLimits,       \* [search, cancel, tick] parameters of CancelUpTo
  StatusRequests,   \* statuses the authority asks for
  SeatRequests,     \* seat statuses the authority asks for
  InitStatus,       \* status and seats of the market at the start
  InitSeat,
  InitWallet,       \* lots of each asset in every trader's token accounts
  MaxSlot           \* bound on the clock

VARIABLES
  market,    \* the market account, a record of module FIFOMarket
  status,    \* MarketHeader.status
  seat,      \* each trader's seat account
  vault,     \* lots in the two vaults of the market
  wallet,    \* lots in each trader's token accounts
  treasury,  \* quote lots paid to the fee recipient
  slot,      \* Clock::slot
  txn        \* the transaction in progress

vars == <<market, status, seat, vault, wallet, treasury, slot, txn>>

MarketStatus == {"Active", "PostOnly", "Paused", "Closed", "Tombstoned"}
SeatStatus == {"None", "NotApproved", "Approved", "Retired"}

Packet ==
  [type : {"PostOnly", "Limit", "IOC"}, side : Side, price : Nat,
   base : Nat, quote : Nat, minBase : Nat, minQuote : Nat,
   stb : {"Abort", "CancelProvide", "DecrementTake"}, limit : Nat, lvs : Nat,
   freeFunds : BOOLEAN, reject : BOOLEAN, silent : BOOLEAN]

ASSUME InputAssumption ==
  /\ Packets \subseteq Packet
  /\ Transfers \subseteq [Asset -> Nat]
  /\ Claims \subseteq BOOLEAN
  /\ ReduceSizes \subseteq Nat
  /\ UpToLimits \subseteq [search : Nat, cancel : Nat, tick : Nat]
  /\ StatusRequests \subseteq MarketStatus
  /\ SeatRequests \subseteq SeatStatus \ {"None"}
  /\ InitStatus \in MarketStatus \ {"Tombstoned"}
  /\ InitSeat \in {"None", "Approved"}
  /\ InitWallet \in [Asset -> Nat]
  /\ MaxSlot \in Nat
  /\ InitSeat = "Approved" =>
       IsFiniteSet(Trader) /\ Cardinality(Trader) <= NumSeats

NoTxn == [phase |-> "idle"]

\* A fresh market, or one whose authority has already approved every seat.
Init ==
  /\ market = [EmptyMarket EXCEPT !.registered =
                 IF InitSeat = "Approved" THEN Trader ELSE {}]
  /\ status = InitStatus
  /\ seat = [t \in Trader |-> InitSeat]
  /\ vault = NoLots
  /\ wallet = [t \in Trader |-> InitWallet]
  /\ treasury = 0
  /\ slot = 1
  /\ txn = NoTxn

----------------------------------------------------------------------------
(* Status checks and token transfers.                                      *)

valid_state_transition(from, to) ==
  <<from, to>> \in
    {<<"Active", "PostOnly">>, <<"Active", "Paused">>, <<"Active", "Active">>,
     <<"PostOnly", "Active">>, <<"PostOnly", "Paused">>,
     <<"PostOnly", "Closed">>, <<"PostOnly", "PostOnly">>,
     <<"Closed", "Tombstoned">>, <<"Closed", "Paused">>,
     <<"Closed", "Closed">>, <<"Closed", "PostOnly">>,
     <<"Paused", "Active">>, <<"Paused", "PostOnly">>,
     <<"Paused", "Closed">>, <<"Paused", "Paused">>}

cross_allowed == status = "Active"
post_allowed == status \in {"Active", "PostOnly"}
reduce_allowed == status # "Tombstoned"

\* Vault to the trader's token accounts, and back.
PayOut(t, lots) ==
  /\ vault' = [a \in Asset |-> vault[a] - lots[a]]
  /\ wallet' = AddAll(wallet, t, lots)

PayIn(t, lots) ==
  /\ \A a \in Asset : lots[a] <= wallet[t][a]
  /\ vault' = [a \in Asset |-> vault[a] + lots[a]]
  /\ wallet' = AddAll(wallet, t, [a \in Asset |-> - lots[a]])

\* The runtime drops the writes of a failed instruction.
Abort ==
  /\ txn' = NoTxn
  /\ UNCHANGED <<market, status, seat, vault, wallet, treasury, slot>>

Idle == txn = NoTxn /\ status # "Tombstoned"

----------------------------------------------------------------------------
(* New orders: Swap, SwapWithFreeFunds, PlaceLimitOrder and                *)
(* PlaceLimitOrderWithFreeFunds.                                           *)

\* load_cross_only and load_post_allowed.
OrderAccepted(t, p) ==
  IF p.type = "IOC"
  THEN cross_allowed /\ (p.freeFunds => seat[t] = "Approved")
  ELSE post_allowed /\ seat[t] = "Approved"

Available(t, p, a) ==
  market.free[t][a] + (IF p.freeFunds THEN 0 ELSE wallet[t][a])

order_packet_has_sufficient_funds(t, p) ==
  Lots(p.side, p.price, p.base) <= Available(t, p, Pays(p.side))

\* fail_silently_on_insufficient_funds: return Ok without touching the book.
SilentlySkipped(t, p) ==
  /\ p.type # "IOC" /\ p.silent
  /\ t \notin market.registered \/ ~ order_packet_has_sufficient_funds(t, p)

\* The checks of place_order_inner before any matching.
ValidPacket(p) ==
  /\ market.seq # MaxSeq
  /\ p.side = "Bid" => p.price # 0
  /\ IF p.type = "IOC" THEN (p.base = 0) # (p.quote = 0) ELSE p.base # 0

\* The limit price place_order_inner works with.
Price(p) ==
  IF p.type # "IOC" /\ p.side = "Ask" THEN Largest(p.price, 1) ELSE p.price

base_lot_budget(p) == IF p.base = 0 THEN MaxU64 ELSE p.base

adjusted_quote_lot_budget(p) ==
  IF p.type # "IOC" \/ p.quote = 0 THEN MaxU64
  ELSE IF p.side = "Bid" THEN BudgetForBuys(p.quote * BaseLotsPerBaseUnit)
                         ELSE BudgetForSells(p.quote * BaseLotsPerBaseUnit)

\* The divisor of the fee adjustment for sells vanishes at a fee of 100%.
DividesByZero(p) ==
  /\ p.type = "IOC" /\ p.quote # 0 /\ p.side = "Ask"
  /\ compute_fee(MaxU64) = MaxU64

\* Mutation: a post-only order is matched.
StartOrder_alwaysMatch(t, p, m) ==
  txn' = [phase |-> "match",
          who |-> t, p |-> [p EXCEPT !.price = Price(p)], m |-> m,
          base |-> base_lot_budget(p), adj |-> adjusted_quote_lot_budget(p),
          limit |-> p.limit, terminate |-> FALSE,
          matchedBase |-> 0, matchedAdj |-> 0]

StartOrder(t, p, m) ==
  txn' = [phase |-> IF p.type = "PostOnly" THEN "cross" ELSE "match",
          who |-> t, p |-> [p EXCEPT !.price = Price(p)], m |-> m,
          base |-> base_lot_budget(p), adj |-> adjusted_quote_lot_budget(p),
          limit |-> p.limit, terminate |-> FALSE,
          matchedBase |-> 0, matchedAdj |-> 0]

\* An expired packet succeeds after the trader has been registered.
NewOrder(t, p) ==
  LET m == IF p.type = "IOC" THEN market ELSE get_or_register_trader(market, t)
      expired == p.lvs # 0 /\ slot > p.lvs
  IN /\ Idle
     /\ OrderAccepted(t, p)
     /\ ~ SilentlySkipped(t, p)
     /\ ValidPacket(p)
     /\ ~ DividesByZero(p)
     /\ p.type # "IOC" => CanRegister(market, t)
     /\ IF expired
        THEN market' = m /\ UNCHANGED txn
        ELSE StartOrder(t, p, m) /\ UNCHANGED market
     /\ UNCHANGED <<status, seat, vault, wallet, treasury, slot>>

----------------------------------------------------------------------------
(* check_for_cross, for PostOnly orders.                                   *)

Maker == Opposite(txn.p.side)
Resting == txn.m.book[Maker]

Working(phase) ==
  /\ txn.phase = phase
  /\ UNCHANGED <<market, status, seat, vault, wallet, treasury, slot>>

\* o is on top of the opposite book and the order crosses it.
Meets(o) == IsBest(Resting, o) /\ Crosses(txn.p.side, txn.p.price, o.price)

\* The book is empty or its top, which has the best price, is not crossed.
NothingMet == \A o \in Resting : ~ Crosses(txn.p.side, txn.p.price, o.price)

\* Mutation: the expired order stays on the book.
CrossExpiredOrder_keep ==
  /\ Working("cross")
  /\ \E o \in Resting : Meets(o) /\ is_expired(o, slot)
  /\ UNCHANGED txn

CrossExpiredOrder ==
  /\ Working("cross")
  /\ \E o \in Resting :
       /\ Meets(o) /\ is_expired(o, slot)
       /\ txn' = [txn EXCEPT !.m = RemoveOrder(txn.m, Maker, o)]

\* Mutation: moved to the price of the order it meets.
CrossLiveOrder_samePrice ==
  /\ Working("cross")
  /\ \E o \in Resting :
       /\ Meets(o) /\ ~ is_expired(o, slot)
       /\ txn' = IF txn.p.reject THEN NoTxn
                 ELSE [txn EXCEPT !.phase = "place",
                        !.p = [txn.p EXCEPT !.price = o.price]]

\* Rejected, or moved to the price just outside the spread.
CrossLiveOrder ==
  /\ Working("cross")
  /\ \E o \in Resting :
       /\ Meets(o) /\ ~ is_expired(o, slot)
       /\ txn' = IF txn.p.reject \/ (txn.p.side = "Bid" /\ o.price <= 1)
                 THEN NoTxn
                 ELSE [txn EXCEPT !.phase = "place",
                        !.p = [txn.p EXCEPT !.price = IF txn.p.side = "Bid"
                                                      THEN o.price - 1
                                                      ELSE o.price + 1]]

CrossNothing ==
  /\ Working("cross")
  /\ NothingMet
  /\ txn' = [txn EXCEPT !.phase = "place"]

----------------------------------------------------------------------------
(* match_order, for Limit and IOC orders: one step per iteration.          *)

in_progress ==
  txn.base > 0 /\ txn.adj > 0 /\ txn.limit > 0 /\ ~ txn.terminate

MatchExpiredOrder ==
  /\ Working("match") /\ in_progress
  /\ \E o \in Resting :
       /\ Meets(o) /\ is_expired(o, slot)
       /\ txn' = [txn EXCEPT !.m = RemoveOrder(txn.m, Maker, o),
                             !.limit = @ - 1]

\* The taker is known to the engine by its index, which an unregistered
\* taker does not have.
OwnOrder(o) == o.trader = txn.who

\* Mutation: only the quote budget is looked at.
Affordable_quoteOnly(o) == txn.adj \div (o.price * TickSize)

\* The lots of o that the remaining budgets pay for.
Affordable(o) == Least(txn.base, txn.adj \div (o.price * TickSize))

SelfTradeAbort ==
  /\ Working("match") /\ in_progress
  /\ \E o \in Resting : Meets(o) /\ ~ is_expired(o, slot) /\ OwnOrder(o)
  /\ txn.p.stb = "Abort"
  /\ txn' = NoTxn

SelfTradeCancelProvide ==
  /\ Working("match") /\ in_progress
  /\ txn.p.stb = "CancelProvide"
  /\ \E o \in Resting :
       /\ Meets(o) /\ ~ is_expired(o, slot) /\ OwnOrder(o)
       /\ txn' = [txn EXCEPT !.m = RemoveOrder(txn.m, Maker, o),
                             !.limit = @ - 1]

SelfTradeDecrementTake ==
  /\ Working("match") /\ in_progress
  /\ txn.p.stb = "DecrementTake"
  /\ \E o \in Resting :
       /\ Meets(o) /\ ~ is_expired(o, slot) /\ OwnOrder(o)
       /\ LET removed == Least(Affordable(o), o.size)
          IN txn' = [txn EXCEPT
               !.m = ReduceBy(txn.m, Maker, o, removed),
               !.base = Largest(@ - removed, 0),
               !.adj = Largest(@ - AdjustedQuote(o.price, removed), 0),
               !.limit = @ - 1,
               !.terminate = removed < o.size]

\* A fill takes the whole order, or what the budgets allow and stops.
MatchOrder ==
  /\ Working("match") /\ in_progress
  /\ \E o \in Resting :
       /\ Meets(o) /\ ~ is_expired(o, slot) /\ ~ OwnOrder(o)
       /\ LET whole == /\ o.size <= txn.base
                       /\ AdjustedQuote(o.price, o.size) <= txn.adj
              lots == IF whole THEN o.size ELSE Affordable(o)
              adj == AdjustedQuote(o.price, lots)
          IN txn' = [txn EXCEPT
               !.m = Fill(txn.m, txn.p.side, o, lots),
               !.base = @ - lots, !.adj = @ - adj, !.limit = @ - 1,
               !.matchedBase = @ + lots, !.matchedAdj = @ + adj,
               !.terminate = ~ whole]

\* Mutation: the fee is not recorded.
MatchDone_noFee ==
  /\ Working("match")
  /\ ~ in_progress \/ NothingMet
  /\ txn' = [txn EXCEPT !.phase = "place"]

\* The loop ends; fees are charged on everything matched.
MatchDone ==
  /\ Working("match")
  /\ ~ in_progress \/ NothingMet
  /\ txn' = [txn EXCEPT !.phase = "place",
                        !.m = [txn.m EXCEPT !.unclaimed =
                                 @ + FeeOn(txn.matchedAdj)]]

----------------------------------------------------------------------------
(* The rest of place_order_inner and of process_new_order.                 *)

MatchedQuote ==
  IF txn.p.side = "Bid"
  THEN RoundUp(txn.matchedAdj) \div BaseLotsPerBaseUnit + FeeOn(txn.matchedAdj)
  ELSE RoundDown(txn.matchedAdj) \div BaseLotsPerBaseUnit - FeeOn(txn.matchedAdj)

\* What the taker owes and is owed for the match.
LotsIn == IF txn.p.side = "Bid" THEN MatchedQuote ELSE txn.matchedBase
LotsOut == IF txn.p.side = "Bid" THEN txn.matchedBase ELSE MatchedQuote

MinimumFilled ==
  txn.p.type = "IOC" =>
    txn.matchedBase >= txn.p.minBase /\ MatchedQuote >= txn.p.minQuote

\* The most competitive unexpired order of the opposite book is crossed.
limit_order_crosses ==
  LET live == {o \in Resting : ~ is_expired(o, slot)}
  IN /\ txn.p.type # "PostOnly"
     /\ IF live = {} THEN txn.p.side = "Bid" /\ txn.p.price >= MaxU64
        ELSE \E o \in live : Crosses(txn.p.side, txn.p.price, o.price)

RestingSize == IF txn.p.type = "PostOnly" THEN txn.p.base ELSE txn.base

Posts == txn.p.type # "IOC" /\ RestingSize > 0 /\ ~ limit_order_crosses

PlaceOrder ==
  LET t == txn.who
      side == txn.p.side
      pay == Pays(side)
      get == Gets(side)
      room == MakeRoom(txn.m, side, txn.p.price)
      fits == Cardinality(room.book[side]) < Capacity(side)
      lock == IF Posts THEN Lots(side, txn.p.price, RestingSize) ELSE 0
      posted == IF Posts
                THEN Post(room, side, t, txn.p.price, RestingSize, txn.p.lvs)
                ELSE txn.m
      usedForPost == (IF Posts THEN room ELSE txn.m).free[t][pay]
                       - posted.free[t][pay]
      used == IF t \in posted.registered
              THEN Least(posted.free[t][pay], LotsIn) ELSE 0
      paid == Debit(posted, t, [NoLots EXCEPT ![pay] = used])
      deposit == [NoLots EXCEPT ![pay] = LotsIn + lock - usedForPost - used]
      out == [NoLots EXCEPT ![get] = LotsOut]
      failed == \/ ~ MinimumFilled
                \/ Posts /\ ~ fits
                \/ txn.p.freeFunds /\ deposit[pay] # 0
                \/ ~ txn.p.freeFunds /\ LotsOut > 0 /\ ~ cross_allowed
                \/ ~ txn.p.freeFunds /\ deposit[pay] > wallet[t][pay]
  IN /\ txn.phase = "place"
     /\ \/ failed /\ Abort
        \/ /\ ~ failed
           /\ IF txn.p.freeFunds
              THEN market' = Credit(paid, t, out) /\ UNCHANGED <<vault, wallet>>
              ELSE /\ market' = paid
                   /\ vault' = [vault EXCEPT ![pay] = @ + deposit[pay],
                                             ![get] = @ - LotsOut]
                   /\ wallet' = AddLots(AddLots(wallet, t, pay, - deposit[pay]),
                                        t, get, LotsOut)
           /\ txn' = NoTxn
           /\ UNCHANGED <<status, seat, treasury, slot>>

----------------------------------------------------------------------------
(* Cancellations.  The engine collects the ids first and then reduces each *)
(* order to nothing; the reductions of distinct orders commute.            *)

Id(o) == [price |-> o.price, seq |-> o.seq]

Own(t, side) == {o \in market.book[side] : o.trader = t}

\* The first n orders of a set, in the book's order.
FirstOf(orders, n) ==
  {o \in orders : Cardinality({x \in orders : Precedes(x, o)}) < n}

StartCancel(t, ids, claim) ==
  /\ txn' = [phase |-> "cancel", who |-> t, m |-> market, ids |-> ids,
             claim |-> claim, out |-> NoLots]
  /\ UNCHANGED <<market, status, seat, vault, wallet, treasury, slot>>

\* An unregistered trader cancels nothing.
CancelAllOrders(t, claim) ==
  /\ Idle
  /\ t \in market.registered
  /\ StartCancel(t, {Id(o) : o \in Own(t, "Bid") \cup Own(t, "Ask")}, claim)

UpTo(t, side, lim) ==
  FirstOf({o \in FirstOf(market.book[side], lim.search) :
             o.trader = t /\ Crosses(Opposite(side), lim.tick, o.price)},
          lim.cancel)

CancelUpTo(t, side, lim, claim) ==
  /\ Idle
  /\ t \in market.registered
  /\ StartCancel(t, {Id(o) : o \in UpTo(t, side, lim)}, claim)

\* Clients may name ids that are gone, or orders of somebody else.
CancelMultipleOrdersById(t, ids, claim) ==
  /\ Idle
  /\ t \in market.registered
  /\ StartCancel(t, ids, claim)

\* The market authority cancels the orders of a trader whose seat it has
\* withdrawn, and the released lots go to the trader.
ForceCancelOrders(t, side, lim) ==
  /\ Idle
  /\ seat[t] \in {"NotApproved", "Retired"}
  /\ t \in market.registered
  /\ StartCancel(t, {Id(o) : o \in UpTo(t, side, lim)}, TRUE)

\* Mutation: the owner of the order is not compared.
CancelStep_anyOwner ==
  /\ Working("cancel")
  /\ \E id \in txn.ids :
       LET side == from_order_sequence_number(id.seq)
           named == {o \in txn.m.book[side] : Id(o) = id}
           next == [txn EXCEPT !.ids = @ \ {id}]
       IN \/ named = {} /\ txn' = next
          \/ \E o \in named :
               LET r == ReduceAndClaim(txn.m, side, o, o.size, txn.claim)
               IN txn' = [next EXCEPT
                    !.m = r.m,
                    !.out = [a \in Asset |-> @[a] + r.out[a]]]

\* An id that is gone, or that names an order of somebody else, releases
\* nothing.
CancelStep ==
  /\ Working("cancel")
  /\ \E id \in txn.ids :
       LET side == from_order_sequence_number(id.seq)
           mine == {o \in txn.m.book[side] : Id(o) = id /\ o.trader = txn.who}
           next == [txn EXCEPT !.ids = @ \ {id}]
       IN \/ mine = {} /\ txn' = next
          \/ \E o \in mine :
               LET r == ReduceAndClaim(txn.m, side, o, o.size, txn.claim)
               IN txn' = [next EXCEPT
                    !.m = r.m,
                    !.out = [a \in Asset |-> @[a] + r.out[a]]]

CancelDone ==
  /\ txn.phase = "cancel" /\ txn.ids = {}
  /\ market' = txn.m
  /\ PayOut(txn.who, txn.out)
  /\ txn' = NoTxn
  /\ UNCHANGED <<status, seat, treasury, slot>>

\* An id that is gone succeeds without effect; another trader's order fails.
ReduceOrder(t, side, o, size, claim) ==
  LET r == ReduceAndClaim(market, side, o, Least(size, o.size), claim)
  IN /\ Idle
     /\ t \in market.registered /\ o \in Own(t, side)
     /\ market' = r.m
     /\ PayOut(t, r.out)
     /\ UNCHANGED <<status, seat, treasury, slot, txn>>

----------------------------------------------------------------------------
(* Deposits, withdrawals, seats, fees and status.                          *)

DepositFunds(t, lots) ==
  /\ Idle /\ post_allowed /\ seat[t] = "Approved"
  /\ CanRegister(market, t)
  /\ market' = Credit(get_or_register_trader(market, t), t, lots)
  /\ PayIn(t, lots)
  /\ UNCHANGED <<status, seat, treasury, slot, txn>>

WithdrawFunds(t, lots) ==
  LET out == Claimable(market, t, lots)
  IN /\ Idle /\ reduce_allowed
     /\ t \in market.registered
     /\ market' = Debit(market, t, out)
     /\ PayOut(t, out)
     /\ UNCHANGED <<status, seat, treasury, slot, txn>>

\* Mutation: a trader with locked lots is evicted too.
EvictSeat_locked(t) ==
  LET out == Claimable(market, t, market.free[t])
  IN /\ Idle
     /\ seat[t] \in {"NotApproved", "Retired"}
     /\ t \in market.registered
     /\ market' = [Debit(market, t, out) EXCEPT !.registered = @ \ {t}]
     /\ PayOut(t, out)
     /\ UNCHANGED <<status, seat, treasury, slot, txn>>

\* Pays out everything free; fails if the trader still has locked lots.
EvictSeat(t) ==
  LET out == Claimable(market, t, market.free[t])
      m == Debit(market, t, out)
  IN /\ Idle
     /\ seat[t] \in {"NotApproved", "Retired"}
     /\ t \in market.registered
     /\ HoldsNothing(m, t)
     /\ market' = [m EXCEPT !.registered = @ \ {t}]
     /\ PayOut(t, out)
     /\ UNCHANGED <<status, seat, treasury, slot, txn>>

\* RequestSeat by the trader while posting is allowed, RequestSeatAuthorized
\* by the authority at any time.
RequestSeat(t) ==
  /\ Idle
  /\ seat[t] = "None"
  /\ seat' = [seat EXCEPT ![t] = "NotApproved"]
  /\ UNCHANGED <<market, status, vault, wallet, treasury, slot, txn>>

\* Mutation: approval does not register the trader.
ChangeSeatStatus_noRegister(t, new) ==
  /\ Idle
  /\ <<seat[t], new>> \in {<<"NotApproved", "Approved">>,
                           <<"Approved", "NotApproved">>,
                           <<"Approved", "Retired">>,
                           <<"NotApproved", "Retired">>}
  /\ seat' = [seat EXCEPT ![t] = new]
  /\ UNCHANGED <<market, status, vault, wallet, treasury, slot, txn>>

\* Approval registers the trader; every other change leaves the market alone.
ChangeSeatStatus(t, new) ==
  /\ Idle
  /\ <<seat[t], new>> \in {<<"NotApproved", "Approved">>,
                           <<"Approved", "NotApproved">>,
                           <<"Approved", "Retired">>,
                           <<"NotApproved", "Retired">>}
  /\ new = "Approved" => CanRegister(market, t)
  /\ seat' = [seat EXCEPT ![t] = new]
  /\ market' = IF new = "Approved" THEN get_or_register_trader(market, t)
                                   ELSE market
  /\ UNCHANGED <<status, vault, wallet, treasury, slot, txn>>

CollectFees ==
  /\ Idle
  /\ market.unclaimed > 0
  /\ market' = collect_fees(market)
  /\ vault' = [vault EXCEPT !["quote"] = @ - market.unclaimed]
  /\ treasury' = treasury + market.unclaimed
  /\ UNCHANGED <<status, seat, wallet, slot, txn>>

\* Mutation: only the books must be empty.
ChangeMarketStatus_booksOnly(new) ==
  /\ Idle
  /\ valid_state_transition(status, new)
  /\ new = "Tombstoned" => market.book["Bid"] = {} /\ market.book["Ask"] = {}
  /\ status' = new
  /\ UNCHANGED <<market, seat, vault, wallet, treasury, slot, txn>>

\* A tombstoned market must be empty; its account is then closed.
ChangeMarketStatus(new) ==
  /\ Idle
  /\ valid_state_transition(status, new)
  /\ new = "Tombstoned" =>
       /\ market.book["Bid"] = {} /\ market.book["Ask"] = {}
       /\ market.unclaimed = 0
       /\ market.registered = {}
  /\ status' = new
  /\ UNCHANGED <<market, seat, vault, wallet, treasury, slot, txn>>

\* The clock of a slot is constant within a transaction.
NextSlot ==
  /\ Idle /\ slot < MaxSlot
  /\ slot' = slot + 1
  /\ UNCHANGED <<market, status, seat, vault, wallet, treasury, txn>>

----------------------------------------------------------------------------
OrderStep ==
  \/ CrossExpiredOrder \/ CrossLiveOrder \/ CrossNothing
  \/ MatchExpiredOrder
  \/ SelfTradeAbort \/ SelfTradeCancelProvide \/ SelfTradeDecrementTake
  \/ MatchOrder \/ MatchDone
  \/ PlaceOrder

TxnStep == OrderStep \/ CancelStep \/ CancelDone

\* An id that is gone has the effect of one of another trader's order, so the
\* ids of the book are enough.
BookIds == {Id(o) : o \in market.book["Bid"] \cup market.book["Ask"]}

TraderNext ==
  \E t \in Trader :
    \/ \E p \in Packets : NewOrder(t, p)
    \/ \E lots \in Transfers : DepositFunds(t, lots) \/ WithdrawFunds(t, lots)
    \/ RequestSeat(t)
    \/ \E claim \in Claims :
         \/ CancelAllOrders(t, claim)
         \/ \E ids \in SUBSET BookIds : CancelMultipleOrdersById(t, ids, claim)
         \/ \E side \in Side :
              \/ \E lim \in UpToLimits : CancelUpTo(t, side, lim, claim)
              \/ \E o \in market.book[side], n \in ReduceSizes :
                   ReduceOrder(t, side, o, n, claim)

AuthorityNext ==
  \/ \E new \in StatusRequests : ChangeMarketStatus(new)
  \/ \E t \in Trader :
       \/ EvictSeat(t)
       \/ \E new \in SeatRequests : ChangeSeatStatus(t, new)
       \/ \E side \in Side, lim \in UpToLimits : ForceCancelOrders(t, side, lim)
  \/ CollectFees

Next == TxnStep \/ TraderNext \/ AuthorityNext \/ NextSlot

Spec == Init /\ [][Next]_vars

\* The runtime runs an instruction to its end.
FairSpec == Spec /\ WF_vars(TxnStep)

----------------------------------------------------------------------------
(* Properties.                                                             *)

Order ==
  [price : Nat \ {0}, seq : Nat, trader : Trader, size : Nat \ {0}, lvs : Nat]

Book == [Side -> SUBSET Order]
Amounts == [Asset -> Int]
Balances == [Trader -> Amounts]

Market ==
  [book : Book, registered : SUBSET Trader, free : Balances, locked : Balances,
   seq : Nat \ {0}, unclaimed : Int, collected : Int]

OrderTxn ==
  [phase : {"cross", "match", "place"}, who : Trader, p : Packet, m : Market,
   base : Int, adj : Int, limit : Int, terminate : BOOLEAN,
   matchedBase : Int, matchedAdj : Int]

CancelTxn ==
  [phase : {"cancel"}, who : Trader, m : Market,
   ids : SUBSET [price : Nat, seq : Nat], claim : BOOLEAN,
   out : Amounts]

\* The shape of the accounts.  That no resting order is ever empty or priced
\* at zero is what makes the engine's tombstone branches dead code.
TypeOK ==
  /\ market \in Market
  /\ status \in MarketStatus
  /\ seat \in [Trader -> SeatStatus]
  /\ vault \in Amounts
  /\ wallet \in Balances
  /\ treasury \in Int
  /\ slot \in Nat
  /\ txn \in {NoTxn} \cup OrderTxn \cup CancelTxn

\* The committed market and the working copy of the transaction.
Markets == {market} \cup (IF txn = NoTxn THEN {} ELSE {txn.m})

Uncrossed(book, now) ==
  \A b \in book["Bid"], a \in book["Ask"] :
    ~ is_expired(b, now) /\ ~ is_expired(a, now) => b.price < a.price

\* No two unexpired orders of opposite sides ever cross: what limit orders
\* leave on the book after matching, and where post-only orders are moved
\* to, is always outside the spread of the unexpired orders.
UncrossedBook == \A m \in Markets : Uncrossed(m.book, slot)

\* Order ids tell the side of an order and are never used twice: the
\* complemented sequence number of a bid cannot meet that of an ask, since
\* the engine stops at u64::MAX >> 1.
OrderIdsDistinct ==
  \A m \in Markets :
    /\ \A s \in Side : \A o \in m.book[s] : from_order_sequence_number(o.seq) = s
    /\ \A s, r \in Side : \A o \in m.book[s], x \in m.book[r] :
         o.seq = x.seq => o = x

\* Nothing on the book belongs to a trader the account does not know: an
\* eviction can only remove a trader without orders, so that no order is
\* left with the node index of a removed trader.
OwnersRegistered ==
  \A m \in Markets : \A s \in Side : \A o \in m.book[s] :
    o.trader \in m.registered

\* An approved seat always has a node in the trader tree, so that posting
\* never fails for want of a seat; and no more traders than seats.
SeatsBacked ==
  /\ \A t \in Trader :
       seat[t] = "Approved" => t \in market.registered
  /\ Cardinality(market.registered) <= NumSeats

----------------------------------------------------------------------------
(* The inductive invariant behind TypeOK, UncrossedBook, OrderIdsDistinct  *)
(* and SeatsBacked.                                                        *)

\* The stored sequence numbers of each side come from numbers below the next
\* one, every number names one order, and no unexpired orders cross.
BookOK(book, seq, now) ==
  /\ seq <= MaxSeq
  /\ \A o \in book["Bid"] : 2 * MaxSeq + 1 - seq < o.seq
  /\ \A o \in book["Ask"] : o.seq < seq
  /\ \A s \in Side : \A o, x \in book[s] : o.seq = x.seq => o = x
  /\ Uncrossed(book, now)

\* What an order in progress has established before it is placed.
OrderOK ==
  /\ txn.m.seq < MaxSeq
  /\ txn.p.type # "IOC" => txn.p.price # 0
  /\ txn.phase = "match" => txn.p.type # "PostOnly"
  /\ txn.phase = "place" /\ txn.p.type = "PostOnly" =>
       \A o \in Resting :
         ~ is_expired(o, slot) => ~ Crosses(txn.p.side, txn.p.price, o.price)

SeatsOK(registered) ==
  IsFiniteSet(registered) /\ Cardinality(registered) <= NumSeats

MarketOK(m, now) ==
  /\ m \in Market
  /\ BookOK(m.book, m.seq, now)
  /\ SeatsOK(m.registered)

\* The accounts and the working copy of a transaction are well formed at
\* every step of every instruction, and the copy knows every trader of the
\* account.
IndInv ==
  /\ TypeOK
  /\ MarketOK(market, slot)
  /\ txn # NoTxn =>
       MarketOK(txn.m, slot) /\ market.registered \subseteq txn.m.registered
  /\ txn.phase \in {"cross", "match", "place"} => OrderOK
============================================================================

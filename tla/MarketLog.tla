----------------------------- MODULE MarketLog -----------------------------
(***************************************************************************)
(* The audit log of a market: every instruction of PhoenixMarket and       *)
(* BatchOrders with the events it records, in the order in which it        *)
(* records them, and an observer that rebuilds the book from what is       *)
(* logged.                                                                 *)
(*                                                                         *)
(* The log instructions of a failed instruction are part of a failed       *)
(* transaction, so the observer never sees them.                           *)
(***************************************************************************)
EXTENDS BatchOrders, EventRecorder

VARIABLES
  recorder,   \* EventRecorder of the instruction in progress
  mirror,     \* what the observer has rebuilt
  complete    \* whether the observer found every log complete

log == <<recorder, mirror, complete>>
logVars == <<vars, log>>

LogInit ==
  /\ Init
  /\ recorder = NewRecorder
  /\ mirror = [book |-> [s \in Side |-> {}], fees |-> 0]
  /\ complete = TRUE

----------------------------------------------------------------------------
(* Market events.                                                          *)

FillEvent(o, lots) ==
  [kind |-> "Fill", maker |-> o.trader, price |-> o.price, seq |-> o.seq,
   lots |-> lots, left |-> o.size - lots]

FillSummaryEvent(fee) == [kind |-> "FillSummary", fee |-> fee]

PlaceEvent(o) ==
  [kind |-> "Place", price |-> o.price, seq |-> o.seq, lots |-> o.size]

TimeInForceEvent(o) ==
  [kind |-> "TimeInForce", seq |-> o.seq, lvs |-> o.lvs]

EvictEvent(o) ==
  [kind |-> "Evict", maker |-> o.trader, price |-> o.price, seq |-> o.seq,
   lots |-> o.size]

ExpiredOrderEvent(o) ==
  [kind |-> "ExpiredOrder", maker |-> o.trader, price |-> o.price,
   seq |-> o.seq, lots |-> o.size]

ReduceEvent(o, lots) ==
  [kind |-> "Reduce", price |-> o.price, seq |-> o.seq, lots |-> lots,
   left |-> o.size - lots]

FeeEvent(fees) == [kind |-> "Fee", fee |-> fees]

----------------------------------------------------------------------------
(* The observer.  It knows the owner of a placed order from the signer in  *)
(* the header, and everything else from the events.                        *)

\* The size of order e.seq becomes n.
Resize(book, e, n) ==
  LET side == from_order_sequence_number(e.seq)
      named == {o \in book[side] : o.seq = e.seq}
      left == IF n = 0 THEN {} ELSE {[o EXCEPT !.size = n] : o \in named}
  IN [book EXCEPT ![side] = (@ \ named) \cup left]

Observe(mir, signer, e) ==
  CASE e.kind \in {"Fill", "Reduce"} ->
         [mir EXCEPT !.book = Resize(mir.book, e, e.left)]
    [] e.kind \in {"Evict", "ExpiredOrder"} ->
         [mir EXCEPT !.book = Resize(mir.book, e, 0)]
    [] e.kind = "Place" ->
         [mir EXCEPT !.book[from_order_sequence_number(e.seq)] = @ \cup
            {[price |-> e.price, seq |-> e.seq, trader |-> signer, size |-> e.lots,
              lvs |-> 0]}]
    [] e.kind = "TimeInForce" ->
         [mir EXCEPT !.book[from_order_sequence_number(e.seq)] =
            {IF o.seq = e.seq THEN [o EXCEPT !.lvs = e.lvs] ELSE o : o \in @}]
    [] e.kind = "FillSummary" -> [mir EXCEPT !.fees = @ + e.fee]
    [] e.kind = "Fee" -> [mir EXCEPT !.fees = @ - e.fee]

ObserveBatch(mir, signer, batch) ==
  FoldLeft(LAMBDA mm, x : Observe(mm, signer, x.event), mir, batch.events)

ObserveLog(mir, signer, sent) ==
  FoldLeft(LAMBDA mm, batch : ObserveBatch(mm, signer, batch), mir, sent)

----------------------------------------------------------------------------
(* What a step does to the recorder.                                       *)

\* The instruction succeeds: its log is published and observed.
Publish(r, signer) ==
  /\ recorder' = NewRecorder
  /\ mirror' = ObserveLog(mirror, signer, Published(r))
  /\ complete' = (complete /\ IsComplete(Published(r)))

\* A step of a loop, which may fail the instruction.
Record(r) ==
  /\ recorder' = IF txn' = NoTxn THEN NewRecorder ELSE r
  /\ UNCHANGED <<mirror, complete>>

\* The last step of an order.  One that changes nothing, or fails, has
\* nothing to tell the observer.
Finish(r, signer) ==
  IF market' = market THEN recorder' = NewRecorder /\ UNCHANGED <<mirror, complete>>
                      ELSE Publish(r, signer)

\* The first step of an instruction, which may be its only one.
Begin(signer) ==
  IF txn' = NoTxn THEN Publish(NewRecorder, signer)
                  ELSE recorder' = NewRecorder /\ UNCHANGED <<mirror, complete>>

Top == CHOOSE o \in Resting : Meets(o)

\* Mutation: the eviction is not recorded.
RecordPost_noEvict(m) ==
  LET side == txn.p.side
      placed == CHOOSE o \in m.book[side] : o.seq = StoredSeq(side, txn.m.seq)
      r == add_event(recorder, PlaceEvent(placed))
  IN IF placed.lvs # 0 THEN add_event(r, TimeInForceEvent(placed)) ELSE r

\* The events of posting an order; m is the market with the order on its book.
RecordPost(m) ==
  LET side == txn.p.side
      placed == CHOOSE o \in m.book[side] : o.seq = StoredSeq(side, txn.m.seq)
      evicted == IF Cardinality(txn.m.book[side]) = Capacity(side)
                 THEN Evictable(txn.m, side, placed.price) ELSE {}
      r1 == IF evicted # {} THEN add_event(recorder, EvictEvent(CHOOSE o \in evicted : TRUE))
                            ELSE recorder
      r2 == add_event(r1, PlaceEvent(placed))
  IN IF placed.lvs # 0 THEN add_event(r2, TimeInForceEvent(placed)) ELSE r2

----------------------------------------------------------------------------
(* The steps of orders, ladders and cancellations.                         *)

RecordTop(e) == Record(add_event(recorder, e))

\* A budget too small for one lot fills nothing, which is not recorded.
LogFill ==
  LET lots == txn'.matchedBase - txn.matchedBase
  IN IF lots = 0 THEN Record(recorder) ELSE RecordTop(FillEvent(Top, lots))

LogDecrement ==
  RecordTop(ReduceEvent(Top, Least(Affordable(Top), Top.size)))

LogPlaceOrder ==
  Finish(IF Posts THEN RecordPost(market') ELSE recorder, txn.who)

LogLevel == Record(IF txn' = NoTxn THEN recorder ELSE RecordPost(txn'.m))

LogCancel ==
  LET id == CHOOSE i \in txn.ids : i \notin txn'.ids
      side == from_order_sequence_number(id.seq)
      gone == {o \in txn.m.book[side] \ txn'.m.book[side] : Id(o) = id}
  IN IF gone = {} THEN Record(recorder)
     ELSE LET o == CHOOSE o \in gone : TRUE IN RecordTop(ReduceEvent(o, o.size))

LoggedOrderStep ==
  \/ CrossExpiredOrder /\ RecordTop(ExpiredOrderEvent(Top))
  \/ (CrossLiveOrder \/ CrossNothing) /\ Record(recorder)
  \/ MatchExpiredOrder /\ RecordTop(ExpiredOrderEvent(Top))
  \/ SelfTradeAbort /\ Record(recorder)
  \/ SelfTradeCancelProvide /\ RecordTop(ReduceEvent(Top, Top.size))
  \/ SelfTradeDecrementTake /\ LogDecrement
  \/ MatchOrder /\ LogFill
  \/ MatchDone /\ RecordTop(FillSummaryEvent(FeeOn(txn.matchedAdj)))
  \/ PlaceOrder /\ LogPlaceOrder

LoggedBatchStep ==
  \/ NextLevel /\ Record(recorder)
  \/ LevelMeetsExpired /\ RecordTop(ExpiredOrderEvent(Top))
  \/ (LevelMeetsLive \/ LevelMeetsNothing) /\ LogLevel
  \/ BatchDone /\ Finish(recorder, txn.who)

LoggedCancelStep ==
  \/ CancelStep /\ LogCancel
  \/ CancelDone /\ Publish(recorder, txn.who)

LoggedStep == LoggedOrderStep \/ LoggedBatchStep \/ LoggedCancelStep

----------------------------------------------------------------------------
(* Whole instructions.                                                     *)

LoggedTrader(t) ==
  \/ \E p \in Packets : NewOrder(t, p) /\ Begin(t)
  \/ \E b \in Batches : PlaceMultiplePostOnlyOrders(t, b) /\ Begin(t)
  \/ \E lots \in Transfers : (DepositFunds(t, lots) \/ WithdrawFunds(t, lots)) /\ Begin(t)
  \/ \E claim \in Claims :
       \/ CancelAllOrders(t, claim) /\ Begin(t)
       \/ \E ids \in SUBSET BookIds :
            CancelMultipleOrdersById(t, ids, claim) /\ Begin(t)
       \/ \E side \in Side, lim \in UpToLimits : CancelUpTo(t, side, lim, claim) /\ Begin(t)
       \/ \E side \in Side : \E o \in market.book[side], n \in ReduceSizes :
            /\ ReduceOrder(t, side, o, n, claim)
            /\ Publish(add_event(NewRecorder, ReduceEvent(o, Least(n, o.size))), t)

LogNext ==
  \/ LoggedStep
  \/ \E t \in Trader : LoggedTrader(t)
  \/ CollectFees /\ Publish(add_event(NewRecorder, FeeEvent(market.unclaimed)), "authority")
  \/ NextSlot /\ UNCHANGED log

LogSpec == LogInit /\ [][LogNext]_logVars

\* The runtime runs an instruction to its end.
FairLogSpec == LogSpec /\ WF_vars(TxnStep \/ BatchStep)

----------------------------------------------------------------------------
(* Properties.                                                             *)

\* Whoever replays the log of the successful instructions has the market's
\* book, with the owners and expiries of the orders, and its uncollected
\* fees: every change of the book is recorded, in the right order and in the
\* right batch, across flushes in the middle of a match.
LogRebuildsMarket ==
  mirror.book = market.book /\ mirror.fees = market.unclaimed

\* The log of every successful instruction has at least one batch, its
\* batches fit into a call and announce the events they hold, and its events
\* are numbered without gaps.
LogIsComplete == complete
============================================================================

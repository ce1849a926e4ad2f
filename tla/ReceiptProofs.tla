--------------------------- MODULE ReceiptProofs ---------------------------
(***************************************************************************)
(* The steps of the receipts between the two layers: whose lots they move, *)
(* that the vaults follow what the market owes and what is in flight, and  *)
(* how lots that move between wallet, market and receipts look to the      *)
(* ledger of Custody.                                                      *)
(***************************************************************************)
EXTENDS RollupMarket, OrderProofs

\* A receipt is marked processed before it leaves the rollup, and an account
\* that does not exist holds nothing.
ReceiptOK(r) ==
  /\ r \in [at : {"none", "er", "leaving", "base"}, lots : Amounts,
            processed : BOOLEAN]
  /\ r.processed <=> r.at \in {"leaving", "base"}
  /\ r.at = "none" => r.lots = NoLots

ReceiptsOK ==
  /\ deposit = [t \in Trader |-> deposit[t]]
  /\ withdrawal = [t \in Trader |-> withdrawal[t]]
  /\ \A t \in Trader : ReceiptOK(deposit[t]) /\ ReceiptOK(withdrawal[t])

RollupInv == IndInv /\ ReceiptsOK

----------------------------------------------------------------------------
(* Receipts.                                                               *)

\* The three ways in which the handlers write a receipt.
LEMMA ReceiptValues ==
  /\ NoLots \in Amounts
  /\ ReceiptOK(NoReceipt)
  /\ \A lots \in Amounts : ReceiptOK(NewReceipt(lots)) /\ ReceiptOK(Processed(lots))
<1>1. NoLots \in Amounts
  BY DEF NoLots, Amounts
<1>. HIDE DEF NoLots
<1>. QED  BY Zenon, <1>1 DEF ReceiptOK, NoReceipt, NewReceipt, Processed

\* Writing one trader's receipt keeps all receipts well formed.
LEMMA ReceiptWritten ==
  ASSUME ReceiptsOK, NEW t \in Trader, NEW r, ReceiptOK(r),
         \/ deposit' = [deposit EXCEPT ![t] = r] /\ UNCHANGED withdrawal
         \/ withdrawal' = [withdrawal EXCEPT ![t] = r] /\ UNCHANGED deposit
  PROVE  ReceiptsOK'
<1>. HIDE DEF ReceiptOK
<1>1. CASE deposit' = [deposit EXCEPT ![t] = r] /\ UNCHANGED withdrawal
  <2>1. \A u \in Trader : ReceiptOK(deposit'[u])
    BY Zenon, <1>1 DEF ReceiptsOK
  <2>. QED  BY Zenon, <1>1, <2>1 DEF ReceiptsOK
<1>2. CASE withdrawal' = [withdrawal EXCEPT ![t] = r] /\ UNCHANGED deposit
  <2>1. \A u \in Trader : ReceiptOK(withdrawal'[u])
    BY Zenon, <1>2 DEF ReceiptsOK
  <2>. QED  BY Zenon, <1>2, <2>1 DEF ReceiptsOK
<1>. QED  BY Zenon, <1>1, <1>2

\* A commit by the validator keeps a receipt that leaves the rollup.
LEMMA LandedReceipt ==
  ASSUME NEW r, ReceiptOK(r), r.at = "leaving"
  PROVE  ReceiptOK(Landed(r))
<1>1. r.lots \in Amounts /\ r.processed \in BOOLEAN
  BY Zenon DEF ReceiptOK
<1>2. r.processed <=> r.at \in {"leaving", "base"}
  BY Zenon DEF ReceiptOK
<1>3. r.processed = TRUE
  BY Zenon, <1>1, <1>2
<1>4. Landed(r) = [at |-> "base", lots |-> r.lots, processed |-> TRUE]
  BY Zenon, <1>3 DEF Landed
<1>. QED  BY <1>1, <1>4 DEF ReceiptOK

\* Nothing happens to the accounts of the market.
LEMMA MarketStutters ==
  ASSUME IndInv, UNCHANGED vars
  PROVE  IndInv'
<1>1. UNCHANGED <<market, status, seat, vault, wallet, treasury, slot, txn>>
  BY Zenon DEF vars
<1>2. TypeOK'
  BY Zenon, <1>1 DEF IndInv, TypeOK
<1>3. /\ MarketOK(market, slot)'
      /\ txn' # NoTxn => MarketOK(txn.m, slot)' /\ market'.registered \subseteq txn'.m.registered
  BY Zenon, <1>1 DEF IndInv
<1>4. OrderOK => OrderOK'
  BY Zenon, <1>1 DEF OrderOK, Resting, Maker
<1>. QED  BY Zenon, <1>1, <1>2, <1>3, <1>4 DEF IndInv

\* Between instructions the market account is well formed.
LEMMA QuietFacts ==
  ASSUME IndInv, Quiet
  PROVE  /\ market \in Market /\ MarketOK(market, slot) /\ slot \in Nat
         /\ txn = NoTxn /\ vault \in Amounts /\ wallet \in Balances
BY Zenon DEF IndInv, TypeOK, Quiet

\* The lots of a receipt of either kind.
LEMMA ReceiptLots ==
  ASSUME ReceiptsOK, NEW t \in Trader
  PROVE  deposit[t].lots \in Amounts /\ withdrawal[t].lots \in Amounts
BY Zenon DEF ReceiptsOK, ReceiptOK

\* On either layer an instruction is one of PhoenixMarket.
LEMMA InstructionIsNext == Instruction => Next /\ UNCHANGED rollup
<1>1. ASSUME ErInstruction PROVE TraderNext \/ AuthorityNext
  <2>1. CASE \E new \in StatusRequests \ {"Tombstoned"} : ChangeMarketStatus(new)
    BY Zenon, <2>1 DEF AuthorityNext
  <2>2. CASE ~ \E new \in StatusRequests \ {"Tombstoned"} : ChangeMarketStatus(new)
    <3>1. PICK t \in Trader :
            \/ \E p \in Packets : p.freeFunds /\ NewOrder(t, p)
            \/ \E claim \in Claims \ {TRUE} :
                 \/ CancelAllOrders(t, claim)
                 \/ \E ids \in SUBSET BookIds : CancelMultipleOrdersById(t, ids, claim)
                 \/ \E side \in Side :
                      \/ \E lim \in UpToLimits : CancelUpTo(t, side, lim, claim)
                      \/ \E o \in market.book[side], n \in ReduceSizes :
                           ReduceOrder(t, side, o, n, claim)
      BY Zenon, <1>1, <2>2 DEF ErInstruction
    <3>2. CASE \E p \in Packets : p.freeFunds /\ NewOrder(t, p)
      BY Zenon, <3>2 DEF TraderNext
    <3>3. CASE ~ \E p \in Packets : p.freeFunds /\ NewOrder(t, p)
      BY Zenon, <3>1, <3>3 DEF TraderNext
    <3>. QED  BY Zenon, <3>2, <3>3
  <2>. QED  BY Zenon, <2>1, <2>2
<1>. QED  BY Zenon, <1>1 DEF Instruction, Next

----------------------------------------------------------------------------
(* What the receipts carry.                                                *)

\* Lots of a deposit receipt that are not credited yet, and of a withdrawal
\* receipt that are debited and not paid yet.
Arriving(r, a) == IF r.processed THEN 0 ELSE r.lots[a]
Leaving(r, a) == IF r.processed THEN r.lots[a] ELSE 0

\* The lots in flight of each value the handlers write.
LEMMA FlightValues ==
  ASSUME NEW a \in Asset, NEW lots \in Amounts, NEW r, ReceiptOK(r)
  PROVE  /\ Arriving(NoReceipt, a) = 0 /\ Leaving(NoReceipt, a) = 0
         /\ Arriving(NewReceipt(lots), a) = lots[a]
         /\ Leaving(NewReceipt(lots), a) = 0
         /\ Arriving(Processed(lots), a) = 0
         /\ Leaving(Processed(lots), a) = lots[a]
         /\ Arriving(Landed(r), a) = Arriving(r, a)
         /\ Leaving(Landed(r), a) = Leaving(r, a)
         /\ Arriving(r, a) \in Int /\ Leaving(r, a) \in Int
         /\ lots[a] \in Int
<1>1. lots[a] \in Int /\ r.lots[a] \in Int
  BY Zenon DEF ReceiptOK, Amounts
<1>2. Arriving(r, a) \in Int /\ Leaving(r, a) \in Int
  BY <1>1 DEF Arriving, Leaving
<1>3. NoReceipt.lots[a] = 0 /\ NoReceipt.processed = FALSE
  BY Zenon DEF NoReceipt, NoLots
<1>4. Arriving(NoReceipt, a) = 0 /\ Leaving(NoReceipt, a) = 0
  BY Zenon, <1>3 DEF Arriving, Leaving
<1>5. NewReceipt(lots).lots = lots /\ NewReceipt(lots).processed = FALSE
  BY Zenon DEF NewReceipt
<1>6. Arriving(NewReceipt(lots), a) = lots[a] /\ Leaving(NewReceipt(lots), a) = 0
  BY Zenon, <1>5 DEF Arriving, Leaving
<1>7. Processed(lots).lots = lots /\ Processed(lots).processed = TRUE
  BY Zenon DEF Processed
<1>8. Arriving(Processed(lots), a) = 0 /\ Leaving(Processed(lots), a) = lots[a]
  BY Zenon, <1>7 DEF Arriving, Leaving
<1>9. Landed(r).lots = r.lots /\ Landed(r).processed = r.processed
  BY Zenon DEF Landed
<1>10. Arriving(Landed(r), a) = Arriving(r, a) /\ Leaving(Landed(r), a) = Leaving(r, a)
  BY Zenon, <1>9 DEF Arriving, Leaving
<1>. QED  BY Zenon, <1>1, <1>2, <1>4, <1>6, <1>8, <1>10

----------------------------------------------------------------------------
(* The lots in flight and the vaults.                                      *)

\* A receipt holds lots exactly as long as it exists.
LotsOK(r) == r.lots \in [Asset -> Nat] /\ ((r.lots = NoLots) <=> (r.at = "none"))

\* What the accounts of both layers satisfy together.
FlowInv ==
  /\ RollupInv /\ AccInv
  /\ home \in {"base", "er", "leaving"}
  /\ \A t \in Trader : LotsOK(deposit[t]) /\ LotsOK(withdrawal[t])

\* A step on the receipts of trader t touches the accounts of nobody else,
\* and the vaults follow the market's debts and the lots in flight.
Touches(t) ==
  /\ OwnTokens(t) /\ OwnLots(t)
  /\ \A u \in Trader \ {t} : deposit'[u] = deposit[u] /\ withdrawal'[u] = withdrawal[u]
  /\ \A a \in Asset :
       /\ vault'[a] \in Int /\ Owed(market', a) \in Int
       /\ vault'[a] - Owed(market', a)
            - (Arriving(deposit'[t], a) + Leaving(withdrawal'[t], a))
          = vault[a] - Owed(market, a)
              - (Arriving(deposit[t], a) + Leaving(withdrawal[t], a))

\* The values that the handlers write into a receipt.
LEMMA LotsValues ==
  /\ LotsOK(NoReceipt)
  /\ \A lots \in [Asset -> Nat] : lots # NoLots =>
       LotsOK(NewReceipt(lots)) /\ LotsOK(Processed(lots))
  /\ \A r : LotsOK(r) /\ r.at = "leaving" => LotsOK(Landed(r))
<1>1. NoLots \in [Asset -> Nat]
  BY Zenon DEF NoLots
<1>2. LotsOK(NoReceipt)
  BY Zenon, <1>1 DEF LotsOK, NoReceipt
<1>3. ASSUME NEW lots \in [Asset -> Nat], lots # NoLots
      PROVE  LotsOK(NewReceipt(lots)) /\ LotsOK(Processed(lots))
  <2>1. /\ NewReceipt(lots).lots = lots /\ NewReceipt(lots).at = "er"
        /\ Processed(lots).lots = lots /\ Processed(lots).at = "leaving"
    BY Zenon DEF NewReceipt, Processed
  <2>2. QED
    BY Zenon, <1>3, <2>1 DEF LotsOK
<1>4. ASSUME NEW r, LotsOK(r), r.at = "leaving"
      PROVE  LotsOK(Landed(r))
  <2>1. Landed(r).lots = r.lots /\ Landed(r).at = "base"
    BY Zenon DEF Landed
  <2>2. QED
    BY Zenon, <1>4, <2>1 DEF LotsOK
<1>5. QED
  BY Zenon, <1>2, <1>3, <1>4

\* What is known between instructions.
LEMMA FlowFacts ==
  ASSUME FlowInv, Quiet
  PROVE  /\ market \in Market /\ AccountsOK(market) /\ txn = NoTxn
         /\ vault \in Amounts /\ wallet \in Balances
         /\ \A a \in Asset : vault[a] \in Int /\ Owed(market, a) \in Int
         /\ deposit = [t \in Trader |-> deposit[t]]
         /\ withdrawal = [t \in Trader |-> withdrawal[t]]
         /\ \A t \in Trader : /\ ReceiptOK(deposit[t]) /\ ReceiptOK(withdrawal[t])
                              /\ LotsOK(deposit[t]) /\ LotsOK(withdrawal[t])
<1>1. IndInv /\ ReceiptsOK /\ AccInv
  BY Zenon DEF FlowInv, RollupInv
<1>2. market \in Market /\ txn = NoTxn /\ vault \in Amounts /\ wallet \in Balances
  BY Zenon, <1>1, QuietFacts
<1>3. AccountsOK(market)
  BY Zenon, <1>1 DEF AccInv
<1>4. \A a \in Asset : vault[a] \in Int /\ Owed(market, a) \in Int
  <2>1. \A a \in Asset : Owed(market, a) \in Nat
    BY Zenon, <1>2, <1>3, AccountsNat
  <2>2. QED
    BY <1>2, <2>1 DEF Amounts
<1>5. /\ deposit = [t \in Trader |-> deposit[t]]
      /\ withdrawal = [t \in Trader |-> withdrawal[t]]
      /\ \A t \in Trader : ReceiptOK(deposit[t]) /\ ReceiptOK(withdrawal[t])
  BY Zenon, <1>1 DEF ReceiptsOK
<1>6. \A t \in Trader : LotsOK(deposit[t]) /\ LotsOK(withdrawal[t])
  BY Zenon DEF FlowInv
<1>7. QED
  BY Zenon, <1>2, <1>3, <1>4, <1>5, <1>6

\* A step that moves no tokens moves nobody's.
LEMMA NoTokensMove ==
  ASSUME FlowInv, Quiet, NEW t \in Trader,
         wallet' = wallet, vault' = vault, treasury' = treasury
  PROVE  OwnTokens(t)
<1>1. wallet \in Balances /\ vault \in Amounts
  BY Zenon, FlowFacts
<1>2. \A a \in Asset : wallet[t][a] \in Int /\ vault[a] \in Int
  BY Zenon, <1>1 DEF Balances, Amounts
<1>3. QED
  BY Zenon, <1>2 DEF OwnTokens

\* A step that writes only the receipts of trader t, and moves no lots.
LEMMA ReceiptOnly ==
  ASSUME FlowInv, Quiet, NEW t \in Trader, UNCHANGED vars,
         \A u \in Trader \ {t} : deposit'[u] = deposit[u] /\ withdrawal'[u] = withdrawal[u],
         \A a \in Asset : Arriving(deposit'[t], a) = Arriving(deposit[t], a)
                          /\ Leaving(withdrawal'[t], a) = Leaving(withdrawal[t], a)
  PROVE  AccInv' /\ Touches(t)
<1>1. AccInv'
  BY Zenon, StutterAccounts DEF FlowInv
<1>2. market' = market /\ vault' = vault /\ wallet' = wallet /\ treasury' = treasury
  BY Zenon DEF vars
<1>3. \A a \in Asset : vault[a] \in Int /\ Owed(market, a) \in Int
  BY Zenon, FlowFacts
<1>4. \A a \in Asset : vault'[a] \in Int /\ Owed(market', a) \in Int
  BY Zenon, <1>2, <1>3
<1>5. OwnTokens(t)
  BY Zenon, <1>2, NoTokensMove
<1>6. OwnLots(t)
  BY Zenon, <1>2 DEF OwnLots
<1>7. QED
  BY Zenon, <1>1, <1>2, <1>4, <1>5, <1>6 DEF Touches

\* RequestDeposit: the vaults receive the lots that the receipt carries.
LEMMA RequestDepositFlows ==
  ASSUME FlowInv, NEW t \in Trader, NEW lots \in Transfers, RequestDeposit(t, lots)
  PROVE  AccInv' /\ Touches(t) /\ LotsOK(deposit'[t])
<1>1. /\ Quiet /\ lots # NoLots /\ deposit[t] = NoReceipt /\ PayIn(t, lots)
      /\ deposit' = [deposit EXCEPT ![t] = NewReceipt(lots)]
      /\ market' = market /\ treasury' = treasury /\ txn' = txn /\ withdrawal' = withdrawal
  BY Zenon DEF RequestDeposit
<1>2. /\ market \in Market /\ AccountsOK(market) /\ txn = NoTxn
      /\ vault \in Amounts /\ wallet \in Balances
      /\ \A a \in Asset : vault[a] \in Int /\ Owed(market, a) \in Int
      /\ deposit = [u \in Trader |-> deposit[u]]
      /\ ReceiptOK(deposit[t]) /\ ReceiptOK(withdrawal[t])
  BY Zenon, <1>1, FlowFacts
<1>3. lots \in [Asset -> Nat] /\ lots \in Amounts
  BY InputAssumption DEF Amounts
<1>4. AccountsOK(market') /\ txn' = NoTxn
  BY Zenon, <1>1, <1>2
<1>5. AccInv'
  BY Zenon, <1>4, TxnEnds
<1>6. deposit'[t] = NewReceipt(lots) /\ \A u \in Trader \ {t} : deposit'[u] = deposit[u]
  BY Zenon, <1>1, <1>2
<1>7. LotsOK(deposit'[t])
  BY Zenon, <1>1, <1>3, <1>6, LotsValues
<1>8. OwnTokens(t) /\ OwnLots(t)
  BY Zenon, <1>1, <1>2, <1>3, PaymentsOwn DEF OwnLots
<1>9. ASSUME NEW a \in Asset
      PROVE  /\ vault'[a] \in Int /\ Owed(market', a) \in Int
             /\ vault'[a] - Owed(market', a)
                  - (Arriving(deposit'[t], a) + Leaving(withdrawal'[t], a))
                = vault[a] - Owed(market, a)
                    - (Arriving(deposit[t], a) + Leaving(withdrawal[t], a))
  <2>1. /\ Arriving(deposit'[t], a) = lots[a] /\ Arriving(deposit[t], a) = 0
        /\ Leaving(withdrawal[t], a) \in Int /\ lots[a] \in Int
    BY Zenon, <1>1, <1>2, <1>3, <1>6, FlightValues
  <2>2. Owed(market', a) = Owed(market, a) /\ Leaving(withdrawal'[t], a) = Leaving(withdrawal[t], a)
    BY Zenon, <1>1
  <2>3. vault'[a] = vault[a] + lots[a]
    BY Zenon, <1>1 DEF PayIn
  <2>4. QED
    BY <1>2, <2>1, <2>2, <2>3
<1>10. Touches(t)
  BY Zenon, <1>1, <1>6, <1>8, <1>9 DEF Touches
<1>11. QED
  BY Zenon, <1>5, <1>7, <1>10

\* ProcessDepositEr: the lots of the receipt become lots of the trader.
LEMMA ProcessDepositFlows ==
  ASSUME FlowInv, NEW t \in Trader, ProcessDepositEr(t)
  PROVE  AccInv' /\ Touches(t) /\ LotsOK(deposit'[t])
<1> DEFINE m == get_or_register_trader(market, t)
           lots == deposit[t].lots
<1>1. /\ Quiet /\ deposit[t].at = "er" /\ ~ deposit[t].processed
      /\ market' = Credit(m, t, lots)
      /\ deposit' = [deposit EXCEPT ![t] = Processed(lots)]
      /\ vault' = vault /\ wallet' = wallet
      /\ treasury' = treasury /\ txn' = txn /\ withdrawal' = withdrawal
  BY Zenon DEF ProcessDepositEr
<1>2. /\ market \in Market /\ AccountsOK(market) /\ txn = NoTxn
      /\ vault \in Amounts /\ wallet \in Balances
      /\ \A a \in Asset : vault[a] \in Int /\ Owed(market, a) \in Int
      /\ deposit = [u \in Trader |-> deposit[u]]
      /\ ReceiptOK(deposit[t]) /\ ReceiptOK(withdrawal[t]) /\ LotsOK(deposit[t])
  BY Zenon, <1>1, FlowFacts
<1>3. lots \in [Asset -> Nat] /\ lots # NoLots
  BY Zenon, <1>1, <1>2 DEF LotsOK
<1>4. lots \in Amounts /\ \A a \in Asset : lots[a] >= 0
  BY <1>3 DEF Amounts
<1>5. /\ m \in Market /\ AccountsOK(m) /\ m.free = market.free /\ m.locked = market.locked
      /\ m.unclaimed = market.unclaimed /\ m.registered = market.registered \cup {t}
      /\ \A a \in Asset : Owed(m, a) = Owed(market, a)
  BY Zenon, <1>2, RegisterAccounts
<1>6. t \in m.registered
  BY Zenon, <1>5
<1> HIDE DEF m, lots
<1>7. /\ AccountsOK(market') /\ market'.unclaimed = m.unclaimed
      /\ market'.locked = m.locked
      /\ \A u \in Trader \ {t} : market'.free[u] = m.free[u]
      /\ \A a \in Asset : Owed(market', a) = Owed(m, a) + lots[a]
  <2>1. Credited(m, market', t, lots)
    BY Zenon, <1>1, <1>4, <1>5, <1>6, CreditAccounts
  <2>2. QED
    BY Zenon, <2>1 DEF Credited
<1>8. AccInv'
  BY Zenon, <1>1, <1>2, <1>7, TxnEnds
<1>9. deposit'[t] = Processed(lots) /\ \A u \in Trader \ {t} : deposit'[u] = deposit[u]
  BY Zenon, <1>1, <1>2
<1>10. LotsOK(deposit'[t])
  BY Zenon, <1>3, <1>9, LotsValues
<1>11. ASSUME NEW a \in Asset
       PROVE  /\ vault'[a] \in Int /\ Owed(market', a) \in Int
              /\ vault'[a] - Owed(market', a)
                   - (Arriving(deposit'[t], a) + Leaving(withdrawal'[t], a))
                 = vault[a] - Owed(market, a)
                     - (Arriving(deposit[t], a) + Leaving(withdrawal[t], a))
  <2>1. /\ Arriving(deposit'[t], a) = 0 /\ lots[a] \in Int
        /\ Leaving(withdrawal[t], a) \in Int
    BY Zenon, <1>2, <1>4, <1>9, FlightValues
  <2>2. Arriving(deposit[t], a) = lots[a]
    BY Zenon, <1>1 DEF Arriving, lots
  <2>3. vault'[a] = vault[a] /\ Leaving(withdrawal'[t], a) = Leaving(withdrawal[t], a)
    BY Zenon, <1>1
  <2>4. Owed(market', a) = Owed(market, a) + lots[a]
    BY Zenon, <1>5, <1>7
  <2>5. QED
    BY <1>2, <2>1, <2>2, <2>3, <2>4
<1>12. OwnTokens(t)
  BY Zenon, <1>1, NoTokensMove
<1>13. OwnLots(t)
  BY Zenon, <1>5, <1>7 DEF OwnLots, Holding
<1>14. Touches(t)
  BY Zenon, <1>1, <1>9, <1>11, <1>12, <1>13 DEF Touches
<1>15. QED
  BY Zenon, <1>8, <1>10, <1>14

\* A deposit's receipt comes back from the rollup, and is closed.
LEMMA DepositSettles ==
  ASSUME FlowInv, NEW t \in Trader, CloseDepositReceipt(t) \/ CommitDeposit(t)
  PROVE  AccInv' /\ Touches(t) /\ LotsOK(deposit'[t])
<1>1. Quiet /\ UNCHANGED <<vars, withdrawal>>
  BY Zenon DEF CloseDepositReceipt, CommitDeposit
<1>2. /\ deposit = [u \in Trader |-> deposit[u]]
      /\ ReceiptOK(deposit[t]) /\ LotsOK(deposit[t])
  BY Zenon, <1>1, FlowFacts
<1>3. NoLots \in Amounts
  BY DEF NoLots, Amounts
<1>4. PICK r : /\ deposit' = [deposit EXCEPT ![t] = r] /\ LotsOK(r)
               /\ \A a \in Asset : Arriving(r, a) = Arriving(deposit[t], a)
  <2>1. CASE CloseDepositReceipt(t)
    <3>1. deposit' = [deposit EXCEPT ![t] = NoReceipt] /\ deposit[t].processed
      BY Zenon, <2>1 DEF CloseDepositReceipt
    <3>2. \A a \in Asset : Arriving(NoReceipt, a) = 0
      BY Zenon, <1>2, <1>3, FlightValues
    <3>3. \A a \in Asset : Arriving(deposit[t], a) = 0
      BY Zenon, <3>1 DEF Arriving
    <3>4. QED
      BY Zenon, <3>1, <3>2, <3>3, LotsValues
  <2>2. CASE CommitDeposit(t)
    <3>1. deposit' = [deposit EXCEPT ![t] = Landed(deposit[t])] /\ deposit[t].at = "leaving"
      BY Zenon, <2>2 DEF CommitDeposit
    <3>2. \A a \in Asset : Arriving(Landed(deposit[t]), a) = Arriving(deposit[t], a)
      BY Zenon, <1>2, <1>3, FlightValues
    <3>3. QED
      BY Zenon, <1>2, <3>1, <3>2, LotsValues
  <2>3. QED
    BY Zenon, <2>1, <2>2
<1>5. deposit'[t] = r /\ \A u \in Trader \ {t} : deposit'[u] = deposit[u]
  BY Zenon, <1>2, <1>4
<1>6. /\ \A u \in Trader \ {t} : deposit'[u] = deposit[u] /\ withdrawal'[u] = withdrawal[u]
      /\ \A a \in Asset : Arriving(deposit'[t], a) = Arriving(deposit[t], a)
                          /\ Leaving(withdrawal'[t], a) = Leaving(withdrawal[t], a)
  BY Zenon, <1>1, <1>4, <1>5
<1>7. AccInv' /\ Touches(t)
  BY Zenon, <1>1, <1>6, ReceiptOnly
<1>8. QED
  BY Zenon, <1>4, <1>5, <1>7

\* ProcessWithdrawalEr: free lots of the trader become lots in flight.
LEMMA ProcessWithdrawalFlows ==
  ASSUME FlowInv, NEW t \in Trader, ProcessWithdrawalEr(t)
  PROVE  AccInv' /\ Touches(t) /\ LotsOK(withdrawal'[t])
<1> DEFINE want == withdrawal[t].lots
           lots == Claimable(market, t, want)
<1>1. /\ Quiet /\ ~ withdrawal[t].processed /\ t \in market.registered
      /\ lots # NoLots /\ market' = Debit(market, t, lots)
      /\ withdrawal' = [withdrawal EXCEPT ![t] = Processed(lots)]
      /\ vault' = vault /\ wallet' = wallet
      /\ treasury' = treasury /\ txn' = txn /\ deposit' = deposit
  BY Zenon DEF ProcessWithdrawalEr
<1>2. /\ market \in Market /\ AccountsOK(market) /\ txn = NoTxn
      /\ vault \in Amounts /\ wallet \in Balances
      /\ \A a \in Asset : vault[a] \in Int /\ Owed(market, a) \in Int
      /\ withdrawal = [u \in Trader |-> withdrawal[u]]
      /\ ReceiptOK(deposit[t]) /\ ReceiptOK(withdrawal[t]) /\ LotsOK(withdrawal[t])
  BY Zenon, <1>1, FlowFacts
<1>3. want \in [Asset -> Nat]
  BY Zenon, <1>2 DEF LotsOK
<1>4. want \in Amounts
  BY <1>3 DEF Amounts
<1>5. lots \in [Asset -> Nat] /\ lots \in Amounts /\ \A a \in Asset : lots[a] <= market.free[t][a]
  <2>1. \A a \in Asset : market.free[t][a] \in Nat /\ want[a] \in Nat
    BY Zenon, <1>2, <1>3, AccountsNat
  <2>2. lots \in Amounts /\ \A a \in Asset : lots[a] <= market.free[t][a]
    BY Zenon, <1>2, <1>4, ClaimableWithin
  <2>3. lots = [a \in Asset |-> Least(want[a], market.free[t][a])]
    BY Zenon DEF Claimable
  <2>4. \A a \in Asset : Least(want[a], market.free[t][a]) \in Nat
    BY Zenon, <2>1 DEF Least
  <2>5. QED
    BY Zenon, <2>2, <2>3, <2>4
<1> HIDE DEF want, lots
<1>7. /\ AccountsOK(market') /\ market'.unclaimed = market.unclaimed
      /\ market'.locked = market.locked
      /\ \A u \in Trader \ {t} : market'.free[u] = market.free[u]
      /\ \A a \in Asset : Owed(market', a) = Owed(market, a) - lots[a]
  BY <1>1, <1>2, <1>5, DebitAccounts
<1>8. AccInv'
  BY Zenon, <1>1, <1>2, <1>7, TxnEnds
<1>9. withdrawal'[t] = Processed(lots)
      /\ \A u \in Trader \ {t} : withdrawal'[u] = withdrawal[u]
  BY Zenon, <1>1, <1>2
<1>10. LotsOK(withdrawal'[t])
  BY Zenon, <1>1, <1>5, <1>9, LotsValues
<1>11. ASSUME NEW a \in Asset
       PROVE  /\ vault'[a] \in Int /\ Owed(market', a) \in Int
              /\ vault'[a] - Owed(market', a)
                   - (Arriving(deposit'[t], a) + Leaving(withdrawal'[t], a))
                 = vault[a] - Owed(market, a)
                     - (Arriving(deposit[t], a) + Leaving(withdrawal[t], a))
  <2>1. /\ Leaving(withdrawal'[t], a) = lots[a] /\ lots[a] \in Int
        /\ Arriving(deposit[t], a) \in Int
    BY Zenon, <1>2, <1>5, <1>9, FlightValues
  <2>2. Leaving(withdrawal[t], a) = 0
    BY Zenon, <1>1 DEF Leaving
  <2>3. vault'[a] = vault[a] /\ Arriving(deposit'[t], a) = Arriving(deposit[t], a)
    BY Zenon, <1>1
  <2>4. QED
    BY <1>2, <1>7, <2>1, <2>2, <2>3
<1>12. OwnTokens(t)
  BY Zenon, <1>1, NoTokensMove
<1>13. OwnLots(t)
  BY Zenon, <1>7 DEF OwnLots, Holding
<1>14. Touches(t)
  BY Zenon, <1>1, <1>9, <1>11, <1>12, <1>13 DEF Touches
<1>15. QED
  BY Zenon, <1>8, <1>10, <1>14

\* ExecuteWithdrawalBaseChain: the vaults pay what the receipt carries.
LEMMA ExecuteWithdrawalFlows ==
  ASSUME FlowInv, NEW t \in Trader, ExecuteWithdrawalBaseChain(t)
  PROVE  AccInv' /\ Touches(t) /\ LotsOK(withdrawal'[t])
<1> DEFINE lots == withdrawal[t].lots
<1>1. /\ Quiet /\ withdrawal[t].processed /\ PayOut(t, lots)
      /\ withdrawal' = [withdrawal EXCEPT ![t] = NoReceipt]
      /\ market' = market /\ treasury' = treasury /\ txn' = txn /\ deposit' = deposit
  BY Zenon DEF ExecuteWithdrawalBaseChain
<1>2. /\ market \in Market /\ AccountsOK(market) /\ txn = NoTxn
      /\ vault \in Amounts /\ wallet \in Balances
      /\ \A a \in Asset : vault[a] \in Int /\ Owed(market, a) \in Int
      /\ withdrawal = [u \in Trader |-> withdrawal[u]]
      /\ ReceiptOK(deposit[t]) /\ ReceiptOK(withdrawal[t])
  BY Zenon, <1>1, FlowFacts
<1>3. lots \in Amounts
  BY Zenon, <1>2 DEF ReceiptOK
<1>4. AccountsOK(market') /\ txn' = NoTxn
  BY Zenon, <1>1, <1>2
<1>5. AccInv'
  BY Zenon, <1>4, TxnEnds
<1>6. withdrawal'[t] = NoReceipt /\ \A u \in Trader \ {t} : withdrawal'[u] = withdrawal[u]
  BY Zenon, <1>1, <1>2
<1>7. LotsOK(withdrawal'[t])
  BY Zenon, <1>6, LotsValues
<1> HIDE DEF lots
<1>8. OwnTokens(t) /\ OwnLots(t)
  BY Zenon, <1>1, <1>2, <1>3, PaymentsOwn DEF OwnLots
<1>9. ASSUME NEW a \in Asset
      PROVE  /\ vault'[a] \in Int /\ Owed(market', a) \in Int
             /\ vault'[a] - Owed(market', a)
                  - (Arriving(deposit'[t], a) + Leaving(withdrawal'[t], a))
                = vault[a] - Owed(market, a)
                    - (Arriving(deposit[t], a) + Leaving(withdrawal[t], a))
  <2>1. /\ Leaving(withdrawal'[t], a) = 0 /\ lots[a] \in Int
        /\ Arriving(deposit[t], a) \in Int
    BY Zenon, <1>2, <1>3, <1>6, FlightValues
  <2>2. Leaving(withdrawal[t], a) = lots[a]
    BY Zenon, <1>1 DEF Leaving, lots
  <2>3. Owed(market', a) = Owed(market, a) /\ Arriving(deposit'[t], a) = Arriving(deposit[t], a)
    BY Zenon, <1>1
  <2>4. vault'[a] = vault[a] - lots[a]
    BY Zenon, <1>1 DEF PayOut
  <2>5. QED
    BY <1>2, <2>1, <2>2, <2>3, <2>4
<1>10. Touches(t)
  BY Zenon, <1>1, <1>6, <1>8, <1>9 DEF Touches
<1>11. QED
  BY Zenon, <1>5, <1>7, <1>10

\* A withdrawal's receipt is requested, and comes back from the rollup.
LEMMA WithdrawalTravels ==
  ASSUME FlowInv, NEW t \in Trader, NEW lots,
         \/ lots \in Transfers /\ RequestWithdrawal(t, lots)
         \/ CommitWithdrawal(t)
  PROVE  AccInv' /\ Touches(t) /\ LotsOK(withdrawal'[t])
<1>1. Quiet /\ UNCHANGED <<vars, deposit>>
  BY Zenon DEF RequestWithdrawal, CommitWithdrawal
<1>2. /\ withdrawal = [u \in Trader |-> withdrawal[u]]
      /\ ReceiptOK(withdrawal[t]) /\ LotsOK(withdrawal[t])
  BY Zenon, <1>1, FlowFacts
<1>3. NoLots \in Amounts
  BY DEF NoLots, Amounts
<1>4. PICK r : /\ withdrawal' = [withdrawal EXCEPT ![t] = r] /\ LotsOK(r)
               /\ \A a \in Asset : Leaving(r, a) = Leaving(withdrawal[t], a)
  <2>1. CASE lots \in Transfers /\ RequestWithdrawal(t, lots)
    <3>1. /\ withdrawal' = [withdrawal EXCEPT ![t] = NewReceipt(lots)]
          /\ withdrawal[t] = NoReceipt /\ lots # NoLots
      BY Zenon, <2>1 DEF RequestWithdrawal
    <3>2. lots \in [Asset -> Nat] /\ lots \in Amounts
      BY <2>1, InputAssumption DEF Amounts
    <3>3. \A a \in Asset : Leaving(NewReceipt(lots), a) = 0 /\ Leaving(NoReceipt, a) = 0
      BY Zenon, <1>2, <3>2, FlightValues
    <3>4. QED
      BY Zenon, <3>1, <3>2, <3>3, LotsValues
  <2>2. CASE CommitWithdrawal(t)
    <3>1. /\ withdrawal' = [withdrawal EXCEPT ![t] = Landed(withdrawal[t])]
          /\ withdrawal[t].at = "leaving"
      BY Zenon, <2>2 DEF CommitWithdrawal
    <3>2. \A a \in Asset : Leaving(Landed(withdrawal[t]), a) = Leaving(withdrawal[t], a)
      BY Zenon, <1>2, <1>3, FlightValues
    <3>3. QED
      BY Zenon, <1>2, <3>1, <3>2, LotsValues
  <2>3. QED
    BY Zenon, <2>1, <2>2
<1>5. withdrawal'[t] = r /\ \A u \in Trader \ {t} : withdrawal'[u] = withdrawal[u]
  BY Zenon, <1>2, <1>4
<1>6. /\ \A u \in Trader \ {t} : deposit'[u] = deposit[u] /\ withdrawal'[u] = withdrawal[u]
      /\ \A a \in Asset : Arriving(deposit'[t], a) = Arriving(deposit[t], a)
                          /\ Leaving(withdrawal'[t], a) = Leaving(withdrawal[t], a)
  BY Zenon, <1>1, <1>4, <1>5
<1>7. AccInv' /\ Touches(t)
  BY Zenon, <1>1, <1>6, ReceiptOnly
<1>8. QED
  BY Zenon, <1>4, <1>5, <1>7

\* Whatever a step on the receipts does, it is a step on those of one trader.
LEMMA ReceiptStepFlows ==
  ASSUME FlowInv, ReceiptStep
  PROVE  /\ Quiet /\ AccInv' /\ UNCHANGED <<home, txn>>
         /\ \E t \in Trader :
              Touches(t) /\ LotsOK(deposit'[t]) /\ LotsOK(withdrawal'[t])
<1>1. \A t \in Trader : LotsOK(deposit[t]) /\ LotsOK(withdrawal[t])
  BY Zenon DEF FlowInv
<1>2. PICK t \in Trader :
        \/ \E lots \in Transfers : RequestDeposit(t, lots) \/ RequestWithdrawal(t, lots)
        \/ ProcessDepositEr(t) \/ CloseDepositReceipt(t)
        \/ ProcessWithdrawalEr(t) \/ ExecuteWithdrawalBaseChain(t)
        \/ CommitDeposit(t) \/ CommitWithdrawal(t)
  BY Zenon DEF ReceiptStep
<1>3. CASE \/ \E lots \in Transfers : RequestDeposit(t, lots)
           \/ ProcessDepositEr(t) \/ CloseDepositReceipt(t) \/ CommitDeposit(t)
  <2>1. AccInv' /\ Touches(t) /\ LotsOK(deposit'[t])
    BY Zenon, <1>3, RequestDepositFlows, ProcessDepositFlows, DepositSettles
  <2>2. Quiet /\ withdrawal' = withdrawal /\ home' = home /\ txn' = txn
    BY Zenon, <1>3 DEF RequestDeposit, ProcessDepositEr, CloseDepositReceipt,
       CommitDeposit, vars
  <2>3. QED
    BY Zenon, <1>1, <2>1, <2>2
<1>4. CASE \/ \E lots \in Transfers : RequestWithdrawal(t, lots)
           \/ ProcessWithdrawalEr(t) \/ ExecuteWithdrawalBaseChain(t)
           \/ CommitWithdrawal(t)
  <2>1. AccInv' /\ Touches(t) /\ LotsOK(withdrawal'[t])
    BY Zenon, <1>4, ProcessWithdrawalFlows, ExecuteWithdrawalFlows, WithdrawalTravels
  <2>2. Quiet /\ deposit' = deposit /\ home' = home /\ txn' = txn
    BY Zenon, <1>4 DEF RequestWithdrawal, ProcessWithdrawalEr,
       ExecuteWithdrawalBaseChain, CommitWithdrawal, vars
  <2>3. QED
    BY Zenon, <1>1, <2>1, <2>2
<1>5. QED
  BY Zenon, <1>2, <1>3, <1>4

\* Steps that leave the accounts and the receipts as they are.
LEMMA RollupStutters ==
  ASSUME \/ DelegateMarket \/ CommitAndUndelegateMarket \/ UndelegateMarket
         \/ UNCHANGED rollupVars
  PROVE  UNCHANGED <<vars, deposit, withdrawal>>
BY Zenon DEF DelegateMarket, CommitAndUndelegateMarket, UndelegateMarket, rollupVars, rollup

----------------------------------------------------------------------------
(* Vaults and wallets on two layers.                                       *)

\* The lots in flight of a trader are those of its two receipts.
LEMMA FlightIs ==
  ASSUME NEW t \in Trader, NEW a \in Asset
  PROVE  /\ InFlight(t, a) = Arriving(deposit[t], a) + Leaving(withdrawal[t], a)
         /\ InFlight(t, a)' = Arriving(deposit'[t], a) + Leaving(withdrawal'[t], a)
BY Zenon DEF InFlight, Arriving, Leaving

\* They are whole lots.
LEMMA FlightInt ==
  ASSUME RollupInv, RollupInv', NEW t \in Trader, NEW a \in Asset
  PROVE  InFlight(t, a) \in Int /\ InFlight(t, a)' \in Int
<1>1. /\ ReceiptOK(deposit[t]) /\ ReceiptOK(withdrawal[t])
      /\ ReceiptOK(deposit'[t]) /\ ReceiptOK(withdrawal'[t])
  BY Zenon DEF RollupInv, ReceiptsOK, ReceiptOK
<1>2. NoLots \in Amounts
  BY DEF NoLots, Amounts
<1>3. /\ Arriving(deposit[t], a) \in Int /\ Leaving(withdrawal[t], a) \in Int
      /\ Arriving(deposit'[t], a) \in Int /\ Leaving(withdrawal'[t], a) \in Int
  BY Zenon, <1>1, <1>2, FlightValues
<1>4. QED
  BY <1>3, FlightIs

\* When the market's debts change for one trader, they change as much as
\* the lots of that trader.
LEMMA OwedFollowsOwner ==
  ASSUME NEW t \in Trader, NEW a \in Asset, market \in Market, market' \in Market,
         OwnLots(t)
  PROVE  /\ Holding(market', t, a) \in Int /\ Holding(market, t, a) \in Int
         /\ Owed(market', a) \in Int /\ Owed(market, a) \in Int
         /\ Owed(market', a) - Owed(market, a) = Holding(market', t, a) - Holding(market, t, a)
<1>1. Holding(market', t, a) \in Int /\ Holding(market, t, a) \in Int
  BY Zenon, HoldingType
<1>2. PICK n \in Int : n = Holding(market', t, a) - Holding(market, t, a)
  BY <1>1
<1>3. Holding(market', t, a) = Holding(market, t, a) + n
  BY <1>1, <1>2
<1>4. market.unclaimed \in Int
  BY Zenon DEF Market
<1>5. market'.unclaimed = market.unclaimed + 0
  BY <1>4 DEF OwnLots
<1>6. \A u \in Trader \ {t} : Holding(market', u, a) = Holding(market, u, a)
  BY Zenon DEF OwnLots
<1>7. 0 \in Int /\ (IF a = "quote" THEN 0 ELSE 0) = 0
  OBVIOUS
<1>8. /\ Owed(market, a) \in Int
      /\ Owed(market', a) = Owed(market, a) + n + (IF a = "quote" THEN 0 ELSE 0)
  BY <1>3, <1>5, <1>6, <1>7, OwedShift
<1>9. QED
  BY <1>1, <1>2, <1>7, <1>8

\* A step on the receipts of a trader moves lots of that trader between its
\* wallet, the market and its receipts.
LEMMA TouchesMoves ==
  ASSUME FlowInv, FlowInv', NEW t \in Trader, Touches(t), NEW a \in Asset
  PROVE  /\ wallet'[t][a] + (Holding(market', t, a) + InFlight(t, a)')
              = wallet[t][a] + (Holding(market, t, a) + InFlight(t, a))
         /\ \A u \in Trader \ {t} :
              /\ wallet'[u] = wallet[u]
              /\ Holding(market', u, a) = Holding(market, u, a)
              /\ InFlight(u, a)' = InFlight(u, a)
<1>1. /\ market \in Market /\ vault \in Amounts /\ wallet \in Balances
      /\ market' \in Market
  BY Zenon DEF FlowInv, RollupInv, IndInv, TypeOK
<1>2. OwnTokens(t) /\ OwnLots(t)
  BY Zenon DEF Touches
<1>3. /\ Holding(market', t, a) \in Int /\ Holding(market, t, a) \in Int
      /\ Owed(market', a) \in Int /\ Owed(market, a) \in Int
      /\ Owed(market', a) - Owed(market, a) = Holding(market', t, a) - Holding(market, t, a)
  BY Zenon, <1>1, <1>2, OwedFollowsOwner
<1>4. /\ wallet'[t][a] \in Int
      /\ vault'[a] + wallet'[t][a] = vault[a] + wallet[t][a]
  BY Zenon, <1>2 DEF OwnTokens
<1>5. wallet[t][a] \in Int /\ vault[a] \in Int
  BY Zenon, <1>1 DEF Balances, Amounts
<1>6. InFlight(t, a) \in Int /\ InFlight(t, a)' \in Int
  BY Zenon, FlightInt DEF FlowInv
<1>7. /\ vault'[a] \in Int
      /\ vault'[a] - Owed(market', a) - InFlight(t, a)'
         = vault[a] - Owed(market, a) - InFlight(t, a)
  BY Zenon, FlightIs DEF Touches
<1>8. wallet'[t][a] + (Holding(market', t, a) + InFlight(t, a)')
        = wallet[t][a] + (Holding(market, t, a) + InFlight(t, a))
  <2>1. PICK f \in Int, g \in Int : f = InFlight(t, a) /\ g = InFlight(t, a)'
    BY Zenon, <1>6
  <2>2. PICK o \in Int, p \in Int : o = Owed(market, a) /\ p = Owed(market', a)
    BY Zenon, <1>3
  <2>3. PICK h \in Int, i \in Int :
          h = Holding(market, t, a) /\ i = Holding(market', t, a)
    BY Zenon, <1>3
  <2>4. PICK v \in Int, w \in Int : v = vault[a] /\ w = vault'[a]
    BY Zenon, <1>5, <1>7
  <2>5. PICK x \in Int, y \in Int : x = wallet[t][a] /\ y = wallet'[t][a]
    BY Zenon, <1>4, <1>5
  <2>6. /\ p - o = i - h
        /\ w + y = v + x
        /\ w - p - g = v - o - f
    BY Zenon, <1>3, <1>4, <1>7, <2>1, <2>2, <2>3, <2>4, <2>5
  <2>7. y + (i + g) = x + (h + f)
    BY <2>6
  <2>8. QED
    BY Zenon, <2>1, <2>3, <2>5, <2>7
<1>9. ASSUME NEW u \in Trader \ {t}
      PROVE  /\ wallet'[u] = wallet[u]
             /\ Holding(market', u, a) = Holding(market, u, a)
             /\ InFlight(u, a)' = InFlight(u, a)
  <2>1. wallet'[u] = wallet[u] /\ Holding(market', u, a) = Holding(market, u, a)
    BY Zenon, <1>2 DEF OwnTokens, OwnLots
  <2>2. deposit'[u] = deposit[u] /\ withdrawal'[u] = withdrawal[u]
    BY Zenon DEF Touches
  <2>3. QED
    BY Zenon, <2>1, <2>2 DEF InFlight
<1>10. QED
  BY Zenon, <1>8, <1>9

\* The lots in flight of all traders change as those of one trader do.
LEMMA FlightsShift ==
  ASSUME RollupInv, RollupInv', NEW t \in Trader, NEW a \in Asset,
         \A u \in Trader \ {t} : InFlight(u, a)' = InFlight(u, a)
  PROVE  \E n \in Int :
           /\ InFlight(t, a)' = InFlight(t, a) + n
           /\ SumFunctionOnSet([u \in Trader |-> InFlight(u, a)'], Trader)
                = SumFunctionOnSet([u \in Trader |-> InFlight(u, a)], Trader) + n
           /\ SumFunctionOnSet([u \in Trader |-> InFlight(u, a)], Trader) \in Int
<1> DEFINE f == [u \in Trader |-> InFlight(u, a)]
           g == [u \in Trader |-> InFlight(u, a)']
<1>1. \A u \in Trader : f[u] \in Int /\ g[u] \in Int
  BY Zenon, FlightInt
<1>2. \A u \in Trader \ {t} : g[u] = f[u]
  BY Zenon
<1>3. f[t] = InFlight(t, a) /\ g[t] = InFlight(t, a)'
  BY Zenon
<1> HIDE DEF f, g
<1>4. PICK n \in Int : g[t] = f[t] + n
  <2>1. f[t] \in Int /\ g[t] \in Int
    BY Zenon, <1>1
  <2>2. PICK n \in Int : n = g[t] - f[t]
    BY <2>1
  <2>3. g[t] = f[t] + n
    BY <2>1, <2>2
  <2>4. QED
    BY Zenon, <2>3
<1>5. /\ SumFunctionOnSet(g, Trader) = SumFunctionOnSet(f, Trader) + n
      /\ SumFunctionOnSet(f, Trader) \in Int
  BY <1>1, <1>2, <1>4, SumChange, SumInt, TraderAssumption
<1>6. InFlight(t, a)' = InFlight(t, a) + n
  BY Zenon, <1>3, <1>4
<1>7. QED
  BY Zenon, <1>5, <1>6 DEF f, g

----------------------------------------------------------------------------
(* The promise of Custody.                                                 *)

\* Lots of one trader that move between its wallet and its claim.
LEMMA MoveIs ==
  ASSUME NEW t \in Trader,
         \A a \in Asset : wallet'[t][a] + (Holding(market', t, a) + InFlight(t, a)')
                          = wallet[t][a] + (Holding(market, t, a) + InFlight(t, a)),
         \A u \in Trader \ {t} : wallet'[u] = wallet[u],
         \A u \in Trader \ {t}, a \in Asset :
           Holding(market', u, a) = Holding(market, u, a) /\ InFlight(u, a)' = InFlight(u, a),
         market'.unclaimed + treasury' = market.unclaimed + treasury
  PROVE  Ledger!Move(t)
BY Zenon DEF Ledger!Move

\* Steps that move nothing.
LEMMA LedgerStutters ==
  ASSUME NobodysAccounts, UNCHANGED <<deposit, withdrawal>>
  PROVE  UNCHANGED Ledger!vars
<1>1. /\ wallet' = wallet
      /\ market'.unclaimed + treasury' = market.unclaimed + treasury
      /\ \A u \in Trader, a \in Asset : Holding(market', u, a) = Holding(market, u, a)
  BY Zenon DEF NobodysAccounts
<1>2. \A u \in Trader, a \in Asset : InFlight(u, a)' = InFlight(u, a)
  BY Zenon DEF InFlight
<1>3. [t \in Trader |-> [a \in Asset |-> Holding(market', t, a) + InFlight(t, a)']]
      = [t \in Trader |-> [a \in Asset |-> Holding(market, t, a) + InFlight(t, a)]]
  BY Zenon, <1>1, <1>2
<1>4. QED
  BY Zenon, <1>1, <1>3 DEF Ledger!vars

\* A market that is empty, and no receipts.
LEMMA LedgerStarts ==
  ASSUME RollupInit
  PROVE  Ledger!Init
<1>1. Init /\ \A t \in Trader : deposit[t] = NoReceipt /\ withdrawal[t] = NoReceipt
  BY Zenon DEF RollupInit
<1>2. /\ market.unclaimed = 0 /\ treasury = 0
      /\ market.free = [t \in Trader |-> NoLots]
      /\ market.locked = [t \in Trader |-> NoLots]
  BY Zenon, <1>1 DEF Init, EmptyMarket
<1>3. ASSUME NEW t \in Trader, NEW a \in Asset
      PROVE  Holding(market, t, a) + InFlight(t, a) = 0
  <2>1. NoReceipt.lots[a] = 0 /\ NoReceipt.processed = FALSE
    BY Zenon DEF NoReceipt, NoLots
  <2>2. InFlight(t, a) = 0 + 0
    BY Zenon, <1>1, <2>1 DEF InFlight
  <2>3. Holding(market, t, a) = 0
    BY <1>2 DEF Holding, NoLots
  <2>4. QED
    BY <2>2, <2>3
<1>4. wallet \in [Trader -> [Asset -> Nat]]
  BY Zenon, <1>1, InputAssumption DEF Init
<1>5. market.unclaimed + treasury = 0
  BY <1>2
<1>6. [t \in Trader |-> [a \in Asset |-> Holding(market, t, a) + InFlight(t, a)]]
      = [t \in Trader |-> [a \in Asset |-> 0]]
  BY Zenon, <1>3
<1>7. QED
  BY Zenon, <1>4, <1>5, <1>6 DEF Ledger!Init

\* Everything there is of an asset, as the ledger counts it.
LEMMA LedgerSum ==
  ASSUME NEW f, NEW S
  PROVE  Ledger!SumFunctionOnSet(f, S) = SumFunctionOnSet(f, S)
BY Zenon DEF Ledger!SumFunctionOnSet, SumFunctionOnSet, Ledger!FoldFunctionOnSet,
   FoldFunctionOnSet, Ledger!MapThenFoldSet, MapThenFoldSet

\* Everything there is of an asset: tokens in wallets w, debts of market m,
\* lots in flight and k collected fees.
Totals(m, w, fl, a, k) ==
  /\ SumFunctionOnSet([t \in Trader |-> w[t][a] + (Holding(m, t, a) + fl[t])], Trader)
       + (IF a = "quote" THEN m.unclaimed + k ELSE 0)
     = SumFunctionOnSet([t \in Trader |-> w[t][a]], Trader) + Owed(m, a)
         + SumFunctionOnSet(fl, Trader) + (IF a = "quote" THEN k ELSE 0)
  /\ SumFunctionOnSet([t \in Trader |-> w[t][a]], Trader) \in Int
  /\ Owed(m, a) \in Int
  /\ SumFunctionOnSet(fl, Trader) \in Int

\* The sum over the traders is the sum of its parts.
LEMMA TotalIs ==
  ASSUME NEW m \in Market, NEW w \in Balances, NEW fl \in [Trader -> Int],
         NEW a \in Asset, NEW k \in Int
  PROVE  Totals(m, w, fl, a, k)
<1> DEFINE f == [t \in Trader |-> w[t][a]]
           h == [t \in Trader |-> Holding(m, t, a)]
           c == [t \in Trader |-> Holding(m, t, a) + fl[t]]
           all == [t \in Trader |-> w[t][a] + (Holding(m, t, a) + fl[t])]
<1>1. ASSUME NEW t \in Trader
      PROVE  /\ f[t] \in Int /\ h[t] \in Int /\ fl[t] \in Int /\ c[t] \in Int
             /\ c[t] = h[t] + fl[t] /\ all[t] = f[t] + c[t]
  <2>1. Holding(m, t, a) \in Int
    BY Zenon, HoldingType
  <2>2. w[t][a] \in Int
    BY Zenon DEF Balances, Amounts
  <2>3. QED
    BY <2>1, <2>2
<1>2. Owed(m, a) = SumFunctionOnSet(h, Trader) + (IF a = "quote" THEN m.unclaimed ELSE 0)
  BY Zenon DEF Owed
<1>3. m.unclaimed \in Int
  BY Zenon DEF Market
<1> HIDE DEF f, h, c, all
<1>4. SumFunctionOnSet(c, Trader) = SumFunctionOnSet(h, Trader) + SumFunctionOnSet(fl, Trader)
  BY <1>1, SumPlus, TraderAssumption
<1>5. SumFunctionOnSet(all, Trader) = SumFunctionOnSet(f, Trader) + SumFunctionOnSet(c, Trader)
  BY <1>1, SumPlus, TraderAssumption
<1>6. /\ SumFunctionOnSet(f, Trader) \in Int /\ SumFunctionOnSet(h, Trader) \in Int
      /\ SumFunctionOnSet(fl, Trader) \in Int
  BY Zenon, <1>1, SumInt, TraderAssumption
<1>7. /\ SumFunctionOnSet(all, Trader) + (IF a = "quote" THEN m.unclaimed + k ELSE 0)
         = SumFunctionOnSet(f, Trader) + Owed(m, a) + SumFunctionOnSet(fl, Trader)
             + (IF a = "quote" THEN k ELSE 0)
      /\ Owed(m, a) \in Int
  <2>1. CASE a = "quote"
    BY <1>2, <1>3, <1>4, <1>5, <1>6, <2>1
  <2>2. CASE a # "quote"
    BY <1>2, <1>3, <1>4, <1>5, <1>6, <2>2
  <2>3. QED
    BY Zenon, <2>1, <2>2
<1>8. QED
  BY Zenon, <1>6, <1>7 DEF Totals, f, all

\* An order makes and loses no lots: what leaves the wallets enters the
\* vaults, and the market owes it.
LEMMA TradeKeepsTotal ==
  ASSUME IndInv, IndInv', RollupInv, RollupInv', VaultsFollow, NEW t \in Trader,
         OwnTokens(t), UNCHANGED <<deposit, withdrawal>>, NEW a \in Asset
  PROVE  SumFunctionOnSet([u \in Trader |->
             wallet'[u][a] + (Holding(market', u, a) + InFlight(u, a)')], Trader)
           + (IF a = "quote" THEN market'.unclaimed + treasury' ELSE 0)
         = SumFunctionOnSet([u \in Trader |->
             wallet[u][a] + (Holding(market, u, a) + InFlight(u, a))], Trader)
           + (IF a = "quote" THEN market.unclaimed + treasury ELSE 0)
<1>1. /\ market \in Market /\ market' \in Market /\ wallet \in Balances
      /\ wallet' \in Balances /\ treasury \in Int /\ treasury' \in Int
      /\ vault \in Amounts /\ vault' \in Amounts
  BY Zenon DEF IndInv, TypeOK
<1> DEFINE fl == [u \in Trader |-> InFlight(u, a)]
           f == [u \in Trader |-> wallet[u][a]]
           g == [u \in Trader |-> wallet'[u][a]]
<1>2. fl \in [Trader -> Int] /\ \A u \in Trader : fl[u] = InFlight(u, a)
  BY Zenon, FlightInt
<1>3. \A u \in Trader : InFlight(u, a)' = fl[u]
  BY Zenon DEF InFlight
<1>4. /\ [u \in Trader |-> wallet'[u][a] + (Holding(market', u, a) + InFlight(u, a)')]
         = [u \in Trader |-> wallet'[u][a] + (Holding(market', u, a) + fl[u])]
      /\ [u \in Trader |-> wallet[u][a] + (Holding(market, u, a) + InFlight(u, a))]
         = [u \in Trader |-> wallet[u][a] + (Holding(market, u, a) + fl[u])]
  BY Zenon, <1>2, <1>3
<1> HIDE DEF fl
<1> DEFINE all == SumFunctionOnSet([u \in Trader |->
                    wallet[u][a] + (Holding(market, u, a) + fl[u])], Trader)
           allNext == SumFunctionOnSet([u \in Trader |->
                        wallet'[u][a] + (Holding(market', u, a) + fl[u])], Trader)
<1>5. /\ all + (IF a = "quote" THEN market.unclaimed + treasury ELSE 0)
         = SumFunctionOnSet(f, Trader) + Owed(market, a) + SumFunctionOnSet(fl, Trader)
             + (IF a = "quote" THEN treasury ELSE 0)
      /\ SumFunctionOnSet(f, Trader) \in Int
      /\ Owed(market, a) \in Int
      /\ SumFunctionOnSet(fl, Trader) \in Int
  <2>1. Totals(market, wallet, fl, a, treasury)
    BY Zenon, <1>1, <1>2, TotalIs
  <2>2. QED
    BY Zenon, <2>1 DEF Totals
<1>6. /\ allNext + (IF a = "quote" THEN market'.unclaimed + treasury' ELSE 0)
         = SumFunctionOnSet(g, Trader) + Owed(market', a) + SumFunctionOnSet(fl, Trader)
             + (IF a = "quote" THEN treasury' ELSE 0)
      /\ SumFunctionOnSet(g, Trader) \in Int
      /\ Owed(market', a) \in Int
  <2>1. Totals(market', wallet', fl, a, treasury')
    BY Zenon, <1>1, <1>2, TotalIs
  <2>2. QED
    BY Zenon, <2>1 DEF Totals
<1>7. treasury' = treasury
  BY Zenon DEF OwnTokens
<1>8. \A u \in Trader : f[u] \in Int /\ g[u] \in Int
  BY Zenon, <1>1 DEF Balances, Amounts
<1>9. \A u \in Trader \ {t} : g[u] = f[u]
  BY Zenon DEF OwnTokens
<1> HIDE DEF f, g, all, allNext
<1>10. PICK s \in Int, r \in Int, o \in Int, p \in Int, x \in Int :
         /\ s = SumFunctionOnSet(f, Trader) /\ r = SumFunctionOnSet(g, Trader)
         /\ o = Owed(market, a) /\ p = Owed(market', a)
         /\ x = SumFunctionOnSet(fl, Trader)
  BY Zenon, <1>5, <1>6
<1>11. PICK v \in Int, w \in Int : v = vault[a] /\ w = vault'[a]
  BY Zenon, <1>1 DEF Amounts
<1>12. PICK i \in Int, j \in Int : i = f[t] /\ j = g[t]
  BY Zenon, <1>8
<1>13. w - p = v - o
  BY Zenon, <1>10, <1>11 DEF VaultsFollow
<1>14. w + j = v + i
  BY Zenon, <1>11, <1>12 DEF OwnTokens, f, g
<1>15. PICK d \in Int : d = v - w /\ j = i + d
  BY <1>14
<1>16. g[t] = f[t] + d
  BY Zenon, <1>12, <1>15
<1>17. r = s + d
  BY <1>8, <1>9, <1>10, <1>16, SumChange, TraderAssumption
<1>18. PICK k \in Int : k = IF a = "quote" THEN treasury ELSE 0
  BY <1>1
<1>19. r + p + x + k = s + o + x + k
  BY <1>13, <1>15, <1>17
<1>20. /\ all + (IF a = "quote" THEN market.unclaimed + treasury ELSE 0) = s + o + x + k
       /\ allNext + (IF a = "quote" THEN market'.unclaimed + treasury' ELSE 0) = r + p + x + k
  BY Zenon, <1>5, <1>6, <1>7, <1>10, <1>18
<1>21. QED
  BY Zenon, <1>4, <1>19, <1>20 DEF all, allNext

\* A maker that gives lots of one asset receives lots of the other.
LEMMA PriceIsPaid ==
  ASSUME NEW m0 \in Market, NEW m \in Market, NEW t \in Trader, NEW side,
         GotItsPrice(m0, m, t, side),
         \E a \in Asset : Holding(m, t, a) < Holding(m0, t, a)
  PROVE  \E a \in Asset : Holding(m, t, a) > Holding(m0, t, a)
<1> DEFINE dq == Holding(m, t, "quote") - Holding(m0, t, "quote")
           db == Holding(m, t, "base") - Holding(m0, t, "base")
<1>1. "quote" \in Asset /\ "base" \in Asset /\ \A a \in Asset : a = "quote" \/ a = "base"
  BY Zenon DEF Asset
<1>2. \A a \in Asset : Holding(m, t, a) \in Int /\ Holding(m0, t, a) \in Int
  BY Zenon, HoldingType
<1>3. dq \in Int /\ db \in Int
  BY <1>1, <1>2
<1>4. dq < 0 \/ db < 0
  BY <1>1, <1>2
<1>5. dq > 0 \/ db > 0 => \E a \in Asset : Holding(m, t, a) > Holding(m0, t, a)
  BY <1>1, <1>2
<1>6. \/ dq = 0 /\ db = 0
      \/ /\ dq <= 0 /\ db >= 0
         /\ \E b \in m0.book["Bid"] : - dq * BaseLotsPerBaseUnit <= AdjustedQuote(b.price, db)
      \/ /\ dq >= 0 /\ db <= 0
         /\ \E a \in m0.book["Ask"] : dq * BaseLotsPerBaseUnit >= AdjustedQuote(a.price, - db)
  BY Zenon DEF GotItsPrice
<1>7. \A s \in Side : \A o \in m0.book[s] : o.price \in Nat \ {0}
  BY DEF Market, Book, Order
<1>8. "Bid" \in Side /\ "Ask" \in Side
  BY Zenon DEF Side
<1> HIDE DEF dq, db
<1>9. ASSUME dq <= 0, db >= 0, NEW b \in m0.book["Bid"],
             - dq * BaseLotsPerBaseUnit <= AdjustedQuote(b.price, db)
      PROVE  dq > 0 \/ db > 0
  <2>1. SUFFICES ASSUME db = 0 PROVE FALSE
    BY <1>3, <1>9
  <2>2. b.price \in Nat /\ TickSize \in Nat
    BY <1>7, <1>8, ConfigAssumption
  <2>3. AdjustedQuote(b.price, db) = 0
    BY <2>1, <2>2 DEF AdjustedQuote
  <2>4. - dq \in Nat \ {0}
    BY <1>3, <1>4, <2>1
  <2>5. - dq * BaseLotsPerBaseUnit \in Nat \ {0}
    <3>1. PICK n \in Nat \ {0} : n = - dq
      BY Zenon, <2>4
    <3>2. n * BaseLotsPerBaseUnit \in Nat \ {0}
      BY ConfigAssumption, MulPositive
    <3>3. dq = - n
      BY <1>3, <3>1
    <3>4. QED
      BY <3>2, <3>3, ConfigAssumption
  <2>6. QED
    BY <1>9, <2>3, <2>5
<1>10. ASSUME dq >= 0, db <= 0, NEW a \in m0.book["Ask"],
              dq * BaseLotsPerBaseUnit >= AdjustedQuote(a.price, - db)
       PROVE  dq > 0 \/ db > 0
  <2>1. SUFFICES ASSUME dq = 0 PROVE FALSE
    BY <1>3, <1>10
  <2>2. a.price \in Nat \ {0} /\ TickSize \in Nat \ {0}
    BY <1>7, <1>8, ConfigAssumption
  <2>3. PICK n \in Nat \ {0} : n = - db
    BY <1>3, <1>4, <2>1
  <2>4. (a.price * TickSize) * n \in Nat \ {0}
    <3>1. a.price * TickSize \in Nat \ {0}
      BY Zenon, <2>2, MulPositive
    <3>2. QED
      BY Zenon, <3>1, MulPositive
  <2>5. AdjustedQuote(a.price, - db) \in Nat \ {0}
    BY Zenon, <2>3, <2>4 DEF AdjustedQuote
  <2>6. dq * BaseLotsPerBaseUnit = 0
    BY <2>1, ConfigAssumption
  <2>7. QED
    BY <1>10, <2>5, <2>6
<1>11. ~ (dq = 0 /\ db = 0)
  BY <1>4
<1>12. dq > 0 \/ db > 0
  BY Zenon, <1>6, <1>9, <1>10, <1>11
<1>13. QED
  BY Zenon, <1>5, <1>12

\* A step that moves lots of one trader, without receipts.
LEMMA OwnStepMoves ==
  ASSUME FlowInv, FlowInv', VaultsFollow, NEW t \in Trader, OwnTokens(t), OwnLots(t),
         UNCHANGED <<deposit, withdrawal>>
  PROVE  Ledger!Move(t)
<1>1. \A u \in Trader, a \in Asset : InFlight(u, a)' = InFlight(u, a)
  BY Zenon DEF InFlight
<1>2. Touches(t)
  <2>1. market \in Market /\ market' \in Market /\ vault' \in Amounts /\ vault \in Amounts
    BY Zenon DEF FlowInv, RollupInv, IndInv, TypeOK
  <2>2. ASSUME NEW a \in Asset
        PROVE  /\ vault'[a] \in Int /\ Owed(market', a) \in Int
               /\ vault'[a] - Owed(market', a)
                    - (Arriving(deposit'[t], a) + Leaving(withdrawal'[t], a))
                  = vault[a] - Owed(market, a)
                      - (Arriving(deposit[t], a) + Leaving(withdrawal[t], a))
    <3>1. vault'[a] - Owed(market', a) = vault[a] - Owed(market, a)
      BY Zenon DEF VaultsFollow
    <3>2. Owed(market', a) \in Int
      BY Zenon, <2>1, OwedFollowsOwner
    <3>3. vault'[a] \in Int
      BY Zenon, <2>1 DEF Amounts
    <3>4. QED
      BY Zenon, <3>1, <3>2, <3>3
  <2>3. QED
    BY Zenon, <2>2 DEF Touches
<1>3. market'.unclaimed + treasury' = market.unclaimed + treasury
  BY Zenon DEF OwnLots, OwnTokens
<1>4. \A u \in Trader \ {t} : wallet'[u] = wallet[u]
  BY Zenon DEF OwnTokens
<1>5. \A a \in Asset : wallet'[t][a] + (Holding(market', t, a) + InFlight(t, a)')
                       = wallet[t][a] + (Holding(market, t, a) + InFlight(t, a))
  BY Zenon, <1>2, TouchesMoves
<1>6. \A u \in Trader \ {t}, a \in Asset :
        Holding(market', u, a) = Holding(market, u, a) /\ InFlight(u, a)' = InFlight(u, a)
  BY Zenon, <1>2, TouchesMoves
<1>7. QED
  BY Zenon, <1>3, <1>4, <1>5, <1>6, MoveIs

============================================================================

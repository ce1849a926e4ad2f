--------------------------- MODULE RollupProofs ----------------------------
(***************************************************************************)
(* Safety of RollupMarket for every configuration: the market keeps the    *)
(* invariant of PhoenixMarket on whichever layer it is, the receipts       *)
(* conserve what every trader owns, the vaults back the market and what is *)
(* in flight, and the whole implements the ledger of Custody.              *)
(***************************************************************************)
EXTENDS ReceiptProofs, TradingProofs

----------------------------------------------------------------------------
(* The invariant of the market.                                            *)

\* The handlers of deposits keep the market and the receipts well formed.
LEMMA DepositStepsOK ==
  ASSUME RollupInv, NEW t \in Trader, NEW lots,
         \/ lots \in Transfers /\ RequestDeposit(t, lots)
         \/ ProcessDepositEr(t)
         \/ CloseDepositReceipt(t) \/ CommitDeposit(t)
  PROVE  RollupInv'
<1>. USE DEF RollupInv
<1>0. Quiet
  BY Zenon DEF RequestDeposit, ProcessDepositEr, CloseDepositReceipt, CommitDeposit
<1>1. /\ market \in Market /\ MarketOK(market, slot) /\ slot \in Nat
      /\ txn = NoTxn /\ vault \in Amounts /\ wallet \in Balances
  BY Zenon, <1>0, QuietFacts
<1>2. deposit[t].lots \in Amounts
  BY Zenon, ReceiptLots
<1>3. CASE lots \in Transfers /\ RequestDeposit(t, lots)
  <2>0. lots \in Amounts
    BY Zenon, <1>3, TransferType
  <2>1. ReceiptsOK'
    BY Zenon, <1>3, <2>0, ReceiptValues, ReceiptWritten DEF RequestDeposit
  <2>2. vault' \in Amounts /\ wallet' \in Balances
    BY Zenon, <1>3, <2>0, PaymentTypes DEF RequestDeposit
  <2>3. IndInv'
    BY Zenon, <1>1, <1>3, <2>2, Committed DEF RequestDeposit
  <2>. QED  BY Zenon, <2>1, <2>3
<1>4. CASE ProcessDepositEr(t)
  <2>1. ReceiptsOK'
    BY Zenon, <1>2, <1>4, ReceiptValues, ReceiptWritten DEF ProcessDepositEr
  <2>2. PICK m : m = get_or_register_trader(market, t)
    BY Zenon
  <2>3. MarketOK(m, slot)
    BY Zenon, <1>1, <1>4, <2>2, RegisterOK DEF ProcessDepositEr
  <2>4. MarketOK(Credit(m, t, deposit[t].lots), slot)
    BY Zenon, <1>1, <1>2, <2>3, DebitCreditOK
  <2>5. market' = Credit(m, t, deposit[t].lots)
        /\ UNCHANGED <<status, seat, vault, wallet, treasury, slot, txn>>
    BY Zenon, <1>4, <2>2 DEF ProcessDepositEr
  <2>6. IndInv'
    BY Zenon, <1>1, <2>4, <2>5, Committed
  <2>. QED  BY Zenon, <2>1, <2>6
<1>5. CASE CloseDepositReceipt(t)
  BY Zenon, <1>5, ReceiptValues, ReceiptWritten, MarketStutters DEF CloseDepositReceipt
<1>6. CASE CommitDeposit(t)
  <2>1. ReceiptOK(deposit[t]) /\ deposit[t].at = "leaving"
    BY Zenon, <1>6 DEF CommitDeposit, ReceiptsOK
  <2>2. ReceiptOK(Landed(deposit[t]))
    BY Zenon, <2>1, LandedReceipt
  <2>3. ReceiptsOK'
    BY Zenon, <1>6, <2>2, ReceiptWritten DEF CommitDeposit
  <2>. QED  BY Zenon, <1>6, <2>3, MarketStutters DEF CommitDeposit
<1>. QED  BY Zenon, <1>3, <1>4, <1>5, <1>6

\* The handlers of withdrawals keep the market and the receipts well formed.
LEMMA WithdrawalStepsOK ==
  ASSUME RollupInv, NEW t \in Trader, NEW lots,
         \/ lots \in Transfers /\ RequestWithdrawal(t, lots)
         \/ ProcessWithdrawalEr(t)
         \/ ExecuteWithdrawalBaseChain(t) \/ CommitWithdrawal(t)
  PROVE  RollupInv'
<1>. USE DEF RollupInv
<1>0. Quiet
  BY Zenon DEF RequestWithdrawal, ProcessWithdrawalEr, ExecuteWithdrawalBaseChain,
         CommitWithdrawal
<1>1. /\ market \in Market /\ MarketOK(market, slot) /\ slot \in Nat
      /\ txn = NoTxn /\ vault \in Amounts /\ wallet \in Balances
  BY Zenon, <1>0, QuietFacts
<1>2. withdrawal[t].lots \in Amounts
  BY Zenon, ReceiptLots
<1>3. CASE lots \in Transfers /\ RequestWithdrawal(t, lots)
  BY Zenon, <1>3, TransferType, ReceiptValues, ReceiptWritten, MarketStutters
  DEF RequestWithdrawal
<1>4. CASE ProcessWithdrawalEr(t)
  <2>1. PICK debited : debited = Claimable(market, t, withdrawal[t].lots)
    BY Zenon
  <2>2. debited \in Amounts
    BY Zenon, <1>1, <1>2, <2>1, ClaimableType
  <2>3. /\ market' = Debit(market, t, debited)
        /\ withdrawal' = [withdrawal EXCEPT ![t] = Processed(debited)]
        /\ UNCHANGED <<status, seat, vault, wallet, treasury, slot, txn, deposit>>
    BY Zenon, <1>4, <2>1 DEF ProcessWithdrawalEr
  <2>4. ReceiptsOK'
    BY Zenon, <2>2, <2>3, ReceiptValues, ReceiptWritten
  <2>5. MarketOK(Debit(market, t, debited), slot)
    BY Zenon, <1>1, <2>2, DebitCreditOK
  <2>6. IndInv'
    BY Zenon, <1>1, <2>3, <2>5, Committed
  <2>. QED  BY Zenon, <2>4, <2>6
<1>5. CASE ExecuteWithdrawalBaseChain(t)
  <2>1. ReceiptsOK'
    BY Zenon, <1>5, ReceiptValues, ReceiptWritten DEF ExecuteWithdrawalBaseChain
  <2>2. vault' \in Amounts /\ wallet' \in Balances
    BY Zenon, <1>2, <1>5, PaymentTypes DEF ExecuteWithdrawalBaseChain
  <2>3. IndInv'
    BY Zenon, <1>1, <1>5, <2>2, Committed DEF ExecuteWithdrawalBaseChain
  <2>. QED  BY Zenon, <2>1, <2>3
<1>6. CASE CommitWithdrawal(t)
  <2>1. ReceiptOK(withdrawal[t]) /\ withdrawal[t].at = "leaving"
    BY Zenon, <1>6 DEF CommitWithdrawal, ReceiptsOK
  <2>2. ReceiptOK(Landed(withdrawal[t]))
    BY Zenon, <2>1, LandedReceipt
  <2>3. ReceiptsOK'
    BY Zenon, <1>6, <2>2, ReceiptWritten DEF CommitWithdrawal
  <2>. QED  BY Zenon, <1>6, <2>3, MarketStutters DEF CommitWithdrawal
<1>. QED  BY Zenon, <1>3, <1>4, <1>5, <1>6

\* A market without receipts satisfies the invariant.
LEMMA RollupInitOK == RollupInit => RollupInv
<1>. SUFFICES ASSUME RollupInit PROVE RollupInv
  BY Zenon
<1>1. IndInv
  BY Zenon, InitOK DEF RollupInit
<1>2. ReceiptsOK
  BY Zenon, ReceiptValues DEF RollupInit, ReceiptsOK
<1>. QED  BY Zenon, <1>1, <1>2 DEF RollupInv

\* Every step on either layer keeps the invariant.
LEMMA RollupStepOK ==
  ASSUME RollupInv, [RollupNext]_rollupVars
  PROVE  RollupInv'
<1>1. CASE Instruction
  <2>1. Next /\ UNCHANGED <<deposit, withdrawal>>
    BY Zenon, <1>1, InstructionIsNext DEF rollup
  <2>2. IndInv'
    BY Zenon, <2>1, NextOK DEF RollupInv
  <2>. QED  BY Zenon, <2>1, <2>2 DEF RollupInv, ReceiptsOK
<1>2. CASE ReceiptStep
  <2>1. PICK t \in Trader :
          \/ \E lots \in Transfers : RequestDeposit(t, lots) \/ RequestWithdrawal(t, lots)
          \/ ProcessDepositEr(t) \/ CloseDepositReceipt(t)
          \/ ProcessWithdrawalEr(t) \/ ExecuteWithdrawalBaseChain(t)
          \/ CommitDeposit(t) \/ CommitWithdrawal(t)
    BY Zenon, <1>2 DEF ReceiptStep
  <2>. QED  BY Zenon, <2>1, DepositStepsOK, WithdrawalStepsOK
<1>3. CASE \/ DelegateMarket \/ CommitAndUndelegateMarket \/ UndelegateMarket
           \/ UNCHANGED rollupVars
  <2>1. UNCHANGED <<vars, deposit, withdrawal>>
    BY Zenon, <1>3 DEF DelegateMarket, CommitAndUndelegateMarket, UndelegateMarket,
                rollupVars, rollup
  <2>2. IndInv'
    BY Zenon, <2>1, MarketStutters DEF RollupInv
  <2>. QED  BY Zenon, <2>1, <2>2 DEF RollupInv, ReceiptsOK
<1>. QED  BY Zenon, <1>1, <1>2, <1>3 DEF RollupNext

\* A market that is traded on two layers, with deposits and withdrawals by
\* receipt, stays well formed at every step of every instruction.
THEOREM RollupInvariance == RollupSpec => []IndInv
<1>1. RollupInit => RollupInv
  BY Zenon, RollupInitOK
<1>2. RollupInv /\ [RollupNext]_rollupVars => RollupInv'
  BY Zenon, RollupStepOK
<1>3. RollupInv => IndInv
  BY Zenon DEF RollupInv
<1>. QED  BY <1>1, <1>2, <1>3, PTL DEF RollupSpec

\* The matching engine leaves no unexpired orders crossed on either layer.
THEOREM RollupNeverCrossed == RollupSpec => []UncrossedBook
<1>1. IndInv => UncrossedBook
  BY Zenon DEF IndInv, UncrossedBook, Markets, MarketOK, BookOK
<1>. QED  BY <1>1, RollupInvariance, PTL

----------------------------------------------------------------------------
(* The lots in flight and the vaults.                                      *)

\* Every step on either layer keeps the accounts of both in order.
LEMMA FlowStepOK ==
  ASSUME FlowInv, [RollupNext]_rollupVars
  PROVE  FlowInv'
<1>1. RollupInv'
  BY Zenon, RollupStepOK DEF FlowInv
<1>2. IndInv /\ AccInv
  BY Zenon DEF FlowInv, RollupInv
<1>3. /\ home \in {"base", "er", "leaving"}
      /\ \A t \in Trader : LotsOK(deposit[t]) /\ LotsOK(withdrawal[t])
  BY Zenon DEF FlowInv
<1>4. CASE Instruction
  <2>1. Next /\ UNCHANGED <<home, deposit, withdrawal>>
    BY Zenon, <1>4, InstructionIsNext DEF rollup
  <2>2. AccInv'
    BY Zenon, <1>2, <2>1, NextAccounts
  <2>3. QED
    BY Zenon, <1>1, <1>3, <2>1, <2>2 DEF FlowInv
<1>5. CASE ReceiptStep
  <2>1. AccInv' /\ home' = home
    BY Zenon, <1>5, ReceiptStepFlows
  <2>2. PICK t \in Trader :
          Touches(t) /\ LotsOK(deposit'[t]) /\ LotsOK(withdrawal'[t])
    BY Zenon, <1>5, ReceiptStepFlows
  <2>3. \A u \in Trader \ {t} : deposit'[u] = deposit[u] /\ withdrawal'[u] = withdrawal[u]
    BY Zenon, <2>2 DEF Touches
  <2>4. ASSUME NEW u \in Trader PROVE LotsOK(deposit'[u]) /\ LotsOK(withdrawal'[u])
    <3>1. CASE u = t
      BY Zenon, <2>2, <3>1
    <3>2. CASE u # t
      <4>1. deposit'[u] = deposit[u] /\ withdrawal'[u] = withdrawal[u]
        BY Zenon, <2>3, <3>2
      <4>2. QED
        BY Zenon, <1>3, <4>1
    <3>3. QED
      BY Zenon, <3>1, <3>2
  <2>5. QED
    BY Zenon, <1>1, <1>3, <2>1, <2>4 DEF FlowInv
<1>6. CASE \/ DelegateMarket \/ CommitAndUndelegateMarket \/ UndelegateMarket
           \/ UNCHANGED rollupVars
  <2>1. UNCHANGED <<vars, deposit, withdrawal>>
    BY Zenon, <1>6, RollupStutters
  <2>2. AccInv'
    BY Zenon, <1>2, <2>1, StutterAccounts
  <2>3. home' \in {"base", "er", "leaving"}
    BY Zenon, <1>3, <1>6 DEF DelegateMarket, CommitAndUndelegateMarket, UndelegateMarket,
       rollupVars, rollup
  <2>4. deposit' = deposit /\ withdrawal' = withdrawal
    BY Zenon, <2>1
  <2>5. QED
    BY Zenon, <1>1, <1>3, <2>2, <2>3, <2>4 DEF FlowInv
<1>7. QED
  BY Zenon, <1>4, <1>5, <1>6 DEF RollupNext

\* The accounts of both layers are in order at every step.
LEMMA FlowInvariance == RollupSpec => []FlowInv
<1>1. RollupInit => FlowInv
  <2> SUFFICES ASSUME RollupInit PROVE FlowInv
    BY Zenon
  <2>1. RollupInv /\ AccInv
    BY Zenon, RollupInitOK, InitAccounts DEF RollupInit
  <2>2. \A t \in Trader : deposit[t] = NoReceipt /\ withdrawal[t] = NoReceipt
    BY Zenon DEF RollupInit
  <2>3. home \in {"base", "er", "leaving"}
    BY Zenon DEF RollupInit
  <2>4. QED
    BY Zenon, <2>1, <2>2, <2>3, LotsValues DEF FlowInv
<1>2. FlowInv /\ [RollupNext]_rollupVars => FlowInv'
  BY Zenon, FlowStepOK
<1>3. QED
  BY <1>1, <1>2, PTL DEF RollupSpec

\* A receipt leaves the rollup only after it has been processed, and a
\* receipt that exists holds lots.
THEOREM ReceiptsWellFormed == RollupSpec => []RollupTypeOK
<1>1. ASSUME FlowInv PROVE RollupTypeOK
  <2>1. ASSUME NEW r, ReceiptOK(r), LotsOK(r)
        PROVE  /\ r \in Receipt
               /\ (r.lots = NoLots) <=> (r.at = "none")
               /\ r.processed <=> r.at \in {"leaving", "base"}
    <3>1. /\ r \in [at : {"none", "er", "leaving", "base"}, lots : Amounts,
                    processed : BOOLEAN]
          /\ r.processed <=> r.at \in {"leaving", "base"}
      BY Zenon, <2>1 DEF ReceiptOK
    <3>2. /\ r.lots \in [Asset -> Nat]
          /\ (r.lots = NoLots) <=> (r.at = "none")
      BY Zenon, <2>1 DEF LotsOK
    <3>3. r \in Receipt
      BY Zenon, <3>1, <3>2 DEF Receipt
    <3>4. QED
      BY Zenon, <3>1, <3>2, <3>3
  <2>2. \A t \in Trader : ReceiptOK(deposit[t]) /\ ReceiptOK(withdrawal[t])
    BY Zenon, <1>1 DEF FlowInv, RollupInv, ReceiptsOK
  <2>3. /\ home \in {"base", "er", "leaving"}
        /\ \A t \in Trader : LotsOK(deposit[t]) /\ LotsOK(withdrawal[t])
    BY Zenon, <1>1 DEF FlowInv
  <2>4. ASSUME NEW r \in {deposit[t] : t \in Trader} \cup {withdrawal[t] : t \in Trader}
        PROVE  ReceiptOK(r) /\ LotsOK(r)
    BY Zenon, <2>2, <2>3
  <2>5. QED
    BY Zenon, <2>1, <2>3, <2>4 DEF RollupTypeOK
<1>2. QED
  BY <1>1, FlowInvariance, PTL

----------------------------------------------------------------------------
(* Vaults and wallets on two layers.                                       *)

\* No handler of a receipt, on either layer and in whatever order they run,
\* makes or loses a lot of any trader.
THEOREM ReceiptsConserved == RollupSpec => ReceiptsConserve
<1>1. ASSUME FlowInv, FlowInv', [RollupNext]_rollupVars,
             deposit' # deposit \/ withdrawal' # withdrawal
      PROVE  \A u \in Trader, a \in Asset : Worth(u, a)' = Worth(u, a)
  <2>1. ReceiptStep
    BY Zenon, <1>1, InstructionIsNext, RollupStutters DEF RollupNext, rollup
  <2>2. PICK t \in Trader : Touches(t)
    BY Zenon, <1>1, <2>1, ReceiptStepFlows
  <2>3. wallet \in Balances /\ market \in Market
    BY Zenon, <1>1 DEF FlowInv, RollupInv, IndInv, TypeOK
  <2>4. ASSUME NEW u \in Trader, NEW a \in Asset
        PROVE  Worth(u, a)' = Worth(u, a)
    <3>1. /\ wallet'[t][a] + (Holding(market', t, a) + InFlight(t, a)')
               = wallet[t][a] + (Holding(market, t, a) + InFlight(t, a))
          /\ u # t => /\ wallet'[u] = wallet[u]
                      /\ Holding(market', u, a) = Holding(market, u, a)
                      /\ InFlight(u, a)' = InFlight(u, a)
      BY Zenon, <1>1, <2>2, TouchesMoves
    <3>2. Worth(u, a) = wallet[u][a] + Holding(market, u, a) + InFlight(u, a)
      BY Zenon DEF Worth
    <3>3. Worth(u, a)' = wallet'[u][a] + Holding(market', u, a) + InFlight(u, a)'
      BY Zenon DEF Worth, Holding
    <3>4. CASE u # t
      BY Zenon, <3>1, <3>2, <3>3, <3>4
    <3>5. CASE u = t
      <4>1. InFlight(t, a) \in Int /\ InFlight(t, a)' \in Int
        BY Zenon, <1>1, FlightInt DEF FlowInv
      <4>2. /\ Holding(market, t, a) \in Int /\ Holding(market', t, a) \in Int
            /\ wallet[t][a] \in Int /\ wallet'[t][a] \in Int
        <5>1. market' \in Market /\ wallet' \in Balances
          BY Zenon, <1>1 DEF FlowInv, RollupInv, IndInv, TypeOK
        <5>2. QED
          BY Zenon, <2>3, <5>1, HoldingType DEF Balances, Amounts
      <4>3. PICK f \in Int, g \in Int : f = InFlight(t, a) /\ g = InFlight(t, a)'
        BY Zenon, <4>1
      <4>4. PICK h \in Int, i \in Int :
              h = Holding(market, t, a) /\ i = Holding(market', t, a)
        BY Zenon, <4>2
      <4>5. PICK x \in Int, y \in Int : x = wallet[t][a] /\ y = wallet'[t][a]
        BY Zenon, <4>2
      <4>6. y + (i + g) = x + (h + f)
        BY Zenon, <3>1, <4>3, <4>4, <4>5
      <4>7. y + i + g = x + h + f
        BY <4>6
      <4>8. QED
        BY Zenon, <3>2, <3>3, <3>5, <4>3, <4>4, <4>5, <4>7
    <3>6. QED
      BY Zenon, <3>4, <3>5
  <2>5. QED
    BY Zenon, <2>4
<1>2. FlowInv /\ FlowInv' /\ [RollupNext]_rollupVars =>
        [deposit' # deposit \/ withdrawal' # withdrawal =>
           \A t \in Trader, a \in Asset : Worth(t, a)' = Worth(t, a)]_rollupVars
  BY Zenon, <1>1
<1>3. QED
  BY <1>2, FlowInvariance, PTL DEF RollupSpec, ReceiptsConserve

\* On two layers the tokens in the vaults are exactly what the market owes
\* and what is on its way, at every step and whatever the layers run first.
THEOREM VaultsAlwaysBackBothLayers == RollupSpec => []VaultsBackBothLayers
<1> DEFINE Sum(a) == SumFunctionOnSet([t \in Trader |-> InFlight(t, a)], Trader)
           SumNext(a) == SumFunctionOnSet([t \in Trader |-> InFlight(t, a)'], Trader)
<1>1. ASSUME FlowInv, FlowInv', [RollupNext]_rollupVars, NEW a \in Asset,
             vault[a] = Owed(market, a) + Sum(a)
      PROVE  vault'[a] = Owed(market', a) + SumNext(a)
  <2>1. /\ market \in Market /\ vault \in Amounts /\ AccountsOK(market)
        /\ market' \in Market /\ vault' \in Amounts /\ AccountsOK(market')
        /\ RollupInv /\ RollupInv' /\ IndInv /\ AccInv
    BY Zenon, <1>1 DEF FlowInv, RollupInv, IndInv, TypeOK, AccInv
  <2>2. Owed(market, a) \in Int /\ Owed(market', a) \in Int
    BY <2>1, AccountsNat
  <2>3. vault[a] \in Int /\ vault'[a] \in Int
    BY Zenon, <2>1 DEF Amounts
  <2>4. CASE deposit' = deposit /\ withdrawal' = withdrawal
    <3>1. \A t \in Trader : InFlight(t, a)' = InFlight(t, a)
      BY Zenon, <2>4 DEF InFlight
    <3>2. SumNext(a) = Sum(a)
      BY Zenon, <3>1
    <3>3. Sum(a) \in Int
      <4>1. \A t \in Trader : InFlight(t, a) \in Int
        BY Zenon, <2>1, FlightInt
      <4>2. QED
        BY Zenon, <4>1, SumInt, TraderAssumption
    <3> HIDE DEF Sum, SumNext
    <3>4. vault'[a] - Owed(market', a) = vault[a] - Owed(market, a)
      <4>1. CASE Instruction
        BY Zenon, <2>1, <4>1, InstructionIsNext, NextAccounts DEF VaultsFollow
      <4>2. CASE ReceiptStep
        <5>1. PICK t \in Trader : Touches(t)
          BY Zenon, <1>1, <4>2, ReceiptStepFlows
        <5>2. vault'[a] - Owed(market', a)
                - (Arriving(deposit[t], a) + Leaving(withdrawal[t], a))
              = vault[a] - Owed(market, a)
                - (Arriving(deposit[t], a) + Leaving(withdrawal[t], a))
          BY Zenon, <2>4, <5>1 DEF Touches
        <5>3. InFlight(t, a) \in Int
              /\ InFlight(t, a) = Arriving(deposit[t], a) + Leaving(withdrawal[t], a)
          BY Zenon, <2>1, FlightInt, FlightIs
        <5>4. PICK n \in Int : n = Arriving(deposit[t], a) + Leaving(withdrawal[t], a)
          BY Zenon, <5>3
        <5>5. vault'[a] - Owed(market', a) - n = vault[a] - Owed(market, a) - n
          BY Zenon, <5>2, <5>4
        <5>6. QED
          BY <2>2, <2>3, <5>5
      <4>3. CASE \/ DelegateMarket \/ CommitAndUndelegateMarket \/ UndelegateMarket
                 \/ UNCHANGED rollupVars
        <5>1. market' = market /\ vault' = vault
          BY Zenon, <4>3, RollupStutters DEF vars
        <5>2. QED
          BY Zenon, <5>1
      <4>4. QED
        BY Zenon, <1>1, <4>1, <4>2, <4>3 DEF RollupNext
    <3>5. QED
      BY <1>1, <2>2, <2>3, <3>2, <3>3, <3>4
  <2>5. CASE ~ (deposit' = deposit /\ withdrawal' = withdrawal)
    <3>1. ReceiptStep
      BY Zenon, <1>1, <2>5, InstructionIsNext, RollupStutters DEF RollupNext, rollup
    <3>2. PICK t \in Trader : Touches(t)
      BY Zenon, <1>1, <3>1, ReceiptStepFlows
    <3>3. \A u \in Trader \ {t} : InFlight(u, a)' = InFlight(u, a)
      BY Zenon, <1>1, <3>2, TouchesMoves
    <3>4. PICK n \in Int : /\ InFlight(t, a)' = InFlight(t, a) + n
                           /\ SumNext(a) = Sum(a) + n
                           /\ Sum(a) \in Int
      BY Zenon, <2>1, <3>3, FlightsShift
    <3> HIDE DEF Sum, SumNext
    <3>5. vault'[a] - Owed(market', a) - InFlight(t, a)'
            = vault[a] - Owed(market, a) - InFlight(t, a)
      BY Zenon, <3>2, FlightIs DEF Touches
    <3>6. InFlight(t, a) \in Int
      BY Zenon, <2>1, FlightInt
    <3>7. PICK f \in Int : f = InFlight(t, a)
      BY Zenon, <3>6
    <3>8. vault'[a] - Owed(market', a) - (f + n) = vault[a] - Owed(market, a) - f
      BY Zenon, <3>4, <3>5, <3>7
    <3>9. PICK s \in Int, r \in Int : s = Sum(a) /\ r = SumNext(a) /\ r = s + n
      BY <3>4
    <3>10. vault[a] = Owed(market, a) + s
      BY Zenon, <1>1, <3>9
    <3>11. vault'[a] = Owed(market', a) + r
      BY <2>2, <2>3, <3>8, <3>9, <3>10
    <3>12. QED
      BY Zenon, <3>9, <3>11
  <2>6. QED
    BY Zenon, <2>4, <2>5
<1>2. VaultsBackBothLayers /\ FlowInv /\ FlowInv' /\ [RollupNext]_rollupVars
        => VaultsBackBothLayers'
  <2> SUFFICES ASSUME VaultsBackBothLayers, FlowInv, FlowInv', [RollupNext]_rollupVars
               PROVE  VaultsBackBothLayers'
    BY Zenon
  <2>1. \A a \in Asset : vault[a] = Owed(market, a) + Sum(a)
    BY Zenon DEF VaultsBackBothLayers
  <2> HIDE DEF Sum, SumNext
  <2>2. \A a \in Asset : vault'[a] = Owed(market', a) + SumNext(a)
    BY Zenon, <1>1, <2>1
  <2>3. QED
    BY Zenon, <2>2 DEF VaultsBackBothLayers, SumNext, Owed, Holding
<1>3. RollupInit => VaultsBackBothLayers
  <2> SUFFICES ASSUME RollupInit, NEW a \in Asset
               PROVE  vault[a] = Owed(market, a) + Sum(a)
    BY Zenon DEF VaultsBackBothLayers
  <2>1. \A t \in Trader : deposit[t] = NoReceipt /\ withdrawal[t] = NoReceipt
    BY Zenon DEF RollupInit
  <2>2. NoReceipt.lots[a] = 0 /\ NoReceipt.processed = FALSE
    BY Zenon DEF NoReceipt, NoLots
  <2>3. \A t \in Trader : InFlight(t, a) = 0 + 0
    BY Zenon, <2>1, <2>2 DEF InFlight
  <2>4. \A t \in Trader : [u \in Trader |-> InFlight(u, a)][t] = 0
    BY <2>3
  <2>5. Sum(a) = 0
    BY Zenon, <2>4, SumZero, TraderAssumption
  <2>6. VaultsBackClaims /\ market \in Market /\ AccountsOK(market)
    BY Zenon, InitAccounts, InitOK DEF RollupInit, AccInv, IndInv, TypeOK
  <2>7. vault[a] = Owed(market, a) /\ Owed(market, a) \in Int
    BY <2>6, AccountsNat DEF VaultsBackClaims
  <2> HIDE DEF Sum
  <2>8. QED
    BY <2>5, <2>7
<1>4. QED
  BY <1>2, <1>3, FlowInvariance, PTL DEF RollupSpec

\* Nor does a subtraction of the engine or of the token program underflow on
\* either layer, however many withdrawals are processed before one is paid:
\* the vaults always hold what the receipts carry.
THEOREM NothingUnderflowsOnTwoLayers == RollupSpec => []NoUnderflow
<1>1. ASSUME FlowInv, VaultsBackBothLayers PROVE NoUnderflow
  <2>1. IndInv /\ AccInv /\ market \in Market /\ AccountsOK(market)
    BY Zenon, <1>1 DEF FlowInv, RollupInv, IndInv, TypeOK, AccInv
  <2>2. ASSUME NEW a \in Asset PROVE vault[a] >= 0
    <3> DEFINE f == [t \in Trader |-> InFlight(t, a)]
    <3>1. ASSUME NEW t \in Trader PROVE f[t] \in Nat
      <4>1. LotsOK(deposit[t]) /\ LotsOK(withdrawal[t])
        BY Zenon, <1>1 DEF FlowInv
      <4>2. deposit[t].lots[a] \in Nat /\ withdrawal[t].lots[a] \in Nat
        BY Zenon, <4>1 DEF LotsOK
      <4>3. InFlight(t, a) \in Nat
        BY <4>2 DEF InFlight
      <4>4. QED
        BY Zenon, <4>3
    <3>2. vault[a] = Owed(market, a) + SumFunctionOnSet(f, Trader)
      BY Zenon, <1>1 DEF VaultsBackBothLayers
    <3> HIDE DEF f
    <3>3. SumFunctionOnSet(f, Trader) \in Nat
      BY Zenon, <3>1, SumNat, TraderAssumption
    <3>4. Owed(market, a) \in Nat
      BY Zenon, <2>1, AccountsNat
    <3>5. QED
      BY <3>2, <3>3, <3>4
  <2>3. QED
    BY Zenon, <2>1, <2>2, EngineSubtractsWell
<1>2. FlowInv /\ VaultsBackBothLayers => NoUnderflow
  BY Zenon, <1>1
<1>3. QED
  BY <1>2, FlowInvariance, VaultsAlwaysBackBothLayers, PTL

----------------------------------------------------------------------------
(* The promise of Custody.                                                 *)

\* An order that is written back is a trade of the trader that sent it: the
\* others keep their tokens and give lots of one asset only for the other.
LEMMA PlaceOrderTrades ==
  ASSUME FlowInv, FlowInv', MakersInv, PlaceOrder, UNCHANGED <<deposit, withdrawal>>
  PROVE  Ledger!Next
<1>1. /\ IndInv /\ IndInv' /\ AccInv /\ RollupInv /\ RollupInv'
      /\ market \in Market /\ market' \in Market /\ treasury \in Int
      /\ vault \in Amounts /\ vault' \in Amounts /\ wallet \in Balances
  BY Zenon DEF FlowInv, RollupInv, IndInv, TypeOK
<1>2. txn.phase = "place"
  BY Zenon DEF PlaceOrder
<1>3. txn.who \in Trader /\ txn.m \in Market
  BY Zenon, <1>1, <1>2, OrderAccountsFacts
<1>4. VaultsFollow /\ OwnTokens(txn.who)
  BY Zenon, <1>1, PlaceOrderAccounts
<1>5. \/ market' = market
      \/ /\ \A u \in Trader \ {txn.who}, a \in Asset :
              Holding(market', u, a) = Holding(txn.m, u, a)
         /\ market'.unclaimed = txn.m.unclaimed
  BY Zenon, <1>1, PlaceOrderAccounts
<1>6. \A u \in Trader, a \in Asset : InFlight(u, a)' = InFlight(u, a)
  BY Zenon DEF InFlight
<1>7. treasury' = treasury /\ \A u \in Trader \ {txn.who} : wallet'[u] = wallet[u]
  BY Zenon, <1>4 DEF OwnTokens
<1>8. CASE market' = market
  <2>1. ASSUME NEW a \in Asset PROVE wallet'[txn.who][a] = wallet[txn.who][a]
    <3>1. /\ wallet'[txn.who][a] \in Int
          /\ vault'[a] + wallet'[txn.who][a] = vault[a] + wallet[txn.who][a]
      BY Zenon, <1>4 DEF OwnTokens
    <3>2. vault'[a] - Owed(market, a) = vault[a] - Owed(market, a)
      BY Zenon, <1>4, <1>8 DEF VaultsFollow
    <3>3. /\ vault[a] \in Int /\ vault'[a] \in Int /\ wallet[txn.who][a] \in Int
      BY Zenon, <1>1, <1>3 DEF Amounts, Balances
    <3>4. Owed(market, a) \in Int
      BY <1>1, AccountsNat DEF AccInv
    <3>5. QED
      BY <3>1, <3>2, <3>3, <3>4
  <2>2. PICK t \in Trader : t = txn.who
    BY Zenon, <1>3
  <2>3. Ledger!Move(t)
    <3>1. \A a \in Asset :
            wallet'[t][a] + (Holding(market', t, a) + InFlight(t, a)')
            = wallet[t][a] + (Holding(market, t, a) + InFlight(t, a))
      BY Zenon, <1>6, <1>8, <2>1, <2>2
    <3>2. \A u \in Trader \ {t}, a \in Asset :
            Holding(market', u, a) = Holding(market, u, a) /\ InFlight(u, a)' = InFlight(u, a)
      BY Zenon, <1>6, <1>8
    <3>3. market'.unclaimed + treasury' = market.unclaimed + treasury
      BY Zenon, <1>7, <1>8
    <3>4. \A u \in Trader \ {t} : wallet'[u] = wallet[u]
      BY Zenon, <1>7, <2>2
    <3>5. QED
      BY Zenon, <3>1, <3>2, <3>3, <3>4, MoveIs
  <2>4. QED
    BY Zenon, <2>3 DEF Ledger!Next
<1>9. CASE /\ \A u \in Trader \ {txn.who}, a \in Asset :
                Holding(market', u, a) = Holding(txn.m, u, a)
           /\ market'.unclaimed = txn.m.unclaimed
  <2>1. market'.unclaimed + treasury' >= market.unclaimed + treasury
    <3>1. txn.m.unclaimed >= market.unclaimed
      BY Zenon, <1>2 DEF MakersInv
    <3>2. market.unclaimed \in Int /\ market'.unclaimed \in Int
      BY Zenon, <1>1 DEF Market
    <3>3. QED
      BY <1>1, <1>7, <1>9, <3>1, <3>2
  <2>2. ASSUME NEW u \in Trader \ {txn.who},
               \E a \in Asset : Holding(market', u, a) + InFlight(u, a)'
                                < Holding(market, u, a) + InFlight(u, a)
        PROVE  \E a \in Asset : Holding(market', u, a) + InFlight(u, a)'
                                > Holding(market, u, a) + InFlight(u, a)
    <3>1. GotItsPrice(market, txn.m, u, txn.p.side)
      BY Zenon, <1>2 DEF MakersInv
    <3>2. ASSUME NEW a \in Asset
          PROVE  \E h \in Int, i \in Int, f \in Int :
                   /\ h = Holding(market, u, a) /\ i = Holding(txn.m, u, a)
                   /\ i = Holding(market', u, a)
                   /\ f = InFlight(u, a) /\ f = InFlight(u, a)'
      <4>1. /\ Holding(market, u, a) \in Int /\ Holding(txn.m, u, a) \in Int
            /\ InFlight(u, a) \in Int
        BY Zenon, <1>1, <1>3, HoldingType, FlightInt
      <4>2. QED
        BY Zenon, <1>6, <1>9, <4>1
    <3>3. ASSUME NEW a \in Asset
          PROVE  /\ Holding(market', u, a) + InFlight(u, a)'
                      < Holding(market, u, a) + InFlight(u, a)
                    => Holding(txn.m, u, a) < Holding(market, u, a)
                 /\ Holding(txn.m, u, a) > Holding(market, u, a)
                    => Holding(market', u, a) + InFlight(u, a)'
                         > Holding(market, u, a) + InFlight(u, a)
      <4>1. PICK h \in Int, i \in Int, f \in Int :
              /\ h = Holding(market, u, a) /\ i = Holding(txn.m, u, a)
              /\ i = Holding(market', u, a)
              /\ f = InFlight(u, a) /\ f = InFlight(u, a)'
        BY Zenon, <3>2
      <4>2. (i + f < h + f => i < h) /\ (i > h => i + f > h + f)
        OBVIOUS
      <4>3. QED
        BY Zenon, <4>1, <4>2
    <3>4. \E a \in Asset : Holding(txn.m, u, a) < Holding(market, u, a)
      BY Zenon, <2>2, <3>3
    <3>5. \E a \in Asset : Holding(txn.m, u, a) > Holding(market, u, a)
      BY Zenon, <1>1, <1>3, <3>1, <3>4, PriceIsPaid
    <3>6. QED
      BY Zenon, <3>3, <3>5
  <2>3. \A a \in Asset :
          SumFunctionOnSet([u \in Trader |->
              wallet'[u][a] + (Holding(market', u, a) + InFlight(u, a)')], Trader)
            + (IF a = "quote" THEN market'.unclaimed + treasury' ELSE 0)
          = SumFunctionOnSet([u \in Trader |->
              wallet[u][a] + (Holding(market, u, a) + InFlight(u, a))], Trader)
            + (IF a = "quote" THEN market.unclaimed + treasury ELSE 0)
    BY Zenon, <1>1, <1>3, <1>4, TradeKeepsTotal
  <2>4. Ledger!Trade(txn.who)
    BY Zenon, <1>7, <2>1, <2>2, <2>3, LedgerSum DEF Ledger!Trade, Ledger!Total
  <2>5. QED
    BY Zenon, <1>3, <2>4 DEF Ledger!Next
<1>10. QED
  BY Zenon, <1>5, <1>8, <1>9

\* Every step of the two layers is a step of the ledger, or none.
LEMMA LedgerStep ==
  ASSUME FlowInv, FlowInv', MakersInv, [RollupNext]_rollupVars
  PROVE  [Ledger!Next]_(Ledger!vars)
<1>1. CASE Instruction
  <2>1. Next /\ UNCHANGED <<deposit, withdrawal>>
    BY Zenon, <1>1, InstructionIsNext DEF rollup
  <2>2. IndInv /\ AccInv
    BY Zenon DEF FlowInv, RollupInv
  <2>3. CASE NobodysAccounts
    BY Zenon, <2>1, <2>3, LedgerStutters
  <2>4. ASSUME NEW t \in Trader, OwnTokens(t), OwnLots(t) PROVE Ledger!Next
    <3>1. VaultsFollow
      BY Zenon, <2>1, <2>2, NextAccounts
    <3>2. Ledger!Move(t)
      BY Zenon, <2>1, <2>4, <3>1, OwnStepMoves
    <3>3. QED
      BY Zenon, <3>2 DEF Ledger!Next
  <2>5. CASE PlaceOrder
    BY Zenon, <2>1, <2>5, PlaceOrderTrades
  <2>6. QED
    BY Zenon, <2>1, <2>2, <2>3, <2>4, <2>5, NextMoves
<1>2. CASE ReceiptStep
  <2>1. PICK t \in Trader : Touches(t)
    BY Zenon, <1>2, ReceiptStepFlows
  <2>2. market'.unclaimed + treasury' = market.unclaimed + treasury
    BY Zenon, <2>1 DEF Touches, OwnLots, OwnTokens
  <2>3. \A u \in Trader \ {t} : wallet'[u] = wallet[u]
    BY Zenon, <2>1 DEF Touches, OwnTokens
  <2>4. \A a \in Asset : wallet'[t][a] + (Holding(market', t, a) + InFlight(t, a)')
                         = wallet[t][a] + (Holding(market, t, a) + InFlight(t, a))
    BY Zenon, <2>1, TouchesMoves
  <2>5. \A u \in Trader \ {t}, a \in Asset :
          Holding(market', u, a) = Holding(market, u, a) /\ InFlight(u, a)' = InFlight(u, a)
    BY Zenon, <2>1, TouchesMoves
  <2>6. Ledger!Move(t)
    BY Zenon, <2>2, <2>3, <2>4, <2>5, MoveIs
  <2>7. QED
    BY Zenon, <2>6 DEF Ledger!Next
<1>3. CASE \/ DelegateMarket \/ CommitAndUndelegateMarket \/ UndelegateMarket
           \/ UNCHANGED rollupVars
  <2>1. UNCHANGED <<vars, deposit, withdrawal>>
    BY Zenon, <1>3, RollupStutters
  <2>2. wallet' = wallet /\ market' = market /\ treasury' = treasury
    BY Zenon, <2>1 DEF vars
  <2>3. NobodysAccounts
    BY Zenon, <2>2, NobodysWhen
  <2>4. QED
    BY Zenon, <2>1, <2>3, LedgerStutters
<1>4. QED
  BY Zenon, <1>1, <1>2, <1>3 DEF RollupNext

\* The makers of an order in progress get their price on either layer.
LEMMA RollupMakers == RollupSpec => []MakersInv
<1>1. ASSUME FlowInv, MakersInv, [RollupNext]_rollupVars PROVE MakersInv'
  <2>1. CASE Instruction
    <3>1. Next /\ IndInv /\ AccInv
      BY Zenon, <1>1, <2>1, InstructionIsNext DEF FlowInv, RollupInv
    <3>2. QED
      BY Zenon, <1>1, <3>1, NextMakers
  <2>2. CASE ReceiptStep
    <3>1. txn' = NoTxn
      BY Zenon, <1>1, <2>2, ReceiptStepFlows DEF Quiet
    <3>2. QED
      BY Zenon, <3>1 DEF MakersInv, NoTxn
  <2>3. CASE \/ DelegateMarket \/ CommitAndUndelegateMarket \/ UndelegateMarket
             \/ UNCHANGED rollupVars
    <3>1. txn' = txn /\ market' = market
      BY Zenon, <2>3, RollupStutters DEF vars
    <3>2. QED
      BY Zenon, <1>1, <3>1 DEF MakersInv
  <2>4. QED
    BY Zenon, <1>1, <2>1, <2>2, <2>3 DEF RollupNext
<1>2. RollupInit => MakersInv
  BY DEF RollupInit, Init, NoTxn, MakersInv
<1>3. QED
  BY <1>1, <1>2, FlowInvariance, PTL DEF RollupSpec

\* The program, on two layers and with its receipts, keeps the promise of
\* Custody: no step makes or loses lots, only its own instructions and the
\* trades of its orders change what a trader has, and a trader whose orders
\* are taken gives lots of one asset only for lots of the other.
THEOREM LedgerKept == RollupSpec => LedgerSpec
<1>1. RollupInit => Ledger!Init
  BY Zenon, LedgerStarts
<1>2. FlowInv /\ FlowInv' /\ MakersInv /\ [RollupNext]_rollupVars
        => [Ledger!Next]_(Ledger!vars)
  BY Zenon, LedgerStep
<1>3. QED
  BY <1>1, <1>2, FlowInvariance, RollupMakers, PTL DEF RollupSpec, LedgerSpec, Ledger!Spec

============================================================================

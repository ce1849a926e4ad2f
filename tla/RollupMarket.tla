---------------------------- MODULE RollupMarket ----------------------------
(***************************************************************************)
(* A market on two layers.  DelegateMarket hands the market account to the *)
(* rollup, where the instructions that only write the market account run;  *)
(* tokens stay in the vaults on the base layer.  Deposits and withdrawals  *)
(* then travel with a receipt account per trader: created on the base      *)
(* layer, processed on the rollup, committed back, settled and closed on   *)
(* the base layer.                                                         *)
(*                                                                         *)
(* The delegation program and the rollup validator are not part of the     *)
(* repository.  They are modelled from how the handlers use them: accounts *)
(* that are delegated are only written on the rollup, others only on the   *)
(* base layer; a scheduled undelegation stops writes at once and reaches   *)
(* the base layer later; an action attached to a delegation or an          *)
(* undelegation may run late or again, since its handler can be called     *)
(* directly too.                                                           *)
(***************************************************************************)
EXTENDS MarketAccounting

VARIABLES
  home,        \* layer of the market account: "base", "er", or "leaving"
  deposit,     \* each trader's DepositReceipt account
  withdrawal   \* each trader's WithdrawalReceipt account

rollup == <<home, deposit, withdrawal>>

\* An account that does not exist, and one that was just delegated.
NoReceipt == [at |-> "none", lots |-> NoLots, processed |-> FALSE]
NewReceipt(lots) == [at |-> "er", lots |-> lots, processed |-> FALSE]

\* commit_and_undelegate has been scheduled for a processed receipt.
Processed(lots) == [at |-> "leaving", lots |-> lots, processed |-> TRUE]

Receipt ==
  [at : {"none", "er", "leaving", "base"}, lots : [Asset -> Nat],
   processed : BOOLEAN]

RollupInit ==
  /\ Init
  /\ home = "base"
  /\ deposit = [t \in Trader |-> NoReceipt]
  /\ withdrawal = [t \in Trader |-> NoReceipt]

\* No instruction is in progress on the market account.
Quiet == txn = NoTxn

----------------------------------------------------------------------------
(* Delegation of the market.                                               *)

DelegateMarket ==
  /\ Quiet /\ status # "Tombstoned"
  /\ home = "base"
  /\ home' = "er"
  /\ UNCHANGED <<vars, deposit, withdrawal>>

\* Anybody may ask for it on the rollup.
CommitAndUndelegateMarket ==
  /\ Quiet
  /\ home = "er"
  /\ home' = "leaving"
  /\ UNCHANGED <<vars, deposit, withdrawal>>

\* The callback of the delegation program with the committed state.
UndelegateMarket ==
  /\ home = "leaving"
  /\ home' = "base"
  /\ UNCHANGED <<vars, deposit, withdrawal>>

----------------------------------------------------------------------------
(* Deposits.                                                               *)

\* Transfers the tokens and creates and delegates the receipt.  On the base
\* layer the market counts as delegated until it is back.
RequestDeposit(t, lots) ==
  /\ Quiet
  /\ lots # NoLots
  /\ home # "base"
  /\ deposit[t] = NoReceipt
  /\ PayIn(t, lots)
  /\ deposit' = [deposit EXCEPT ![t] = NewReceipt(lots)]
  /\ UNCHANGED <<market, status, seat, treasury, slot, txn, home, withdrawal>>

\* Mutations: the receipt is not marked; it is not sent back.
ProcessDepositEr_unmarked(t) ==
  /\ Quiet
  /\ home = "er" /\ deposit[t].at = "er"
  /\ CanRegister(market, t)
  /\ market' = Credit(get_or_register_trader(market, t), t, deposit[t].lots)
  /\ UNCHANGED <<status, seat, vault, wallet, treasury, slot, txn, rollup>>
ProcessDepositEr_kept(t) ==
  LET r == deposit[t]
  IN /\ Quiet
     /\ home = "er" /\ r.at = "er" /\ ~ r.processed
     /\ CanRegister(market, t)
     /\ market' = Credit(get_or_register_trader(market, t), t, r.lots)
     /\ deposit' = [deposit EXCEPT ![t].processed = TRUE]
     /\ UNCHANGED <<status, seat, vault, wallet, treasury, slot, txn, home, withdrawal>>

\* Credits the trader, whatever its seat and the status of the market.
ProcessDepositEr(t) ==
  LET r == deposit[t]
  IN /\ Quiet
     /\ home = "er" /\ r.at = "er" /\ ~ r.processed
     /\ CanRegister(market, t)
     /\ market' = Credit(get_or_register_trader(market, t), t, r.lots)
     /\ deposit' = [deposit EXCEPT ![t] = Processed(r.lots)]
     /\ UNCHANGED <<status, seat, vault, wallet, treasury, slot, txn, home, withdrawal>>

CloseDepositReceipt(t) ==
  /\ Quiet
  /\ deposit[t].at = "base" /\ deposit[t].processed
  /\ deposit' = [deposit EXCEPT ![t] = NoReceipt]
  /\ UNCHANGED <<vars, home, withdrawal>>

----------------------------------------------------------------------------
(* Withdrawals.                                                            *)

\* Reads the market's header only; nothing is checked against the balance.
RequestWithdrawal(t, lots) ==
  /\ Quiet /\ status # "Tombstoned"
  /\ lots # NoLots
  /\ withdrawal[t] = NoReceipt
  /\ withdrawal' = [withdrawal EXCEPT ![t] = NewReceipt(lots)]
  /\ UNCHANGED <<vars, home, deposit>>

\* Mutations: an empty debit is accepted; the receipt keeps the request.
ProcessWithdrawalEr_empty(t) ==
  LET r == withdrawal[t]
      debited == Claimable(market, t, r.lots)
  IN /\ Quiet
     /\ home = "er" /\ r.at = "er" /\ ~ r.processed
     /\ t \in market.registered
     /\ market' = Debit(market, t, debited)
     /\ withdrawal' = [withdrawal EXCEPT ![t] = Processed(debited)]
     /\ UNCHANGED <<status, seat, vault, wallet, treasury, slot, txn, home, deposit>>
ProcessWithdrawalEr_requested(t) ==
  LET r == withdrawal[t]
      debited == Claimable(market, t, r.lots)
  IN /\ Quiet
     /\ home = "er" /\ r.at = "er" /\ ~ r.processed
     /\ t \in market.registered
     /\ debited # NoLots
     /\ market' = Debit(market, t, debited)
     /\ withdrawal' = [withdrawal EXCEPT ![t] = Processed(r.lots)]
     /\ UNCHANGED <<status, seat, vault, wallet, treasury, slot, txn, home, deposit>>

\* Debits what is free of the requested lots and records it in the receipt.
ProcessWithdrawalEr(t) ==
  LET r == withdrawal[t]
      debited == Claimable(market, t, r.lots)
  IN /\ Quiet
     /\ home = "er" /\ r.at = "er" /\ ~ r.processed
     /\ t \in market.registered
     /\ debited # NoLots
     /\ market' = Debit(market, t, debited)
     /\ withdrawal' = [withdrawal EXCEPT ![t] = Processed(debited)]
     /\ UNCHANGED <<status, seat, vault, wallet, treasury, slot, txn, home, deposit>>

\* Mutations: the receipt is not closed; the market must be back.
ExecuteWithdrawalBaseChain_open(t) ==
  /\ Quiet /\ status # "Tombstoned"
  /\ withdrawal[t].at = "base" /\ withdrawal[t].processed
  /\ PayOut(t, withdrawal[t].lots)
  /\ UNCHANGED <<market, status, seat, treasury, slot, txn, rollup>>
ExecuteWithdrawalBaseChain_home(t) ==
  /\ Quiet /\ status # "Tombstoned"
  /\ home = "base"
  /\ withdrawal[t].at = "base" /\ withdrawal[t].processed
  /\ PayOut(t, withdrawal[t].lots)
  /\ withdrawal' = [withdrawal EXCEPT ![t] = NoReceipt]
  /\ UNCHANGED <<market, status, seat, treasury, slot, txn, home, deposit>>

\* Pays from the vaults and closes the receipt; needs the market's header.
ExecuteWithdrawalBaseChain(t) ==
  /\ Quiet /\ status # "Tombstoned"
  /\ withdrawal[t].at = "base" /\ withdrawal[t].processed
  /\ PayOut(t, withdrawal[t].lots)
  /\ withdrawal' = [withdrawal EXCEPT ![t] = NoReceipt]
  /\ UNCHANGED <<market, status, seat, treasury, slot, txn, home, deposit>>

\* The validator commits a processed receipt to the base layer.
Landed(r) == [at |-> "base", lots |-> r.lots, processed |-> r.processed]

CommitDeposit(t) ==
  /\ Quiet
  /\ deposit[t].at = "leaving"
  /\ deposit' = [deposit EXCEPT ![t] = Landed(deposit[t])]
  /\ UNCHANGED <<vars, home, withdrawal>>

CommitWithdrawal(t) ==
  /\ Quiet
  /\ withdrawal[t].at = "leaving"
  /\ withdrawal' = [withdrawal EXCEPT ![t] = Landed(withdrawal[t])]
  /\ UNCHANGED <<vars, home, deposit>>

----------------------------------------------------------------------------
(* The instructions of PhoenixMarket on the layer of the market.           *)

\* Instructions that move no tokens and create no accounts run on the rollup.
ErInstruction ==
  \/ \E t \in Trader :
       \/ \E p \in Packets : p.freeFunds /\ NewOrder(t, p)
       \/ \E claim \in Claims \ {TRUE} :
            \/ CancelAllOrders(t, claim)
            \/ \E ids \in SUBSET BookIds : CancelMultipleOrdersById(t, ids, claim)
            \/ \E side \in Side :
                 \/ \E lim \in UpToLimits : CancelUpTo(t, side, lim, claim)
                 \/ \E o \in market.book[side], n \in ReduceSizes :
                      ReduceOrder(t, side, o, n, claim)
  \/ \E new \in StatusRequests \ {"Tombstoned"} : ChangeMarketStatus(new)

Instruction ==
  /\ \/ home = "base" /\ (TraderNext \/ AuthorityNext)
     \/ home = "er" /\ ErInstruction
     \/ home # "leaving" /\ (TxnStep \/ NextSlot)
  /\ UNCHANGED rollup

ReceiptStep ==
  \E t \in Trader :
    \/ \E lots \in Transfers : RequestDeposit(t, lots) \/ RequestWithdrawal(t, lots)
    \/ ProcessDepositEr(t) \/ CloseDepositReceipt(t)
    \/ ProcessWithdrawalEr(t) \/ ExecuteWithdrawalBaseChain(t)
    \/ CommitDeposit(t) \/ CommitWithdrawal(t)

RollupNext ==
  \/ Instruction \/ ReceiptStep
  \/ DelegateMarket \/ CommitAndUndelegateMarket \/ UndelegateMarket

rollupVars == <<vars, rollup>>

RollupSpec == RollupInit /\ [][RollupNext]_rollupVars

\* The actions that a delegation and an undelegation carry are run by the
\* validator, and a processed receipt reaches the base layer.
FairRollupSpec ==
  /\ RollupSpec
  /\ \A t \in Trader :
       /\ WF_rollupVars(ProcessDepositEr(t))
       /\ WF_rollupVars(CommitDeposit(t))
       /\ WF_rollupVars(CloseDepositReceipt(t))
       /\ WF_rollupVars(CommitWithdrawal(t))
       /\ WF_rollupVars(ExecuteWithdrawalBaseChain(t))

----------------------------------------------------------------------------
(* Properties.                                                             *)

\* The receipts are well formed: a receipt leaves the rollup only processed
\* and only with lots in it.
RollupTypeOK ==
  /\ home \in {"base", "er", "leaving"}
  /\ \A r \in {deposit[t] : t \in Trader} \cup {withdrawal[t] : t \in Trader} :
       /\ r \in Receipt
       /\ (r.lots = NoLots) <=> (r.at = "none")
       /\ r.processed <=> r.at \in {"leaving", "base"}

\* The lots of a trader that are on their way between the layers: deposited
\* and not yet credited, or debited and not yet paid.
InFlight(t, a) ==
  (IF deposit[t].processed THEN 0 ELSE deposit[t].lots[a])
    + (IF withdrawal[t].processed THEN withdrawal[t].lots[a] ELSE 0)

\* Whatever the order in which the two layers run their parts, the vaults
\* hold exactly the traders' lots in the market, the unclaimed fees and the
\* lots in flight; so every processed withdrawal can be paid.
VaultsBackBothLayers ==
  \A a \in Asset :
    vault[a] = Owed(market, a)
               + SumFunctionOnSet([t \in Trader |-> InFlight(t, a)], Trader)

\* Everything a trader owns of an asset: tokens, lots in the market, and lots
\* on their way.
Worth(t, a) == wallet[t][a] + Holding(market, t, a) + InFlight(t, a)

\* A step that touches a receipt - request, processing on the rollup, commit,
\* payment, close - moves lots of a trader and never makes or loses any, in
\* whatever order the layers run them.
ReceiptsConserve ==
  [][deposit' # deposit \/ withdrawal' # withdrawal =>
       \A t \in Trader, a \in Asset : Worth(t, a)' = Worth(t, a)]_rollupVars

\* The program with its receipts implements Custody: a credit, a debit or a
\* close on one layer changes no trader's claim, a request to deposit and a
\* payment move lots of one trader only, and only trades change the rest.
Ledger ==
  INSTANCE Custody WITH
    claim <- [t \in Trader |-> [a \in Asset |-> Holding(market, t, a) + InFlight(t, a)]],
    fees <- market.unclaimed + treasury

LedgerSpec == Ledger!Spec

\* A deposit that was requested is credited and its receipt closed, unless
\* the market leaves the rollup or has no seat for the trader.
DepositsComplete ==
  \A t \in Trader :
    deposit[t] # NoReceipt ~>
      \/ deposit[t] = NoReceipt
      \/ home # "er" \/ ~ CanRegister(market, t)

\* A withdrawal that was debited on the rollup is paid on the base layer,
\* wherever the market is by then, unless its account has been removed.
WithdrawalsPaid ==
  \A t \in Trader :
    withdrawal[t].processed ~> withdrawal[t] = NoReceipt \/ status = "Tombstoned"

\* What accounts.rs says of a withdrawal: ProcessWithdrawalEr "validates
\* TraderState.free >= requested", so the receipt keeps the requested lots.
WithdrawsWhatWasRequested ==
  [][\A t \in Trader :
       withdrawal[t].at = "er" /\ withdrawal'[t].processed =>
         withdrawal'[t].lots = withdrawal[t].lots]_rollupVars
============================================================================

# TLA+ models of the Phoenix order book on a rollup

The repository is a central limit order book for Solana (`src/src`) whose market
account can be delegated to a MagicBlock ephemeral rollup. These modules model
the market, the instructions that change it, the log they write, the token
custody around it, the two-layer deposit and withdrawal protocol, and who may
act: authorities, seats and session keys. TLC checks small instances; TLAPS
proves the safety properties of the market, of the two-layer protocol and of
governance, sums and refinement included, for all values of the constants.
`PROJECT.json` lists the parts, runs, mutations, hazards, theorems, and the
source lines behind every definition.

## The system

| part | state | operations |
|---|---|---|
| matching engine (`state/markets/fifo.rs`) | bids, asks, registered traders with free and locked lots, order sequence number, unclaimed and collected fees | place, match, post, evict, reduce, cancel, claim, collect fees |
| trading instructions (`processor/new_order.rs`, `cancel_multiple_orders.rs`, `reduce_order.rs`) | market, vaults, token accounts | swap, limit and post-only orders; ladders of post-only orders; cancel all, up to, by id; reduce; with or without token transfers |
| funds (`deposit.rs`, `withdraw.rs`, `fees.rs`, `token_utils.rs`) | the same | deposit, withdraw, collect fees |
| governance (`governance.rs`, `manage_seat.rs`, `status.rs`, `fees.rs`) | market status, seat accounts, authority, successor and fee recipient | change status, request, approve, retire and evict seats, forced cancellation, removal, succession, change of the fee recipient |
| rollup (`delegate_market.rs`, `commit_*`, `undelegate_market.rs`, `request_*`, `process_*_er.rs`, `close_deposit_receipt.rs`, `execute_withdrawal_base_chain.rs`) | layer of the market account, one deposit and one withdrawal receipt per trader | delegate, undelegate, request, process, commit, settle, close |
| seats and sessions on two layers (`delegate_seat.rs`, `session.rs`, `create_session_token.rs`, `revoke_session_token.rs`) | two copies of a delegated seat, session tokens and their clones | delegate a seat, create and revoke a token, trade by session key |
| audit log (`event_recorder.rs`, `events.rs`) | buffer of events of the running instruction | add an event, flush a batch, publish |
| initialization, decoding, loaders | | not modelled, or in part; see below |

An instruction is one Solana transaction: it takes effect as a whole or, when a
check fails or an arithmetic operation overflows, not at all. Within a layer
transactions are serial. Concurrency comes from the order in which clients'
transactions arrive, from the clock that expires orders between them, and from
the two layers, which run independently and meet only through committed
accounts.

What is hard to get right here: loops that edit the book while walking it
(expired orders, self trades, match limits); accounts kept in lots on two
sides, of which one part is locked by the book; rounding and fees; a book, a
trader tree and a sequence at their limits; seats, registrations and orders in
different accounts, one of which may exist twice; tokens that are in the vault
while the lots they back are in a receipt between two layers; and a log that is
written in pieces while the book changes. `hazards` in `PROJECT.json` gives the
lines.

## Modules

* **FIFOMarket** - operators on a market record: order ids and priority, fees
  and rounding, posting, filling, reducing, claiming, eviction.
* **PhoenixMarket** - the state machine. `market`, `status`, `seat`, `vault`,
  `wallet`, `treasury`, `slot`, and `txn`, the instruction in progress. An order
  or cancellation runs in steps on the copy `txn.m`, one step per loop
  iteration (`CrossExpiredOrder`, `MatchOrder`, `SelfTradeDecrementTake`, ...),
  and the last step (`PlaceOrder`, `CancelDone`) makes the token transfers and
  writes the copy back, or aborts. Instructions without a loop are one action.
  The file ends with `TypeOK`, the structural invariants and `IndInv`.
* **MarketAccounting** - the invariants about sums (locked lots, vaults), the
  action properties and termination.
* **BatchOrders** - `PlaceMultiplePostOnlyOrders`: the orders of a ladder are
  sorted and merged into levels (`Levels`), and the levels are placed one after
  the other on `txn.m` (`NextLevel`, `LevelMeetsExpired`, `LevelMeetsLive`,
  `LevelMeetsNothing`) with the running copy of the available funds;
  `BatchDone` makes the transfers or aborts.
* **EventRecorder** - operators on the recorder of one instruction: `add_event`,
  `flush`, `Published`, with the serialized sizes of the events.
* **MarketLog** - orders, ladders, cancellations, reductions, deposits,
  withdrawals and the collection of fees with the events they record, and an
  observer outside the program that rebuilds the book from the published batches
  (`mirror`). The log of a failed instruction is never seen.
* **RollupMarket** - extends MarketAccounting with `home`, the layer of the
  market, and the receipts. On the rollup only instructions run that move no
  tokens and create no accounts.
* **Custody** - the abstract specification: wallets, each trader's claim, and
  fees. Lots move between one trader's wallet and claim, or by a trade that
  conserves the total. RollupMarket implements it.
* **Governance** - extends RollupMarket with the header's keys, the second copy
  of a delegated seat (`away`), session tokens and the clones of them the rollup
  works with, and two books the program does not keep: `earned` and `paid`, the
  fees of each key. `via` tells who signed the transaction in progress.
* **EngineProofs, PhoenixMarketProofs, OrderProofs, AccountingProofs,
  TradingProofs, ReceiptProofs, RollupProofs, MarketLogProofs** - the lemmas and
  theorems; see Proofs.
* **MC...** - the instances.

Operators with a suffix (`Fill_unlockAll`) are mutations: a plausible mistake
in the definition they precede. They are used by no specification.

How the data is abstracted: prices are ticks, quantities lots, and token atoms
are counted in lots; an order packet is a record; slot and unix-time expiry are
one clock (also for sessions); client order ids are left out; a trader's tree
index is the trader.
`MaxU64` stands for the largest u64 and `MaxSeq` for `u64::MAX >> 1`. Balances
are integers, so that a subtraction that would make the program abort is
visible as a negative number (`NoUnderflow`). The code branches for resting
orders of size zero are left out: `TypeOK` says that there are none, and the
code that would make one is modelled. An early return without effect is an
action that is not enabled. `initialize` accepts a tick size of zero; the model
assumes a positive one that is a multiple of the base lots per base unit.

The delegation program and the validator are outside the repository. As the
handlers use them: a delegated account is written on the rollup only, another
on the base layer only; a scheduled undelegation stops writes and arrives
later; attached actions may be late or repeated. `CommitMarket` is no action,
because nothing on the base layer reads the balances of a delegated market.
In RollupMarket seats are managed on the base layer. In Governance a seat may be
delegated. No instruction brings it back, and the checks accept a seat owned by
the delegation program, so each layer goes on with its own copy. `SeatsBacked`
is therefore claimed for PhoenixMarket and not for Governance: a seat that is
approved on the rollup only can be evicted on the base layer, which leaves the
approved copy unregistered. A session
token is read on the rollup through a clone that the validator refreshes at
some time.

## Runs

| run | what it shows |
|---|---|
| `matching` | Limit and IOC orders with base and quote budgets, partial fills, match limits, self trades (abort, decrement, cancel) and a 25% fee: uncrossed book, distinct ids, locked lots equal to the book, vaults equal to claims plus fees, no underflow, budgets respected, makers paid their price, price-time priority. |
| `book` | A full book with expiring orders: repricing, rejection, eviction and the end of the sequence numbers. `IndInv` is checked here before it is proved. |
| `lifecycle` | One seat for two traders and every seat and market status, from opening to removal: no order without a registered owner, approved seats registered, no tokens left in a removed market. |
| `cancel` | Quotes, ladders in every failure mode, and all cancellations and reductions: a ladder that skips unaffordable levels never spends more than the trader has; a cancellation changes only the caller's orders and lots, and exactly by what was released. |
| `audit_log` | Orders, ladders, cancellations and fee collection at a fee of 100%, with a log call that is full after two events: the published log rebuilds book, owners, expiries and uncollected fees; batches are complete and numbered; no underflow; every order, ladder and cancellation ends (liveness). |
| `rollup` | Receipts interleaved with trading on both layers, undelegation and evictions: vaults back balances, fees and lots in flight; a receipt step conserves what each trader owns; `LedgerSpec`, the refinement of Custody. |
| `receipts` | Requested deposits complete while the market stays on the rollup and has room; debited withdrawals are paid (liveness). |
| `governance` | Succession, changes of the fee recipient, delegation of market and seats, and a session key whose token expires, is revoked or is stale on the rollup: every fee reaches the key it is due to, session keys move no tokens and act only under a grant in force (on the rollup: some unexpired grant, since the clone may miss a revocation), and no order loses its owner when an eviction reads a stale seat. `GovernanceInv` is checked here before it is proved. |
| `redelegation` | Finding: after `claim_authority` by another key nobody can delegate the market. |
| `post_only_status` | Finding: a limit order with free funds trades in status PostOnly. |
| `withdrawal_clamp` | Finding: a withdrawal of more than is free is debited in part, where `accounts.rs` says it is validated. |
| `tombstone` | Finding: a market is removed with a receipt outstanding, whose tokens stay in the vault. |

**Bounds.** Two traders give maker and taker, self trades, and competition for a
seat; they are interchangeable (symmetry, in safety runs only). Books of two or
three orders are enough for priority, eviction and loops that meet an expired,
an own and a foreign order in turn. `MaxSeq` bounds the orders ever posted and
at the same time exercises the refusal at the limit. Sizes 1 to 3 give full,
partial and empty fills. `matching` has two lots per unit and a fee that rounds;
its limit orders have three of the four combinations of two prices and two
sizes, and an order that may match once also aborts on a self trade, so that
each way of handling a self trade occurs with no more packets than needed.
Slots up to 2 give orders before, at and after their last valid slot.
`rollup` moves one bundle of lots per request and allows two orders, enough for
a trade between a request and its processing. `audit_log` gives a call 237
bytes instead of 1280, so that a flush falls between any two events of a match.
`governance` has two keys, one session owner and one expiry in the middle of
the clock: a token can be valid, expired, revoked and granted again, on each
layer. Orders are paid from free lots or from the wallet; a session key may use
the first only. One seat (`SeatOwner`) is delegated, and approved and disapproved before
and after: its trader can have an order on the book while the copy that an
eviction reads says that the seat is not approved. Retired seats, market status
and cancellations with a claim are left to the other runs.

**Deadlock** is checked in `cancel`, `audit_log`, `rollup`, `governance` and
`redelegation`. It is not in `matching`, `book`, `lifecycle`, `post_only_status`, `receipts`, `tombstone`
and `withdrawal_clamp`: there the instance really stops, when its sequence
numbers and slots are used up, or when the market has been removed.

**Fairness.** `FairLogSpec`, and `FairSpec` for `post_only_status`, have weak
fairness of a step of the instruction in progress: the runtime runs a
transaction to its end. `FairRollupSpec` has weak
fairness, for each trader, of the actions the validator runs (process a
deposit, commit a receipt, close it, pay a withdrawal). The program attaches
these actions to the delegation or the undelegation. Nothing makes a client
act, the market stay on the rollup, or a withdrawal be processed:
`process_withdrawal_er` fails for a trader without free lots. `receipts` has no
order flow, since with weak fairness an endless stream of other transactions
could keep a step disabled for ever.

## Proofs

The theorems hold for any finite set of traders, any sizes, fee, packets and
transfers allowed by the assumptions on the constants (`ConfigAssumption`,
`TickAssumption`, `InputAssumption`, `TraderAssumption`, and for the log
`SizeAssumption` and `BatchAssumption`). The modules build on each other:

| module | what it holds |
|---|---|
| `EngineProofs` | sums over finite sets, division and rounding, types of the operators; what each engine operation does to balances, locks and debts |
| `PhoenixMarketProofs` | `IndInv` and what follows from it |
| `OrderProofs` | the accounts through the steps of an order |
| `AccountingProofs` | the accounts through cancellations and the other instructions; the theorems on accounts |
| `TradingProofs` | priority, post-only orders, the prices makers get |
| `ReceiptProofs` | the steps of the receipts; the invariants on two layers |
| `RollupProofs` | vaults on two layers, the refinement of Custody; Governance |
| `MarketLogProofs` | the event recorder and the log |

**The market** (`PhoenixMarketProofs`, for `Spec`):

* `Invariance`: `[]IndInv`;
* `TypeCorrect`: `[]TypeOK`;
* `NeverCrossed`: `[]UncrossedBook`, no unexpired bid meets an unexpired ask;
* `IdsDistinct`: `[]OrderIdsDistinct`;
* `SeatsAlwaysBacked`: `[]SeatsBacked`.

None of the last three is inductive alone. An order is posted from the copy of
a transaction that began steps ago, so `IndInv` says of the account and of the
copy that the book is uncrossed now, that every stored number is below the next
one (`BookOK`), and that there are no more registrations than seats (`SeatsOK`);
that the copy knows every trader the account knows; and of an order in progress that a sequence number is left for it, that its price is
positive where it could be posted, and, for a post-only order past its check,
that it crosses nothing (`OrderOK`). Uncrossedness survives time because an
order that has expired never becomes valid again. The proof has lemmas for each engine
operator (`FillOK`, `ReduceByOK`, `PostOK`, ...) and one for each action.
`IndInv` says nothing about the status of seats, because it is also to hold in
Governance, where a seat has two copies. That every approved trader is registered
(`SeatsBacked`) is proved on top of it for `Spec`.

**The accounts** (`AccountingProofs`, for `Spec`):

* `AccountsInvariance`: `[]AccInv`;
* `LocksAreExact`: `[]LockedMatchesBook`;
* `VaultsAlwaysBack`: `[]VaultsBackClaims`;
* `OwnersAlwaysRegistered`: `[]OwnersRegistered`;
* `NothingUnderflows`: `[]NoUnderflow`;
* `BudgetsAreRespected`: `[]BudgetRespected`;
* `NothingIsStranded`: `[]NothingStranded`;
* `CancelsSettleExactly`: `CancelSettlesExactly`.

A sum over a set is the library's fold, which takes out elements in an order
of its choice. `EngineProofs` shows that the choice does not matter
(`SumRemove`), by looking at a smallest set for which it would, and from that
that a sum changes by as much as one of its terms (`SumChange`). `AccInv` in
MarketAccounting adds to the locks what an instruction in progress needs. An
order has moved lots between the makers' accounts and its own totals, so the
debts of the copy differ from those of the account by exactly what the order
has taken, paid and been charged (`OrderAccounts`), and its totals together
with its remaining budgets stay within the budgets it began with. The sender of
a resting order is registered in the copy, and an order that has matched no base
lots has matched no quote lots, so that crediting an unregistered sender of an
IOC order credits nothing. The budgets
are kept in adjusted quote lots with the fee taken off, so the bound on the
price with the fee added back needs the lemmas on rounding.
A cancellation has touched only the caller's orders, and
what it will pay out is what its copy lacks (`CancelAccounts`). Each step then
changes the vaults by what it changes the debts by (`VaultsFollow`).

**Trading** (`TradingProofs`, for `Spec`):

* `PriorityHolds`: `PriceTimePriority`. Only `MatchOrder` adds to what an order
  has matched (`OnlyFillsMatch`), it takes the best order, and the bounds on
  sequence numbers in `BookOK` make the stored ids of a side agree with the
  order of arrival (`PrecedesMeans`);
* `PostOnlyOrdersNeverTrade`: `[]PostOnlyNeverTrades`. The order starts from the
  account itself, because an approved seat is registered (`SeatsBacked`), and
  removals only unlock;
* `MakersAlwaysGetTheirPrice`: `MakersGetTheirPrice`, from `MakersInv`: every
  order left in the copy comes from one in the account with the same price and
  owner, and each maker has so far received at least the price of one of its
  orders. A maker with several orders is why the property names one of them:
  the next fill is at another price, and the better of the two prices serves
  for both fills.

**Two layers** (`ReceiptProofs` and `RollupProofs`, for `RollupSpec`):

* `RollupInvariance`, `RollupNeverCrossed`, `NothingUnderflowsOnTwoLayers`:
  `[]IndInv`, `[]UncrossedBook`, `[]NoUnderflow`;
* `ReceiptsWellFormed`: `[]RollupTypeOK`;
* `ReceiptsConserved`: `ReceiptsConserve`;
* `VaultsAlwaysBackBothLayers`: `[]VaultsBackBothLayers`;
* `LedgerKept`: `LedgerSpec`, the refinement of Custody.

The invariant is `FlowInv`: `IndInv` and `AccInv`, and receipts that hold lots
exactly as long as they exist. An instruction on either layer is one of
PhoenixMarket. Each of the eight receipt steps touches the accounts of one
trader and changes the vaults by what it changes the debts and the lots in
flight by (`Touches`). For the refinement every step is put into one of three
classes (`NextMoves`, `ReceiptStepFlows`): it moves nobody's lots and the ledger
stutters, also when fees are collected; it moves lots of one trader between
wallet, market and receipts, a `Move`; or it is `PlaceOrder`, a `Trade`. There
the total is kept because vaults follow debts (`TradeKeepsTotal`), and a maker
that loses lots of one asset gains lots of the other because it got the price
of one of its orders and prices are positive (`PriceIsPaid`).

**Governance** (`RollupProofs`, for `GovernanceSpec`, from `GovernanceAssumption`
that the creator is one of the keys and that seat and session owners are traders):

* `GovernanceInvariance`: `[]GovernanceInv`;
* `FeesAlwaysFollow`: `[]FeesFollowRecipient`;
* `SessionsNeverMoveTokens`: `SessionsMoveNoTokens`;
* `SessionsStayWithinGrant`: `SessionsWithinGrant`;
* `GovernedOwnersRegistered`, `GovernedNeverCrossed`, `GovernedVaultsBack`:
  `[]OwnersRegistered`, `[]UncrossedBook`, `[]VaultsBackClaims`.

`GovernanceInv` is `IndInv` and `AccInv`, the types of the new state, and two
facts that the session properties need: what a session key has in progress is an
order paid from free lots or a cancellation that pays nothing out
(`SessionTxnOK`), and neither the token nor the clone of it holds what was never
granted (`TokensGranted`). A step is an instruction of PhoenixMarket
(`GovernedIsNext`), the beginning of a session key's transaction
(`SessionStarts`), or it changes nothing of the market but which copy of a seat
is read (`AdministersOK`), and to that the invariants are indifferent
(`SeatsKeepMarket`). A session key's transaction moves no tokens in its last step
either: `PlaceOrder` with free funds makes no transfer, and the lots a
cancellation pays out are none (`CancelAccounts`, `SessionGoesOn`). For the fees,
an instruction changes what the recipient has earned but not been paid by what it
changes the uncollected fees by (`FeesGo`), and a new recipient takes over
nothing without a signature because the uncollected fees are then zero, not
negative (`RecipientChangeKeepsFees`).

**The log** (`MarketLogProofs`, for `LogSpec`): `LogComplete`, that is
`[]LogIsComplete`, for every call size that holds the header and one event. The
inductive invariant is `RecorderOK` of the recorder: what is buffered fits and
is numbered on from what was sent, and every batch that was sent holds as many
events as it announced. Recording, flushing and publishing keep it.

**Model-checked only:** `LogRebuildsMarket`, which folds the log, since what a
fold over a sequence returns needs an induction that the prover cannot do;
`SkippingKeepsFunded`, whose ladders are sorted and merged by such folds, so that
already the sizes of the levels are out of reach; the properties of the market
under `LogSpec` and `BatchSpec`, where a ladder is a transaction that
`IndInv` does not describe; and liveness, which is beyond the
prover.

## Not modelled

* Account creation in `initialize`, and the creation and sizes of accounts in
  general.
* Checks of keys, owners and signers, other than those Governance is about.
* `CommitMarket`, and the authority that `delegate_seat` reads from the copy of
  the header it leaves on the base layer.
* The logs of seat and status instructions, which hold no events, and of forced
  cancellation, which are those of a cancellation.
* Decoding, instruction builders, IDL, unit types and size dispatch, which have
  no state, and the read-only ladder of the book. Builders, packet constructors,
  account loaders and the tests kept under `src/src` are most of the source
  lines without a counterpart here.
* The effect of a division by zero: an order for which `DividesByZero` holds
  aborts, so its action is not enabled.

## Plan

1. `FeeMath`: fee and budget operators against exact reference definitions.
2. The base copy of the market header as a second copy in Governance, with
   `CommitMarket`, so that it matters which authority delegates a seat.
3. Governance with receipts: deposits and withdrawals in flight while a
   delegated seat's copies disagree.
4. An invariant of ladders in progress beside `OrderOK`, with the levels of a
   ladder as an input, so that the proofs extend to `PlaceMultiplePostOnlyOrders`.

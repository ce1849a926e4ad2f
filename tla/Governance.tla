----------------------------- MODULE Governance -----------------------------
(***************************************************************************)
(* Who may act on a market that moves between the layers: the authority    *)
(* and its successor, the fee recipient, delegated seats, and session keys *)
(* that trade for their owner.                                             *)
(*                                                                         *)
(* A delegated seat never comes back: the program has no instruction for   *)
(* it.  From then on there are two copies of it.  The checks accept a seat *)
(* that belongs to the delegation program, so an instruction reads the     *)
(* copy of its own layer, and only the copy on the rollup can be written.  *)
(* Session tokens live on the base layer, and the rollup works with a      *)
(* clone of them that may lag behind.                                      *)
(***************************************************************************)
EXTENDS RollupMarket

CONSTANTS
  Key,            \* accounts that govern the market or receive its fees
  Creator,        \* the key that initialized the market
  SessionOwner,   \* traders that use session keys
  SeatOwner,      \* traders whose seats the authority may delegate
  Expiry          \* values of expires_at; 0 means never

ASSUME GovernanceAssumption ==
  /\ Creator \in Key
  /\ SessionOwner \subseteq Trader /\ SeatOwner \subseteq Trader
  /\ Expiry \subseteq Nat

VARIABLES
  header,     \* authority, successor and fee recipient of the MarketHeader
  delegated,  \* traders whose seat has been delegated
  away,       \* the copy of a delegated seat on the layer without the market
  token,      \* expires_at of each trader's session token, if there is one
  clone,      \* the session tokens as the rollup knows them
  granted,    \* every expires_at the trader has ever signed for
  via,        \* who signed the transaction in progress
  earned,     \* fees due to each key
  paid        \* fees paid to each key

governance ==
  <<header, delegated, away, token, clone, granted, via, earned, paid>>

GovernanceInit ==
  /\ RollupInit
  /\ header = [authority |-> Creator, successor |-> Creator, recipient |-> Creator]
  /\ delegated = {}
  /\ away = [t \in Trader |-> "None"]
  /\ token = [t \in Trader |-> {}]
  /\ clone = [t \in Trader |-> {}]
  /\ granted = [t \in Trader |-> {}]
  /\ via = "owner"
  /\ earned = [k \in Key |-> 0]
  /\ paid = [k \in Key |-> 0]

----------------------------------------------------------------------------
(* Authority and fee recipient, on the layer of the market.                *)

HeaderWritable == Idle /\ home # "leaving"

NameSuccessor(k) ==
  /\ HeaderWritable
  /\ header' = [header EXCEPT !.successor = k]
  /\ UNCHANGED <<vars, rollup, delegated, away, token, clone, granted, via,
                 earned, paid>>

\* Signed by the successor, which stays the successor.
ClaimAuthority ==
  /\ HeaderWritable
  /\ header' = [header EXCEPT !.authority = header.successor]
  /\ UNCHANGED <<vars, rollup, delegated, away, token, clone, granted, via,
                 earned, paid>>

\* The signature of the previous recipient passes on the uncollected fees.
Reassign(signed, k) ==
  earned' = IF signed
            THEN [earned EXCEPT ![header.recipient] = @ - market.unclaimed,
                                ![k] = @ + market.unclaimed]
            ELSE earned

\* Mutation: the signature is never required.
ChangeFeeRecipient_unsigned(k, signed) ==
  /\ HeaderWritable
  /\ header' = [header EXCEPT !.recipient = k]
  /\ Reassign(signed, k)
  /\ UNCHANGED <<vars, rollup, delegated, away, token, clone, granted, via, paid>>

\* By the authority; the previous recipient signs if fees are uncollected.
ChangeFeeRecipient(k, signed) ==
  /\ HeaderWritable
  /\ market.unclaimed > 0 => signed
  /\ header' = [header EXCEPT !.recipient = k]
  /\ Reassign(signed, k)
  /\ UNCHANGED <<vars, rollup, delegated, away, token, clone, granted, via, paid>>

\* What a step of the program earns and pays goes to the current recipient.
FeesToRecipient ==
  LET total == market.unclaimed + treasury
      totalNext == market'.unclaimed + treasury'
  IN /\ earned' = [earned EXCEPT ![header.recipient] = @ + totalNext - total]
     /\ paid' = [paid EXCEPT ![header.recipient] = @ + treasury' - treasury]

----------------------------------------------------------------------------
(* Delegation of the market and of seats.                                  *)

\* The market's layer changes, and with it the copy of each delegated seat
\* that instructions on the market read.
SwapSeats ==
  /\ seat' = [t \in Trader |-> IF t \in delegated THEN away[t] ELSE seat[t]]
  /\ away' = [t \in Trader |-> IF t \in delegated THEN seat[t] ELSE away[t]]
  /\ UNCHANGED <<market, status, vault, wallet, treasury, slot, txn, deposit,
                 withdrawal, header, delegated, token, clone, granted, via,
                 earned, paid>>

\* The market's address is derived again, from the key of the authority.
find_market_address(k) == k = Creator

MayDelegate(k) == k = header.authority /\ find_market_address(k)

DelegateMarketBy(k) ==
  /\ Idle /\ home = "base"
  /\ MayDelegate(k)
  /\ home' = "er"
  /\ SwapSeats

MarketReturns ==
  /\ home = "leaving"
  /\ home' = "base"
  /\ SwapSeats

\* By the authority, whatever the layer of the market and the seat's status.
DelegateSeat(t) ==
  /\ Quiet /\ status # "Tombstoned"
  /\ seat[t] # "None" /\ t \notin delegated
  /\ delegated' = delegated \cup {t}
  /\ away' = [away EXCEPT ![t] = seat[t]]
  /\ UNCHANGED <<vars, rollup, header, token, clone, granted, via, earned, paid>>

\* An instruction can write a seat of its own layer only.
SeatWritable(t) == (home = "er") <=> (t \in delegated)

----------------------------------------------------------------------------
(* Session tokens.                                                         *)

CreateSessionToken(t, expires_at) ==
  /\ Quiet
  /\ token[t] = {}
  /\ token' = [token EXCEPT ![t] = {expires_at}]
  /\ granted' = [granted EXCEPT ![t] = @ \cup {expires_at}]
  /\ UNCHANGED <<vars, rollup, header, delegated, away, clone, via, earned, paid>>

RevokeSessionToken(t) ==
  /\ Quiet
  /\ token[t] # {}
  /\ token' = [token EXCEPT ![t] = {}]
  /\ UNCHANGED <<vars, rollup, header, delegated, away, clone, granted, via,
                 earned, paid>>

\* The validator fetches the token account again.
RefreshClone(t) ==
  /\ Quiet
  /\ clone[t] # token[t]
  /\ clone' = [clone EXCEPT ![t] = token[t]]
  /\ UNCHANGED <<vars, rollup, header, delegated, away, token, granted, via,
                 earned, paid>>

\* Mutation: the token never expires.
TokenExpired_never(expires_at) == FALSE

\* Slots stand for seconds.
TokenExpired(expires_at) == expires_at # 0 /\ slot >= expires_at

\* The session tokens as the layer of the market has them.
TokenSeen(t) == IF home = "er" THEN clone[t] ELSE token[t]

\* Mutation: also the handlers that pay from the owner's wallet.
SessionInstruction_wallet(t) ==
  \/ \E p \in Packets : NewOrder(t, p)
  \/ CancelAllOrders(t, FALSE)

\* Mutation: the cancellation pays the released lots out.
SessionInstruction_claims(t) ==
  \/ \E p \in Packets : p.freeFunds /\ NewOrder(t, p)
  \/ CancelAllOrders(t, TRUE)

\* PlaceLimitOrderViaSession, SwapViaSession and CancelAllOrdersViaSession:
\* the handlers for free funds, with the owner as the signer.
SessionInstruction(t) ==
  \/ \E p \in Packets : p.freeFunds /\ NewOrder(t, p)
  \/ CancelAllOrders(t, FALSE)

SessionDispatch(t) ==
  /\ home # "leaving"
  /\ \E expires_at \in TokenSeen(t) : ~ TokenExpired(expires_at)
  /\ SessionInstruction(t)
  /\ via' = IF txn' = NoTxn THEN "owner" ELSE "session"
  /\ UNCHANGED <<rollup, header, delegated, away, token, clone, granted, earned, paid>>

----------------------------------------------------------------------------
\* The other instructions; one that writes a seat needs it on its layer.
GovernedInstruction ==
  /\ \/ Instruction
     \/ /\ home = "er"
        /\ \E t \in delegated, new \in SeatRequests : ChangeSeatStatus(t, new)
        /\ UNCHANGED rollup
  /\ \A t \in Trader : seat'[t] # seat[t] => SeatWritable(t)
  /\ via' = IF txn' = NoTxn THEN "owner" ELSE via
  /\ FeesToRecipient
  /\ UNCHANGED <<header, delegated, away, token, clone, granted>>

MarketMoves ==
  \/ \E k \in Key : DelegateMarketBy(k)
  \/ MarketReturns
  \/ CommitAndUndelegateMarket /\ UNCHANGED governance

GovernanceNext ==
  \/ GovernedInstruction
  \/ MarketMoves
  \/ ClaimAuthority
  \/ \E k \in Key :
       NameSuccessor(k) \/ \E signed \in BOOLEAN : ChangeFeeRecipient(k, signed)
  \/ \E t \in SeatOwner : DelegateSeat(t)
  \/ \E t \in SessionOwner :
       \/ \E e \in Expiry : CreateSessionToken(t, e)
       \/ RevokeSessionToken(t) \/ RefreshClone(t) \/ SessionDispatch(t)

governanceVars == <<rollupVars, governance>>

GovernanceSpec == GovernanceInit /\ [][GovernanceNext]_governanceVars

----------------------------------------------------------------------------
(* Properties.                                                             *)

\* Every fee is paid to the key that was the recipient when a taker paid it,
\* or to a later recipient that a key entitled to it has signed for: a
\* change of recipient or of authority, on either layer and at any moment of
\* a trade, takes no fees from anybody.
FeesFollowRecipient ==
  \A k \in Key :
    earned[k] = paid[k] + (IF k = header.recipient THEN market.unclaimed ELSE 0)

\* A session key trades for its owner but moves no tokens: no step of a
\* transaction it has signed changes a wallet, a vault or the fees paid, on
\* whichever layer the market is.
SessionsMoveNoTokens ==
  [][via = "session" => UNCHANGED <<wallet, vault, treasury>>]_governanceVars

\* A session key acts only while something its owner signed for is in force:
\* on the base layer the token itself; on the rollup, whose clone may be
\* older than a revocation, at least one token that has not expired.
SessionsWithinGrant ==
  [][via # "session" /\ via' = "session" =>
       \E e \in (IF home = "base" THEN token ELSE granted)[txn'.who] :
         e = 0 \/ slot < e]_governanceVars

\* What the comment in initialize.rs and the header of delegate_market.rs say
\* of a market at the derived address: it "is delegatable", since its seeds
\* are those of the market creator.
AuthorityCanDelegate ==
  Idle /\ home = "base" => \E k \in Key : MayDelegate(k)

----------------------------------------------------------------------------
(* The inductive invariant behind these properties.                        *)

GovernanceTypeOK ==
  /\ home \in {"base", "er", "leaving"}
  /\ header \in [authority : Key, successor : Key, recipient : Key]
  /\ delegated \subseteq Trader
  /\ away \in [Trader -> SeatStatus]
  /\ token \in [Trader -> SUBSET Nat]
  /\ clone \in [Trader -> SUBSET Nat]
  /\ granted \in [Trader -> SUBSET Nat]
  /\ earned \in [Key -> Int] /\ paid \in [Key -> Int]

\* A session key's transaction is an order paid from free lots or a
\* cancellation whose lots stay in the market.
SessionTxnOK ==
  via = "session" =>
    \/ txn.phase \in {"cross", "match", "place"} /\ txn.p.freeFunds
    \/ txn.phase = "cancel" /\ ~ txn.claim

\* Neither layer knows of a token that its owner has not signed for.
TokensGranted ==
  \A t \in Trader : token[t] \subseteq granted[t] /\ clone[t] \subseteq granted[t]

\* On both layers, whoever governs the market and signs for its traders, the
\* market and the working copy of the transaction in progress are well formed
\* and their accounts in order; a session key has nothing in progress that
\* could move tokens, and no layer sees a token that was never granted.
GovernanceInv ==
  IndInv /\ AccInv /\ GovernanceTypeOK /\ SessionTxnOK /\ TokensGranted
============================================================================

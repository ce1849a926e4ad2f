-------------------------- MODULE GovernanceProofs --------------------------
(***************************************************************************)
(* Safety of Governance for every configuration: the invariant of the      *)
(* market survives stale copies of seats, fees follow their recipient, and *)
(* session keys stay within their grants and move no tokens.               *)
(***************************************************************************)
EXTENDS Governance, ReceiptProofs, AccountingProofs

----------------------------------------------------------------------------
(* Governance: what the steps do to the keys, seats, tokens and fees.      *)

\* The accounts that governing a market changes, besides the seats.
GovernanceAccounts == <<header, delegated, away, token, clone, granted>>

\* Nothing of the market changes but, perhaps, the copies of the seats.
OnlySeats ==
  /\ UNCHANGED <<market, status, vault, wallet, treasury, slot, txn>>
  /\ seat' \in [Trader -> SeatStatus]

\* The market is indifferent to which copy of a seat is read.
LEMMA SeatsKeepMarket ==
  ASSUME IndInv, AccInv, OnlySeats
  PROVE  IndInv' /\ AccInv'
<1>. USE DEF OnlySeats
<1>1. TypeOK'
  BY Zenon DEF IndInv, TypeOK
<1>2. /\ MarketOK(market, slot)'
      /\ txn' # NoTxn => MarketOK(txn.m, slot)' /\ market'.registered \subseteq txn'.m.registered
  BY Zenon DEF IndInv
<1>3. OrderOK => OrderOK'
  BY Zenon DEF OrderOK, Resting, Maker
<1>4. IndInv'
  BY Zenon, <1>1, <1>2, <1>3 DEF IndInv
<1>5. AccInv'
  BY Zenon DEF AccInv, AccountsOK, OrderAccounts, CancelAccounts, FeeDue, LotsIn, LotsOut,
               MatchedQuote, Own
<1>. QED  BY Zenon, <1>4, <1>5

\* What a session key signs for: an order paid from free lots, or a
\* cancellation that leaves the lots in the market, of the token's owner.
SessionOf(t) ==
  /\ txn'.who = t
  /\ \/ txn'.phase \in {"cross", "match", "place"} /\ txn'.p.freeFunds
     \/ txn'.phase = "cancel" /\ ~ txn'.claim

\* Paying out nothing changes no balance.
LEMMA AddNothing ==
  ASSUME NEW f \in Balances, NEW t \in Trader
  PROVE  AddAll(f, t, NoLots) = f
<1>1. [a \in Asset |-> f[t][a] + NoLots[a]] = f[t]
  <2>1. f[t] \in [Asset -> Int]
    BY Zenon DEF Balances, Amounts
  <2>2. \A a \in Asset : f[t][a] + NoLots[a] = f[t][a]
    BY <2>1 DEF NoLots
  <2>. QED  BY Zenon, <2>1, <2>2
<1>. QED  BY Zenon, <1>1 DEF AddAll, Balances

\* The instructions of a governed market are those of PhoenixMarket.
LEMMA GovernedIsNext ==
  ASSUME GovernanceTypeOK, GovernedInstruction
  PROVE  Next /\ UNCHANGED rollup
<1>1. CASE Instruction
  BY Zenon, <1>1, InstructionIsNext
<1>2. CASE /\ \E t \in delegated, new \in SeatRequests : ChangeSeatStatus(t, new)
           /\ UNCHANGED rollup
  <2>1. AuthorityNext
    BY Zenon, <1>2 DEF AuthorityNext, GovernanceTypeOK
  <2>. QED  BY Zenon, <1>2, <2>1 DEF Next
<1>. QED  BY Zenon, <1>1, <1>2 DEF GovernedInstruction

\* The steps that run no instruction of the market.
Administers ==
  \/ MarketMoves
  \/ ClaimAuthority
  \/ \E k \in Key :
       NameSuccessor(k) \/ \E signed \in BOOLEAN : ChangeFeeRecipient(k, signed)
  \/ \E t \in SeatOwner : DelegateSeat(t)
  \/ \E t \in SessionOwner :
       \/ \E e \in Expiry : CreateSessionToken(t, e)
       \/ RevokeSessionToken(t) \/ RefreshClone(t)

\* A change of layer swaps the copies of the delegated seats and nothing else.
LEMMA SwapSeatsOK ==
  ASSUME IndInv, GovernanceTypeOK, SwapSeats, home' \in {"base", "er"}
  PROVE  /\ OnlySeats /\ GovernanceTypeOK'
         /\ UNCHANGED <<header, token, clone, granted, via, earned, paid>>
<1>1. seat \in [Trader -> SeatStatus] /\ away \in [Trader -> SeatStatus]
  BY Zenon DEF IndInv, TypeOK, GovernanceTypeOK
<1>2. seat' \in [Trader -> SeatStatus] /\ away' \in [Trader -> SeatStatus]
  BY Zenon, <1>1 DEF SwapSeats
<1>. QED  BY Zenon, <1>2 DEF SwapSeats, OnlySeats, GovernanceTypeOK

\* Moving the market between the layers, changing its authority, recipient,
\* seats and session tokens leaves the market as it is.
LEMMA AdministersOK ==
  ASSUME GovernanceInv, Administers
  PROVE  /\ OnlySeats /\ via' = via
         /\ GovernanceTypeOK' /\ TokensGranted'
<1>. USE DEF GovernanceInv
<1>0. ASSUME UNCHANGED vars PROVE OnlySeats
  BY Zenon, <1>0 DEF OnlySeats, vars, IndInv, TypeOK
<1>1. CASE MarketMoves
  <2>1. CASE CommitAndUndelegateMarket /\ UNCHANGED governance
    BY Zenon, <1>0, <2>1
    DEF CommitAndUndelegateMarket, governance, GovernanceTypeOK, TokensGranted
  <2>2. CASE MarketReturns \/ \E k \in Key : DelegateMarketBy(k)
    <3>1. SwapSeats /\ home' \in {"base", "er"}
      BY Zenon, <2>2 DEF MarketReturns, DelegateMarketBy
    <3>2. /\ OnlySeats /\ GovernanceTypeOK'
          /\ UNCHANGED <<header, token, clone, granted, via, earned, paid>>
      BY Zenon, <3>1, SwapSeatsOK
    <3>. QED  BY Zenon, <3>2 DEF TokensGranted
  <2>. QED  BY Zenon, <1>1, <2>1, <2>2 DEF MarketMoves
<1>2. CASE \/ ClaimAuthority
           \/ \E k \in Key :
                NameSuccessor(k) \/ \E signed \in BOOLEAN : ChangeFeeRecipient(k, signed)
  <2>1. /\ UNCHANGED <<vars, rollup, delegated, away, token, clone, granted, via, paid>>
        /\ header' \in [authority : Key, successor : Key, recipient : Key]
    BY Zenon, <1>2 DEF ClaimAuthority, NameSuccessor, ChangeFeeRecipient, GovernanceTypeOK
  <2>2. earned' \in [Key -> Int]
    <3>1. CASE ClaimAuthority \/ \E k \in Key : NameSuccessor(k)
      BY Zenon, <3>1 DEF ClaimAuthority, NameSuccessor, GovernanceTypeOK
    <3>2. ASSUME NEW k \in Key, NEW signed \in BOOLEAN, ChangeFeeRecipient(k, signed)
          PROVE  earned' \in [Key -> Int]
      <4>1. /\ earned \in [Key -> Int] /\ header.recipient \in Key
            /\ market.unclaimed \in Int
        BY Zenon DEF GovernanceTypeOK, IndInv, TypeOK, Market
      <4>2. Reassign(signed, k)
        BY Zenon, <3>2 DEF ChangeFeeRecipient
      <4>. QED  BY <4>1, <4>2 DEF Reassign
    <3>. QED  BY Zenon, <1>2, <3>1, <3>2
  <2>3. home' = home
    BY Zenon, <2>1 DEF rollup
  <2>. QED  BY Zenon, <1>0, <2>1, <2>2, <2>3 DEF GovernanceTypeOK, TokensGranted
<1>3. ASSUME NEW t \in SeatOwner, DelegateSeat(t)
      PROVE  /\ OnlySeats /\ via' = via
             /\ GovernanceTypeOK' /\ TokensGranted'
  <2>1. t \in Trader /\ seat[t] \in SeatStatus
    BY Zenon, GovernanceAssumption DEF IndInv, TypeOK
  <2>2. /\ UNCHANGED <<vars, home, header, token, clone, granted, via, earned, paid>>
        /\ delegated' \subseteq Trader /\ away' \in [Trader -> SeatStatus]
    BY Zenon, <1>3, <2>1 DEF DelegateSeat, GovernanceTypeOK, rollup
  <2>. QED  BY Zenon, <1>0, <2>2 DEF GovernanceTypeOK, TokensGranted
<1>4. ASSUME NEW t \in SessionOwner,
             \/ \E e \in Expiry : CreateSessionToken(t, e)
             \/ RevokeSessionToken(t) \/ RefreshClone(t)
      PROVE  /\ OnlySeats /\ via' = via
             /\ GovernanceTypeOK' /\ TokensGranted'
  <2>1. t \in Trader /\ \A e \in Expiry : e \in Nat
    BY Zenon, GovernanceAssumption
  <2>2. UNCHANGED <<vars, home, header, delegated, away, via, earned, paid>>
    BY Zenon, <1>4 DEF CreateSessionToken, RevokeSessionToken, RefreshClone, rollup
  <2>3. /\ token \in [Trader -> SUBSET Nat] /\ clone \in [Trader -> SUBSET Nat]
        /\ granted \in [Trader -> SUBSET Nat]
    BY Zenon DEF GovernanceTypeOK
  <2>4. /\ token' \in [Trader -> SUBSET Nat] /\ clone' \in [Trader -> SUBSET Nat]
        /\ granted' \in [Trader -> SUBSET Nat] /\ TokensGranted'
    <3>1. CASE \E e \in Expiry : CreateSessionToken(t, e)
      BY <2>1, <2>3, <3>1 DEF CreateSessionToken, TokensGranted
    <3>2. CASE RevokeSessionToken(t)
      BY <2>1, <2>3, <3>2 DEF RevokeSessionToken, TokensGranted
    <3>3. CASE RefreshClone(t)
      BY <2>1, <2>3, <3>3 DEF RefreshClone, TokensGranted
    <3>. QED  BY Zenon, <1>4, <3>1, <3>2, <3>3
  <2>. QED  BY Zenon, <1>0, <2>2, <2>4 DEF GovernanceTypeOK
<1>. QED  BY Zenon, <1>1, <1>2, <1>3, <1>4 DEF Administers

\* The fees of a step, and who they go to.
LEMMA FeesGo ==
  ASSUME GovernanceTypeOK, FeesToRecipient,
         NEW u \in Int, NEW v \in Int, u = market.unclaimed, v = market'.unclaimed,
         treasury \in Int, treasury' \in Int
  PROVE  /\ earned' \in [Key -> Int] /\ paid' \in [Key -> Int]
         /\ \A k \in Key :
              earned'[k] - paid'[k]
                = earned[k] - paid[k] + (IF k = header.recipient THEN v - u ELSE 0)
<1>1. header.recipient \in Key /\ earned \in [Key -> Int] /\ paid \in [Key -> Int]
  BY Zenon DEF GovernanceTypeOK
<1>2. /\ earned' = [earned EXCEPT ![header.recipient] = @ + (v + treasury') - (u + treasury)]
      /\ paid' = [paid EXCEPT ![header.recipient] = @ + treasury' - treasury]
  BY Zenon DEF FeesToRecipient
<1>. QED  BY <1>1, <1>2

\* An instruction earns and pays fees, and changes nothing else of what
\* governs the market.
LEMMA GovernedKeeps ==
  ASSUME GovernanceInv, GovernedInstruction, IndInv'
  PROVE  GovernanceTypeOK' /\ TokensGranted'
<1>. USE DEF GovernanceInv
<1>1. /\ UNCHANGED <<GovernanceAccounts, home>> /\ FeesToRecipient
  BY Zenon, GovernedIsNext DEF GovernedInstruction, GovernanceAccounts, rollup
<1>2. /\ market.unclaimed \in Int /\ market'.unclaimed \in Int
      /\ treasury \in Int /\ treasury' \in Int
  BY Zenon DEF IndInv, TypeOK, Market
<1>3. earned' \in [Key -> Int] /\ paid' \in [Key -> Int]
  BY Zenon, <1>1, <1>2, FeesGo
<1>. QED  BY Zenon, <1>1, <1>3 DEF GovernanceAccounts, GovernanceTypeOK, TokensGranted

\* A session key's instruction changes nothing of what governs the market.
LEMMA DispatchKeeps ==
  ASSUME GovernanceInv, NEW t \in SessionOwner, SessionDispatch(t),
         txn' # NoTxn => SessionOf(t)
  PROVE  GovernanceTypeOK' /\ TokensGranted' /\ SessionTxnOK'
<1>1. /\ UNCHANGED <<GovernanceAccounts, home, earned, paid>>
      /\ via' = IF txn' = NoTxn THEN "owner" ELSE "session"
  BY Zenon DEF SessionDispatch, rollup, GovernanceAccounts
<1>2. GovernanceTypeOK' /\ TokensGranted'
  BY Zenon, <1>1 DEF GovernanceAccounts, GovernanceTypeOK, TokensGranted, GovernanceInv
<1>3. SessionTxnOK'
  BY Zenon, <1>1 DEF SessionTxnOK, SessionOf
<1>. QED  BY Zenon, <1>2, <1>3

\* Nothing happens, or nothing of the market but the copies of its seats:
\* the invariant stays.
LEMMA AdministrationOK ==
  ASSUME GovernanceInv, Administers \/ UNCHANGED governanceVars
  PROVE  GovernanceInv' /\ OnlySeats /\ via' = via
<1>. USE DEF GovernanceInv
<1>1. OnlySeats /\ via' = via /\ GovernanceTypeOK' /\ TokensGranted'
  <2>1. CASE UNCHANGED governanceVars
    BY Zenon, <2>1 DEF governanceVars, rollupVars, vars, rollup, governance, OnlySeats,
      GovernanceTypeOK, TokensGranted, IndInv, TypeOK
  <2>. QED  BY Zenon, <2>1, AdministersOK
<1>2. IndInv' /\ AccInv'
  BY Zenon, <1>1, SeatsKeepMarket
<1>3. SessionTxnOK'
  BY Zenon, <1>1 DEF OnlySeats, SessionTxnOK
<1>. QED  BY Zenon, <1>1, <1>2, <1>3

\* A change of the recipient takes along no fees that its previous holder
\* has not signed away.
LEMMA RecipientChangeKeepsFees ==
  ASSUME GovernanceInv, FeesFollowRecipient, NEW k \in Key, NEW signed \in BOOLEAN,
         ChangeFeeRecipient(k, signed)
  PROVE  FeesFollowRecipient'
<1>1. /\ earned \in [Key -> Int] /\ paid \in [Key -> Int] /\ header.recipient \in Key
      /\ market.unclaimed \in Int /\ market.unclaimed >= 0
  BY Zenon DEF GovernanceInv, GovernanceTypeOK, IndInv, TypeOK, Market, AccInv, AccountsOK
<1>2. PICK u \in Int : u = market.unclaimed
  BY Zenon, <1>1
<1>3. PICK r \in Key : r = header.recipient
  BY Zenon, <1>1
<1>4. /\ header'.recipient = k /\ market'.unclaimed = u /\ paid' = paid
      /\ u > 0 => signed
      /\ earned' = IF signed THEN [earned EXCEPT ![r] = @ - u, ![k] = @ + u] ELSE earned
  <2>1. /\ header \in [authority : Key, successor : Key, recipient : Key]
        /\ header' = [header EXCEPT !.recipient = k]
    BY Zenon DEF ChangeFeeRecipient, GovernanceInv, GovernanceTypeOK
  <2>2. header'.recipient = k
    BY Zenon, <2>1
  <2>. QED  BY Zenon, <1>2, <1>3, <2>2 DEF ChangeFeeRecipient, Reassign, vars
<1>5. \A x \in Key : earned[x] = paid[x] + (IF x = r THEN u ELSE 0)
  BY Zenon, <1>2, <1>3 DEF FeesFollowRecipient
<1>6. \A x \in Key : earned'[x] = paid[x] + (IF x = k THEN u ELSE 0)
  <2>1. CASE signed
    <3>1. earned' = [earned EXCEPT ![r] = @ - u, ![k] = @ + u]
      BY Zenon, <1>4, <2>1
    <3>. QED  BY <1>1, <1>5, <3>1
  <2>2. CASE ~ signed
    <3>1. u = 0 /\ earned' = earned
      BY <1>1, <1>2, <1>4, <2>2
    <3>. QED  BY <1>1, <1>5, <3>1
  <2>. QED  BY Zenon, <2>1, <2>2
<1>. QED  BY Zenon, <1>4, <1>6 DEF FeesFollowRecipient

\* No step takes fees from anybody, as long as the first step of a session
\* key's instruction charges none.
LEMMA FeesStep ==
  ASSUME GovernanceInv, IndInv', GovernanceTypeOK', FeesFollowRecipient,
         [GovernanceNext]_governanceVars,
         \A t \in SessionOwner : SessionDispatch(t) => market'.unclaimed = market.unclaimed
  PROVE  FeesFollowRecipient'
<1>1. ASSUME header'.recipient = header.recipient,
             market'.unclaimed = market.unclaimed, earned' = earned, paid' = paid
      PROVE  FeesFollowRecipient'
  BY Zenon, <1>1 DEF FeesFollowRecipient
<1>2. header \in [authority : Key, successor : Key, recipient : Key]
  BY Zenon DEF GovernanceInv, GovernanceTypeOK
<1>3. CASE MarketMoves \/ UNCHANGED governanceVars
  <2>1. UNCHANGED <<header, market, earned, paid>>
    BY Zenon, <1>3 DEF MarketMoves, DelegateMarketBy, MarketReturns, SwapSeats,
      CommitAndUndelegateMarket, governance, governanceVars, rollupVars, vars
  <2>. QED  BY Zenon, <1>1, <2>1
<1>4. CASE ClaimAuthority \/ \E k \in Key : NameSuccessor(k)
  <2>1. UNCHANGED <<market, earned, paid>>
    BY Zenon, <1>4 DEF ClaimAuthority, NameSuccessor, vars
  <2>2. header'.recipient = header.recipient
    BY Zenon, <1>2, <1>4 DEF ClaimAuthority, NameSuccessor
  <2>. QED  BY Zenon, <1>1, <2>1, <2>2
<1>5. CASE \E k \in Key, signed \in BOOLEAN : ChangeFeeRecipient(k, signed)
  BY Zenon, <1>5, RecipientChangeKeepsFees
<1>6. CASE \/ \E t \in SeatOwner : DelegateSeat(t)
           \/ \E t \in SessionOwner :
                \/ \E e \in Expiry : CreateSessionToken(t, e)
                \/ RevokeSessionToken(t) \/ RefreshClone(t)
  <2>1. UNCHANGED <<header, market, earned, paid>>
    BY Zenon, <1>6 DEF DelegateSeat, CreateSessionToken, RevokeSessionToken,
      RefreshClone, vars
  <2>. QED  BY Zenon, <1>1, <2>1
<1>7. CASE GovernedInstruction
  <2>1. FeesToRecipient /\ header' = header
    BY Zenon, <1>7 DEF GovernedInstruction
  <2>2. /\ market.unclaimed \in Int /\ market'.unclaimed \in Int
        /\ treasury \in Int /\ treasury' \in Int
    BY Zenon DEF GovernanceInv, IndInv, TypeOK, Market
  <2>3. PICK u \in Int, v \in Int : u = market.unclaimed /\ v = market'.unclaimed
    BY Zenon, <2>2
  <2>4. \A k \in Key :
          earned'[k] - paid'[k]
            = earned[k] - paid[k] + (IF k = header.recipient THEN v - u ELSE 0)
    BY Zenon, <2>1, <2>2, <2>3, FeesGo DEF GovernanceInv
  <2>5. /\ earned \in [Key -> Int] /\ paid \in [Key -> Int]
        /\ earned' \in [Key -> Int] /\ paid' \in [Key -> Int]
    BY Zenon DEF GovernanceInv, GovernanceTypeOK
  <2>6. \A k \in Key : earned[k] = paid[k] + (IF k = header.recipient THEN u ELSE 0)
    BY Zenon, <2>3 DEF FeesFollowRecipient
  <2>7. \A k \in Key : earned'[k] = paid'[k] + (IF k = header.recipient THEN v ELSE 0)
    BY <2>4, <2>5, <2>6
  <2>. QED  BY Zenon, <2>1, <2>3, <2>7 DEF FeesFollowRecipient
<1>8. ASSUME NEW t \in SessionOwner, SessionDispatch(t)
      PROVE  FeesFollowRecipient'
  <2>1. UNCHANGED <<header, earned, paid>> /\ market'.unclaimed = market.unclaimed
    BY Zenon, <1>8 DEF SessionDispatch
  <2>. QED  BY Zenon, <1>1, <2>1
<1>. QED  BY Zenon, <1>3, <1>4, <1>5, <1>6, <1>7, <1>8 DEF GovernanceNext

\* A session key's transaction begins with a token that was granted and has
\* not expired.
LEMMA GrantStep ==
  ASSUME GovernanceInv, [GovernanceNext]_governanceVars, via # "session", via' = "session",
         \A t \in SessionOwner : SessionDispatch(t) /\ txn' # NoTxn => SessionOf(t)
  PROVE  \E e \in (IF home = "base" THEN token ELSE granted)[txn'.who] :
           e = 0 \/ slot < e
<1>. USE DEF GovernanceInv
<1>1. ~ (Administers \/ UNCHANGED governanceVars)
  BY Zenon, AdministersOK DEF governanceVars, governance
<1>2. ~ GovernedInstruction
  <2>1. "owner" # "session"
    OBVIOUS
  <2>. QED  BY Zenon, <2>1 DEF GovernedInstruction
<1>3. PICK t \in SessionOwner : SessionDispatch(t)
  BY Zenon, <1>1, <1>2 DEF GovernanceNext, Administers
<1>4. /\ t \in Trader /\ home # "leaving"
      /\ via' = IF txn' = NoTxn THEN "owner" ELSE "session"
  BY Zenon, <1>3, GovernanceAssumption DEF SessionDispatch
<1>5. txn'.who = t
  <2>1. txn' # NoTxn
    BY <1>4
  <2>. QED  BY Zenon, <1>3, <2>1 DEF SessionOf
<1>6. PICK e \in TokenSeen(t) : ~ TokenExpired(e)
  BY Zenon, <1>3 DEF SessionDispatch
<1>7. /\ token[t] \subseteq granted[t] /\ clone[t] \subseteq granted[t]
      /\ granted[t] \subseteq Nat /\ slot \in Nat /\ home \in {"base", "er", "leaving"}
  BY Zenon, <1>4 DEF TokensGranted, GovernanceTypeOK, IndInv, TypeOK
<1>8. e \in (IF home = "base" THEN token ELSE granted)[t] /\ e \in Nat
  <2>1. CASE home = "base"
    <3>1. TokenSeen(t) = token[t]
      BY <2>1 DEF TokenSeen
    <3>. QED  BY Zenon, <1>6, <1>7, <2>1, <3>1
  <2>2. CASE home = "er"
    <3>1. TokenSeen(t) = clone[t] /\ home # "base"
      BY <2>2 DEF TokenSeen
    <3>. QED  BY Zenon, <1>6, <1>7, <3>1
  <2>. QED  BY Zenon, <1>4, <1>7, <2>1, <2>2
<1>9. e = 0 \/ slot < e
  BY <1>6, <1>7, <1>8 DEF TokenExpired
<1>. QED  BY Zenon, <1>5, <1>8, <1>9

----------------------------------------------------------------------------
(* The transactions of session keys, and the invariant.                    *)

\* A session instruction begins like its owner's, and moves nothing itself.
LEMMA SessionStarts ==
  ASSUME IndInv, AccInv, NEW t \in Trader, SessionInstruction(t)
  PROVE  /\ IndInv' /\ AccInv' /\ VaultsFollow /\ txn = NoTxn
         /\ UNCHANGED <<wallet, vault, treasury, slot>>
         /\ market'.unclaimed = market.unclaimed
         /\ txn' # NoTxn => SessionOf(t)
<1>1. CASE \E p \in Packets : p.freeFunds /\ NewOrder(t, p)
  <2>1. PICK p \in Packets : p.freeFunds /\ NewOrder(t, p)
    BY Zenon, <1>1
  <2>2. IndInv'
    BY Zenon, <2>1, NewOrderOK
  <2>3. AccInv' /\ VaultsFollow
    BY Zenon, <2>1, NewOrderAccounts
  <2>4. PICK m : m = IF p.type = "IOC" THEN market ELSE get_or_register_trader(market, t)
    BY Zenon
  <2>5. /\ Idle /\ UNCHANGED <<wallet, vault, treasury, slot>>
        /\ \/ market' = m /\ UNCHANGED txn
           \/ StartOrder(t, p, m) /\ UNCHANGED market
    BY Zenon, <2>1, <2>4 DEF NewOrder
  <2>6. txn = NoTxn /\ market \in Market /\ AccountsOK(market)
    BY Zenon, <2>5, IdleAccounts
  <2>7. m.unclaimed = market.unclaimed
    BY Zenon, <2>4, <2>6, RegisterAccounts
  <2>8. ASSUME StartOrder(t, p, m) PROVE SessionOf(t)
    <3>1. p \in Packet
      BY Zenon, InputAssumption
    <3>2. PICK q : q = [p EXCEPT !.price = Price(p)]
      BY Zenon
    <3>3. q.freeFunds = p.freeFunds
      BY Zenon, <3>1, <3>2 DEF Packet
    <3>4. /\ txn'.who = t /\ txn'.p = q
          /\ txn'.phase = IF p.type = "PostOnly" THEN "cross" ELSE "match"
      BY Zenon, <2>8, <3>2 DEF StartOrder
    <3>. QED  BY Zenon, <2>1, <3>3, <3>4 DEF SessionOf
  <2>. QED  BY Zenon, <2>2, <2>3, <2>5, <2>6, <2>7, <2>8
<1>2. CASE CancelAllOrders(t, FALSE)
  <2>1. FALSE \in BOOLEAN /\ "Bid" \in Side /\ {} \in SUBSET BookIds
    BY Zenon DEF Side
  <2>2. IndInv'
    BY Zenon, <1>2, <2>1, CancelStartsOK
  <2>3. AccInv' /\ VaultsFollow
    BY Zenon, <1>2, <2>1, CancelStartsAccounts
  <2>4. PICK ids : Idle /\ StartCancel(t, ids, FALSE)
    BY Zenon, <1>2 DEF CancelAllOrders
  <2>5. /\ UNCHANGED <<market, wallet, vault, treasury, slot>>
        /\ txn'.who = t /\ txn'.phase = "cancel" /\ txn'.claim = FALSE
    BY Zenon, <2>4 DEF StartCancel
  <2>. QED  BY Zenon, <2>2, <2>3, <2>4, <2>5 DEF SessionOf, Idle
<1>. QED  BY Zenon, <1>1, <1>2 DEF SessionInstruction

\* While a session key's transaction is in progress no other begins.
LEMMA SessionBusy ==
  ASSUME Next, via = "session", SessionTxnOK
  PROVE  TxnStep
<1>1. txn # NoTxn
  BY DEF SessionTxnOK, NoTxn
<1>. QED  BY Zenon, <1>1, InstructionsStartIdle DEF Next

\* The steps of a session key's transaction move no tokens, and do not turn
\* it into another transaction.
LEMMA SessionGoesOn ==
  ASSUME IndInv, AccInv, TxnStep, via = "session", SessionTxnOK
  PROVE  /\ UNCHANGED <<wallet, vault, treasury>>
         /\ \/ txn' = NoTxn
            \/ txn'.phase \in {"cross", "match", "place"} /\ txn'.p.freeFunds
            \/ txn'.phase = "cancel" /\ ~ txn'.claim
<1>1. \/ txn.phase \in {"cross", "match", "place"} /\ txn.p.freeFunds
      \/ txn.phase = "cancel" /\ ~ txn.claim
  BY Zenon DEF SessionTxnOK
<1>2. CASE txn.phase \in {"cross", "match", "place"} /\ txn.p.freeFunds
  <2>1. txn \in OrderTxn /\ txn.p \in Packet
    BY Zenon, <1>2, OrderFacts DEF OrderTxn
  <2>2. ~ (CancelStep \/ CancelDone)
    BY Zenon, <1>2 DEF CancelStep, CancelDone, Working
  <2>3. CASE PlaceOrder
    BY Zenon, <1>2, <2>3 DEF PlaceOrder, Abort
  <2>4. CASE CrossExpiredOrder \/ CrossLiveOrder \/ CrossNothing
    <3>1. txn.phase = "cross" /\ UNCHANGED <<wallet, vault, treasury>>
      BY Zenon, <2>4 DEF CrossExpiredOrder, CrossLiveOrder, CrossNothing, Working
    <3>2. PICK x, c :
            \/ txn' = NoTxn \/ txn' = [txn EXCEPT !.m = x]
            \/ txn' = [txn EXCEPT !.phase = "place"]
            \/ txn' = [txn EXCEPT !.phase = "place", !.p = [txn.p EXCEPT !.price = c]]
      BY Zenon, <2>4 DEF CrossExpiredOrder, CrossLiveOrder, CrossNothing
    <3>3. [txn.p EXCEPT !.price = c].freeFunds = txn.p.freeFunds
      BY Zenon, <2>1 DEF Packet
    <3>4. PICK q : q = [txn.p EXCEPT !.price = c]
      BY Zenon
    <3>5. \/ txn' = NoTxn
          \/ txn'.phase \in {"cross", "place"} /\ (txn'.p = txn.p \/ txn'.p = q)
      BY Zenon, <2>1, <3>1, <3>2, <3>4 DEF OrderTxn
    <3>. QED  BY Zenon, <1>2, <3>1, <3>3, <3>4, <3>5
  <2>5. CASE \/ MatchExpiredOrder \/ SelfTradeAbort \/ SelfTradeCancelProvide
             \/ SelfTradeDecrementTake \/ MatchOrder \/ MatchDone
    <3>1. txn.phase = "match" /\ UNCHANGED <<wallet, vault, treasury>>
      BY Zenon, <2>5 DEF MatchExpiredOrder, SelfTradeAbort, SelfTradeCancelProvide,
         SelfTradeDecrementTake, MatchOrder, MatchDone, Working
    <3>2. SelfTradeAbort => txn' = NoTxn
      BY Zenon DEF SelfTradeAbort
    <3>3. CASE \/ MatchExpiredOrder \/ SelfTradeCancelProvide
               \/ SelfTradeDecrementTake \/ MatchOrder \/ MatchDone
      <4>1. txn'.p = txn.p /\ txn'.phase \in {"match", "place"}
        BY Zenon, <2>1, <3>1, <3>3
        DEF MatchExpiredOrder, SelfTradeCancelProvide, SelfTradeDecrementTake,
            MatchOrder, MatchDone, OrderTxn
      <4>. QED  BY Zenon, <1>2, <3>1, <4>1
    <3>. QED  BY Zenon, <2>5, <3>1, <3>2, <3>3
  <2>. QED  BY Zenon, <2>2, <2>3, <2>4, <2>5 DEF TxnStep, OrderStep
<1>3. CASE txn.phase = "cancel" /\ ~ txn.claim
  <2>1. txn \in CancelTxn
    BY Zenon, <1>3, CancelFacts
  <2>2. CASE CancelDone
    <3>1. /\ txn.out = NoLots /\ txn.who \in Trader /\ wallet \in Balances /\ vault \in Amounts
      BY Zenon, <1>3, CancelAccountsFacts DEF CancelAccounts, IndInv, TypeOK
    <3>2. vault' = [a \in Asset |-> vault[a] - 0] /\ wallet' = AddAll(wallet, txn.who, NoLots)
      BY Zenon, <2>2, <3>1 DEF CancelDone, PayOut, NoLots
    <3>3. vault' = vault
      BY <3>1, <3>2 DEF Amounts
    <3>4. wallet' = wallet
      BY <3>1, <3>2, AddNothing
    <3>. QED  BY Zenon, <2>2, <3>3, <3>4 DEF CancelDone
  <2>3. CASE CancelStep
    <3>1. UNCHANGED <<wallet, vault, treasury>>
      BY Zenon, <2>3 DEF CancelStep, Working
    <3>2. PICK id, x, y :
            LET next == [txn EXCEPT !.ids = @ \ {id}]
            IN txn' = next \/ txn' = [next EXCEPT !.m = x, !.out = y]
      BY Zenon, <2>3 DEF CancelStep
    <3>3. txn'.phase = txn.phase /\ txn'.claim = txn.claim
      BY Zenon, <2>1, <3>2 DEF CancelTxn
    <3>. QED  BY Zenon, <1>3, <3>1, <3>3
  <2>4. ~ OrderStep
    BY Zenon, <1>3 DEF OrderStep, PlaceOrder, CrossExpiredOrder, CrossLiveOrder,
      CrossNothing, MatchExpiredOrder, SelfTradeAbort, SelfTradeCancelProvide,
      SelfTradeDecrementTake, MatchOrder, MatchDone, Working
  <2>. QED  BY Zenon, <2>2, <2>3, <2>4 DEF TxnStep
<1>. QED  BY Zenon, <1>1, <1>2, <1>3

\* An instruction keeps the invariant, also when a session key has signed the
\* transaction that it continues.
LEMMA GovernedOK ==
  ASSUME GovernanceInv, GovernedInstruction
  PROVE  GovernanceInv' /\ VaultsFollow /\ (via = "session" => TxnStep)
<1>. USE DEF GovernanceInv
<1>1. Next
  BY Zenon, GovernedIsNext
<1>2. IndInv' /\ AccInv' /\ VaultsFollow
  BY Zenon, <1>1, NextOK, NextAccounts
<1>3. via = "session" => TxnStep
  BY Zenon, <1>1, SessionBusy
<1>4. SessionTxnOK'
  <2>. SUFFICES ASSUME via = "session", txn' # NoTxn
                PROVE  \/ txn'.phase \in {"cross", "match", "place"} /\ txn'.p.freeFunds
                       \/ txn'.phase = "cancel" /\ ~ txn'.claim
    BY Zenon DEF GovernedInstruction, SessionTxnOK
  <2>. QED  BY Zenon, <1>3, SessionGoesOn
<1>. QED  BY Zenon, <1>2, <1>3, <1>4, GovernedKeeps

\* An instruction that a session key begins keeps the invariant, moves no
\* tokens and charges no fees in its first step.
LEMMA DispatchOK ==
  ASSUME GovernanceInv, NEW t \in SessionOwner, SessionDispatch(t)
  PROVE  /\ GovernanceInv' /\ VaultsFollow
         /\ UNCHANGED <<wallet, vault, treasury>>
         /\ market'.unclaimed = market.unclaimed
         /\ txn' # NoTxn => SessionOf(t)
<1>. USE DEF GovernanceInv
<1>1. t \in Trader /\ SessionInstruction(t)
  BY Zenon, GovernanceAssumption DEF SessionDispatch
<1>2. /\ IndInv' /\ AccInv' /\ VaultsFollow
      /\ UNCHANGED <<wallet, vault, treasury>>
      /\ market'.unclaimed = market.unclaimed
      /\ txn' # NoTxn => SessionOf(t)
  BY Zenon, <1>1, SessionStarts
<1>. QED  BY Zenon, <1>2, DispatchKeeps

\* Every step of Governance is of one of three kinds.
LEMMA GovernanceSteps ==
  ASSUME [GovernanceNext]_governanceVars
  PROVE  \/ Administers \/ UNCHANGED governanceVars
         \/ GovernedInstruction
         \/ \E t \in SessionOwner : SessionDispatch(t)
BY Zenon DEF GovernanceNext, Administers

\* A new market is governed by its creator, and nothing else is there yet.
LEMMA GovernanceInitOK == GovernanceInit => GovernanceInv
<1>. SUFFICES ASSUME GovernanceInit PROVE GovernanceInv
  BY Zenon
<1>1. Init /\ home = "base"
  BY Zenon DEF GovernanceInit, RollupInit
<1>2. IndInv /\ AccInv
  BY Zenon, <1>1, InitOK, InitAccounts
<1>3. GovernanceTypeOK
  <2>1. "None" \in SeatStatus /\ {} \in SUBSET Nat /\ 0 \in Int /\ Creator \in Key
    BY GovernanceAssumption DEF SeatStatus
  <2>. QED  BY Zenon, <1>1, <2>1 DEF GovernanceInit, GovernanceTypeOK
<1>4. SessionTxnOK
  BY DEF GovernanceInit, SessionTxnOK
<1>5. TokensGranted
  BY Zenon DEF GovernanceInit, TokensGranted
<1>. QED  BY Zenon, <1>2, <1>3, <1>4, <1>5 DEF GovernanceInv

\* A market that is traded on two layers under a changing authority, with
\* two copies of every delegated seat and with session keys, stays well
\* formed at every step of every instruction: book, accounts, and what a
\* session key has in progress.
THEOREM GovernanceInvariance == GovernanceSpec => []GovernanceInv
<1>1. GovernanceInv /\ [GovernanceNext]_governanceVars => GovernanceInv'
  BY Zenon, GovernanceSteps, AdministrationOK, GovernedOK, DispatchOK
<1>. QED  BY <1>1, GovernanceInitOK, PTL DEF GovernanceSpec

\* No order is left with a trader that the account does not know, even
\* though an approved copy of a seat may outlive the trader's registration.
THEOREM GovernedOwnersRegistered == GovernanceSpec => []OwnersRegistered
<1>1. GovernanceInv => OwnersRegistered
  BY Zenon DEF GovernanceInv, AccInv, OwnersRegistered, Markets, AccountsOK
<1>. QED  BY <1>1, GovernanceInvariance, PTL

\* A market that changes hands and layers never leaves unexpired orders
\* crossed.
THEOREM GovernedNeverCrossed == GovernanceSpec => []UncrossedBook
<1>1. GovernanceInv => UncrossedBook
  BY Zenon DEF GovernanceInv, IndInv, UncrossedBook, Markets, MarketOK, BookOK
<1>. QED  BY <1>1, GovernanceInvariance, PTL

\* The vaults hold what the market owes, whoever governs it and whoever
\* signs for its traders.
THEOREM GovernedVaultsBack == GovernanceSpec => []VaultsBackClaims
<1>1. ASSUME GovernanceInv, GovernanceInv', VaultsBackClaims,
             [GovernanceNext]_governanceVars
      PROVE  VaultsBackClaims'
  <2>1. CASE OnlySeats
    BY Zenon, <1>1, <2>1 DEF OnlySeats, VaultsBackClaims
  <2>2. CASE VaultsFollow
    BY Zenon, <1>1, <2>2, VaultsKeepBacking DEF GovernanceInv
  <2>. QED
    BY Zenon, <1>1, <2>1, <2>2, GovernanceSteps, AdministrationOK, GovernedOK, DispatchOK
<1>2. GovernanceInit => VaultsBackClaims
  BY Zenon, InitAccounts DEF GovernanceInit, RollupInit
<1>3. GovernanceInv /\ GovernanceInv' /\ VaultsBackClaims /\ [GovernanceNext]_governanceVars
        => VaultsBackClaims'
  BY Zenon, <1>1
<1>. QED  BY <1>2, <1>3, GovernanceInvariance, PTL DEF GovernanceSpec

\* Every fee goes to the recipient at the time, or to one it has signed for:
\* no change of recipient, authority or layer takes fees from anybody.
THEOREM FeesAlwaysFollow == GovernanceSpec => []FeesFollowRecipient
<1>1. GovernanceInit => FeesFollowRecipient
  BY DEF GovernanceInit, RollupInit, Init, EmptyMarket, FeesFollowRecipient
<1>2. GovernanceInv /\ GovernanceInv' /\ FeesFollowRecipient /\ [GovernanceNext]_governanceVars
        => FeesFollowRecipient'
  BY Zenon, FeesStep, DispatchOK DEF GovernanceInv
<1>. QED  BY <1>1, <1>2, GovernanceInvariance, PTL DEF GovernanceSpec

\* A session key moves no tokens: no step of a transaction that it signed
\* changes a wallet, a vault or the fees paid.
THEOREM SessionsNeverMoveTokens == GovernanceSpec => SessionsMoveNoTokens
<1>1. ASSUME GovernanceInv, [GovernanceNext]_governanceVars, via = "session"
      PROVE  UNCHANGED <<wallet, vault, treasury>>
  <2>1. CASE OnlySeats
    BY Zenon, <2>1 DEF OnlySeats
  <2>2. CASE TxnStep
    BY Zenon, <1>1, <2>2, SessionGoesOn DEF GovernanceInv
  <2>. QED
    BY Zenon, <1>1, <2>1, <2>2, GovernanceSteps, AdministrationOK, GovernedOK, DispatchOK
<1>2. GovernanceInv /\ [GovernanceNext]_governanceVars
        => [via = "session" => UNCHANGED <<wallet, vault, treasury>>]_governanceVars
  BY Zenon, <1>1
<1>. QED  BY <1>2, GovernanceInvariance, PTL DEF GovernanceSpec, SessionsMoveNoTokens

\* A session key acts only while something its owner has signed for is in
\* force, also on the rollup, whose copy of the token may be out of date.
THEOREM SessionsStayWithinGrant == GovernanceSpec => SessionsWithinGrant
<1>1. GovernanceInv /\ [GovernanceNext]_governanceVars
        => [via # "session" /\ via' = "session" =>
              \E e \in (IF home = "base" THEN token ELSE granted)[txn'.who] :
                e = 0 \/ slot < e]_governanceVars
  BY Zenon, GrantStep, DispatchOK
<1>. QED  BY <1>1, GovernanceInvariance, PTL DEF GovernanceSpec, SessionsWithinGrant

============================================================================

---------------------------- MODULE MCGovernance ----------------------------
(***************************************************************************)
(* Two traders and two keys that may govern the market.  The first trader  *)
(* uses a session key to post and cancel an ask, or to take one; the       *)
(* seat of the second is delegated, approved and disapproved, so that its  *)
(* copies differ; market, authority and fee recipient change, and tokens   *)
(* are revoked, expire and are granted again.                              *)
(***************************************************************************)
EXTENDS Governance

CONSTANTS t1, t2, k1, k2

mcTrader == {t1, t2}
mcKey == {k1, k2}
mcSessionOwner == {t1}
mcSeatOwner == {t2}

Quote == [type |-> "PostOnly", side |-> "Ask", price |-> 1, base |-> 1,
          quote |-> 0, minBase |-> 0, minQuote |-> 0,
          stb |-> "CancelProvide", limit |-> MaxU64, lvs |-> 0,
          freeFunds |-> TRUE, reject |-> FALSE, silent |-> FALSE]

mcPackets ==
  {[Quote EXCEPT !.freeFunds = f] : f \in BOOLEAN} \cup
  {[Quote EXCEPT !.type = "IOC", !.side = "Bid"]}

mcWallet == [quote |-> 2, base |-> 1]
mcTransfers == {mcWallet}
============================================================================

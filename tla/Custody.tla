------------------------------ MODULE Custody ------------------------------
(***************************************************************************)
(* What the program promises its users: every trader has lots in its own   *)
(* token accounts and a claim on the program.  A step either moves lots    *)
(* between the two for one trader, or is a trade, in which nobody but the  *)
(* trader that sends the order loses lots of one asset without receiving   *)
(* lots of the other.  No step creates or destroys lots.                   *)
(***************************************************************************)
EXTENDS Integers, Functions

CONSTANTS Trader, Asset

VARIABLES
  wallet,  \* lots in each trader's token accounts
  claim,   \* lots the program owes each trader
  fees     \* quote lots the program has charged

vars == <<wallet, claim, fees>>

Init ==
  /\ wallet \in [Trader -> [Asset -> Nat]]
  /\ claim = [t \in Trader |-> [a \in Asset |-> 0]]
  /\ fees = 0

Move(t) ==
  /\ \A a \in Asset : wallet'[t][a] + claim'[t][a] = wallet[t][a] + claim[t][a]
  /\ \A u \in Trader \ {t} : wallet'[u] = wallet[u] /\ claim'[u] = claim[u]
  /\ UNCHANGED fees

Total(w, c, f, a) ==
  SumFunctionOnSet([t \in Trader |-> w[t][a] + c[t][a]], Trader)
    + (IF a = "quote" THEN f ELSE 0)

Trade(t) ==
  /\ \A u \in Trader \ {t} :
       /\ wallet'[u] = wallet[u]
       /\ (\E a \in Asset : claim'[u][a] < claim[u][a]) =>
            (\E a \in Asset : claim'[u][a] > claim[u][a])
  /\ fees' >= fees
  /\ \A a \in Asset : Total(wallet', claim', fees', a) = Total(wallet, claim, fees, a)

Next == \E t \in Trader : Move(t) \/ Trade(t)

Spec == Init /\ [][Next]_vars
============================================================================

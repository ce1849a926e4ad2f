------------------------ MODULE PhoenixMarketProofs ------------------------
(***************************************************************************)
(* Safety of PhoenixMarket for every configuration and every set of        *)
(* inputs.  First what the proofs rest on: sums over finite sets, integer  *)
(* arithmetic, the types of the operations of the engine, what orders lock *)
(* and a market owes, and how the operations change that.                  *)
(*                                                                         *)
(* The library defines SumFunctionOnSet, the sum of a function over a finite*)
(* set, by a recursive function over the subsets of the set; its existence *)
(* and what it computes are proved here with minimal counterexamples,      *)
(* because the strict subset ordering of a finite set is well founded.     *)
(***************************************************************************)
EXTENDS MarketAccounting, FiniteSetTheorems, TLAPS

----------------------------------------------------------------------------
(* Sums over finite sets.                                                  *)

\* A set of subsets of a finite set has a minimal member: the form in which
\* induction over the traders or over the orders of a book is used below.
LEMMA MinimalSubset ==
  ASSUME NEW S, IsFiniteSet(S), NEW Bad, Bad \subseteq SUBSET S, Bad # {}
  PROVE  \E U \in Bad : \A V \in Bad : V \subseteq U => V = U
<1>1. IsWellFoundedOn(StrictSubsetOrdering(S), FiniteSubsetsOf(S))
  BY Zenon, FS_StrictSubsetOrderingWellFounded
<1>2. Bad \subseteq FiniteSubsetsOf(S)
  BY Zenon, FS_FiniteSubsetsOfFinite
<1>3. PICK U \in Bad : \A V \in Bad : ~ (<<V, U>> \in StrictSubsetOrdering(S))
  BY Zenon, <1>1, <1>2, WFMin
<1>4. ASSUME NEW V \in Bad, V \subseteq U, V # U PROVE FALSE
  BY Zenon, <1>3, <1>4 DEF StrictSubsetOrdering
<1>5. QED
  BY Zenon, <1>4

----------------------------------------------------------------------------
(* The recursion behind the sum.                                           *)

\* The element that the library takes out of a set first.
Pick(s) == CHOOSE x \in s : TRUE

\* h sums f over every subset of U.
Sums(f, U, h) ==
  h = [s \in SUBSET U |-> IF s = {} THEN 0 ELSE f[Pick(s)] + h[s \ {Pick(s)}]]

\* The picked element is one of the set.
LEMMA PickIn == ASSUME NEW s, s # {} PROVE Pick(s) \in s
BY Zenon DEF Pick

\* Two summing functions agree wherever both are defined.
LEMMA SumsUnique ==
  ASSUME NEW f, NEW U, NEW V, NEW g, NEW h, Sums(f, U, g), Sums(f, V, h),
         NEW W, IsFiniteSet(W), W \subseteq U, W \subseteq V
  PROVE  g[W] = h[W]
<1> DEFINE Bad == {s \in SUBSET W : g[s] # h[s]}
<1>1. SUFFICES ASSUME Bad # {} PROVE FALSE
  BY Zenon
<1>2. PICK s \in Bad : \A r \in Bad : r \subseteq s => r = s
  <2>1. Bad \subseteq SUBSET W
    BY Zenon
  <2> HIDE DEF Bad
  <2>2. QED
    BY <1>1, <2>1, MinimalSubset
<1>3. s \in SUBSET U /\ s \in SUBSET V /\ g[s] # h[s]
  BY Zenon, <1>2
<1>4. /\ g[s] = IF s = {} THEN 0 ELSE f[Pick(s)] + g[s \ {Pick(s)}]
      /\ h[s] = IF s = {} THEN 0 ELSE f[Pick(s)] + h[s \ {Pick(s)}]
  BY Zenon, <1>3 DEF Sums
<1>5. s # {}
  BY Zenon, <1>3, <1>4
<1>6. s \ {Pick(s)} \in SUBSET W /\ s \ {Pick(s)} # s /\ s \ {Pick(s)} \subseteq s
  BY Zenon, <1>5, PickIn
<1>7. g[s \ {Pick(s)}] = h[s \ {Pick(s)}]
  BY Zenon, <1>2, <1>6
<1>8. QED
  BY Zenon, <1>3, <1>4, <1>5, <1>7

\* A summing function exists for every finite set.
LEMMA SumsExist ==
  ASSUME NEW f, NEW S, IsFiniteSet(S)
  PROVE  \E h : Sums(f, S, h)
<1> DEFINE Bad == {U \in SUBSET S : \A h : ~ Sums(f, U, h)}
           v(s) == (CHOOSE h : Sums(f, s, h))[s]
<1>1. SUFFICES ASSUME Bad # {} PROVE FALSE
  BY Zenon
<1>2. PICK U \in Bad : \A V \in Bad : V \subseteq U => V = U
  <2>1. Bad \subseteq SUBSET S
    BY Zenon
  <2> HIDE DEF Bad
  <2>2. QED
    BY <1>1, <2>1, MinimalSubset
<1>3. IsFiniteSet(U) /\ U \subseteq S
  BY Zenon, <1>2, FS_Subset
<1>4. ASSUME NEW s, s \subseteq U, s # U PROVE Sums(f, s, CHOOSE h : Sums(f, s, h))
  <2>1. s \notin Bad
    BY Zenon, <1>2, <1>4
  <2>2. \E h : Sums(f, s, h)
    BY Zenon, <1>3, <1>4, <2>1
  <2>3. QED
    BY Zenon, <2>2
<1>5. ASSUME NEW s, s \subseteq U, s # U, s # {}
      PROVE  v(s) = f[Pick(s)] + v(s \ {Pick(s)})
  <2> DEFINE r == s \ {Pick(s)}
             g == CHOOSE h : Sums(f, s, h)
             k == CHOOSE h : Sums(f, r, h)
  <2>1. Pick(s) \in s /\ r \subseteq s /\ r \subseteq U /\ r # U
    BY Zenon, <1>5, PickIn
  <2>2. Sums(f, s, g) /\ Sums(f, r, k)
    BY Zenon, <1>4, <1>5, <2>1
  <2>3. IsFiniteSet(r)
    BY Zenon, <1>3, <2>1, FS_Subset
  <2> HIDE DEF g, k, r
  <2>4. g[r] = k[r]
    BY <2>1, <2>2, <2>3, SumsUnique
  <2>5. g[s] = f[Pick(s)] + g[s \ {Pick(s)}]
    BY Zenon, <1>5, <2>2 DEF Sums
  <2>6. QED
    BY Zenon, <2>4, <2>5 DEF g, k, r
<1>6. v({}) = 0 \/ U = {}
  BY Zenon, <1>4 DEF Sums
<1> HIDE DEF v
<1> DEFINE h == [s \in SUBSET U |->
                   IF s = {} THEN 0
                   ELSE IF s = U THEN f[Pick(s)] + (IF U \ {Pick(U)} = {} THEN 0 ELSE v(U \ {Pick(U)}))
                   ELSE v(s)]
<1>7. ASSUME NEW s \in SUBSET U, s # {}
      PROVE  h[s] = f[Pick(s)] + h[s \ {Pick(s)}]
  <2>1. Pick(s) \in s /\ s \ {Pick(s)} \in SUBSET U /\ s \ {Pick(s)} # U
    BY Zenon, <1>7, PickIn
  <2>2. CASE s = U
    BY Zenon, <1>7, <2>1, <2>2
  <2>3. CASE s # U
    <3>1. h[s] = f[Pick(s)] + v(s \ {Pick(s)})
      BY Zenon, <1>5, <1>7, <2>3
    <3>2. h[s \ {Pick(s)}] = v(s \ {Pick(s)})
      BY Zenon, <1>6, <1>7, <2>1
    <3>3. QED
      BY Zenon, <3>1, <3>2
  <2>4. QED
    BY Zenon, <2>2, <2>3
<1>8. h[{}] = 0
  BY Zenon
<1>9. h = [s \in SUBSET U |-> h[s]]
  BY Zenon
<1> HIDE DEF h
<1>10. Sums(f, U, h)
  BY Zenon, <1>7, <1>8, <1>9 DEF Sums
<1>11. QED
  BY Zenon, <1>2, <1>10

----------------------------------------------------------------------------
(* The sum.                                                                *)

\* The library's definition is the value of a summing function.
LEMMA SumIs ==
  ASSUME NEW f, NEW S, IsFiniteSet(S)
  PROVE  \E h : Sums(f, S, h) /\ SumFunctionOnSet(f, S) = h[S]
<1> DEFINE h == CHOOSE g : Sums(f, S, g)
<1>1. SumFunctionOnSet(f, S) = h[S]
  BY Zenon DEF SumFunctionOnSet, FoldFunctionOnSet, MapThenFoldSet, Sums, Pick
<1>2. Sums(f, S, h)
  BY Zenon, SumsExist
<1>3. QED
  BY Zenon, <1>1, <1>2

\* The empty sum.
LEMMA SumEmpty ==
  ASSUME NEW f
  PROVE  SumFunctionOnSet(f, {}) = 0
<1>1. PICK h : Sums(f, {}, h) /\ SumFunctionOnSet(f, {}) = h[{}]
  BY Zenon, SumIs, FS_EmptySet
<1>2. QED
  BY Zenon, <1>1 DEF Sums

\* The library takes the elements out in the order of its choice.
LEMMA SumPick ==
  ASSUME NEW f, NEW S, IsFiniteSet(S), S # {}
  PROVE  SumFunctionOnSet(f, S)
           = f[Pick(S)] + SumFunctionOnSet(f, S \ {Pick(S)})
<1> DEFINE R == S \ {Pick(S)}
<1>1. IsFiniteSet(R) /\ R \subseteq S
  BY Zenon, FS_Subset
<1> HIDE DEF R
<1>2. PICK h : Sums(f, S, h) /\ SumFunctionOnSet(f, S) = h[S]
  BY Zenon, SumIs
<1>3. PICK g : Sums(f, R, g) /\ SumFunctionOnSet(f, R) = g[R]
  BY Zenon, <1>1, SumIs
<1>4. h[R] = g[R]
  BY <1>1, <1>2, <1>3, SumsUnique
<1>5. h[S] = f[Pick(S)] + h[S \ {Pick(S)}]
  BY Zenon, <1>2 DEF Sums
<1>6. QED
  BY Zenon, <1>2, <1>3, <1>4, <1>5 DEF R

\* A sum of integers is an integer.
LEMMA SumInt ==
  ASSUME NEW f, NEW S, IsFiniteSet(S), \A x \in S : f[x] \in Int
  PROVE  SumFunctionOnSet(f, S) \in Int
<1> DEFINE Bad == {U \in SUBSET S : SumFunctionOnSet(f, U) \notin Int}
<1>1. SUFFICES ASSUME Bad # {} PROVE FALSE
  BY Zenon
<1>2. PICK U \in Bad : \A V \in Bad : V \subseteq U => V = U
  <2>1. Bad \subseteq SUBSET S
    BY Zenon
  <2> HIDE DEF Bad
  <2>2. QED
    BY <1>1, <2>1, MinimalSubset
<1>3. IsFiniteSet(U)
  BY Zenon, <1>2, FS_Subset
<1>4. U # {}
  <2>1. SumFunctionOnSet(f, {}) \in Int
    BY SumEmpty
  <2>2. QED
    BY Zenon, <1>2, <2>1
<1>5. Pick(U) \in U
  BY Zenon, <1>4, PickIn
<1>6. U \ {Pick(U)} \notin Bad
  BY Zenon, <1>2, <1>5
<1>7. SumFunctionOnSet(f, U \ {Pick(U)}) \in Int
  BY Zenon, <1>6
<1>8. QED
  BY <1>2, <1>3, <1>4, <1>5, <1>7, SumPick

\* Any element may be taken out first.
LEMMA SumRemove ==
  ASSUME NEW f, NEW S, IsFiniteSet(S), \A x \in S : f[x] \in Int, NEW e \in S
  PROVE  SumFunctionOnSet(f, S) = f[e] + SumFunctionOnSet(f, S \ {e})
<1> DEFINE Wrong(U) == \E x \in U : SumFunctionOnSet(f, U)
                                     # f[x] + SumFunctionOnSet(f, U \ {x})
           Bad == {U \in SUBSET S : Wrong(U)}
<1>1. SUFFICES ASSUME Bad # {} PROVE FALSE
  BY Zenon
<1>2. PICK U \in Bad : \A V \in Bad : V \subseteq U => V = U
  <2>1. Bad \subseteq SUBSET S
    BY Zenon
  <2> HIDE DEF Bad
  <2>2. QED
    BY <1>1, <2>1, MinimalSubset
<1>3. IsFiniteSet(U) /\ U \subseteq S
  BY Zenon, <1>2, FS_Subset
<1>4. PICK x \in U : SumFunctionOnSet(f, U) # f[x] + SumFunctionOnSet(f, U \ {x})
  BY Zenon, <1>2
<1> DEFINE c == Pick(U)
           W == (U \ {x}) \ {c}
<1>5. c \in U
  BY Zenon, <1>4, PickIn
<1>6. SumFunctionOnSet(f, U) = f[c] + SumFunctionOnSet(f, U \ {c})
  BY Zenon, <1>3, <1>4, SumPick
<1>7. x # c
  BY Zenon, <1>4, <1>6
<1>8. U \ {x} \notin Bad /\ U \ {c} \notin Bad
  BY Zenon, <1>2, <1>4, <1>5
<1>9. ~ Wrong(U \ {x}) /\ ~ Wrong(U \ {c})
  BY Zenon, <1>3, <1>8
<1>10. SumFunctionOnSet(f, U \ {x}) = f[c] + SumFunctionOnSet(f, (U \ {x}) \ {c})
  BY Zenon, <1>5, <1>7, <1>9
<1>11. SumFunctionOnSet(f, U \ {c}) = f[x] + SumFunctionOnSet(f, (U \ {c}) \ {x})
  BY Zenon, <1>4, <1>7, <1>9
<1>12. (U \ {c}) \ {x} = W
  BY Zenon
<1>13. f[x] \in Int /\ f[c] \in Int /\ SumFunctionOnSet(f, W) \in Int
  <2>1. IsFiniteSet(W) /\ W \subseteq S
    BY Zenon, <1>3, FS_Subset
  <2> HIDE DEF W
  <2>2. QED
    BY Zenon, <1>3, <1>4, <1>5, <2>1, SumInt
<1> DEFINE sumW == SumFunctionOnSet(f, W)
           sumX == SumFunctionOnSet(f, U \ {x})
           sumC == SumFunctionOnSet(f, U \ {c})
           sumU == SumFunctionOnSet(f, U)
<1>14. /\ sumU # f[x] + sumX /\ sumU = f[c] + sumC
       /\ sumX = f[c] + sumW /\ sumC = f[x] + sumW
       /\ f[x] \in Int /\ f[c] \in Int /\ sumW \in Int
  BY Zenon, <1>4, <1>6, <1>10, <1>11, <1>12, <1>13
<1> HIDE DEF c, W, sumW, sumX, sumC, sumU
<1>15. QED
  BY <1>14

\* An element may be added.
LEMMA SumAdd ==
  ASSUME NEW f, NEW S, IsFiniteSet(S), NEW e, e \notin S,
         f[e] \in Int, \A x \in S : f[x] \in Int
  PROVE  SumFunctionOnSet(f, S \cup {e}) = f[e] + SumFunctionOnSet(f, S)
<1> DEFINE T == S \cup {e}
<1>1. IsFiniteSet(T)
  BY Zenon, FS_AddElement
<1>2. e \in T /\ T \ {e} = S /\ \A x \in T : f[x] \in Int
  BY Zenon
<1> HIDE DEF T
<1>3. SumFunctionOnSet(f, T) = f[e] + SumFunctionOnSet(f, T \ {e})
  BY <1>1, <1>2, SumRemove
<1>4. QED
  BY Zenon, <1>2, <1>3 DEF T

\* The sum of a sum of two functions.
LEMMA SumPlus ==
  ASSUME NEW f, NEW g, NEW h, NEW S, IsFiniteSet(S),
         \A x \in S : f[x] \in Int /\ g[x] \in Int /\ h[x] = f[x] + g[x]
  PROVE  SumFunctionOnSet(h, S) = SumFunctionOnSet(f, S) + SumFunctionOnSet(g, S)
<1> DEFINE Bad == {U \in SUBSET S : SumFunctionOnSet(h, U)
                     # SumFunctionOnSet(f, U) + SumFunctionOnSet(g, U)}
<1>1. SUFFICES ASSUME Bad # {} PROVE FALSE
  BY Zenon
<1>2. PICK U \in Bad : \A V \in Bad : V \subseteq U => V = U
  <2>1. Bad \subseteq SUBSET S
    BY Zenon
  <2> HIDE DEF Bad
  <2>2. QED
    BY <1>1, <2>1, MinimalSubset
<1>3. IsFiniteSet(U) /\ U \subseteq S
  BY Zenon, <1>2, FS_Subset
<1>4. U # {}
  <2>1. SumFunctionOnSet(h, {}) = SumFunctionOnSet(f, {}) + SumFunctionOnSet(g, {})
    BY SumEmpty
  <2>2. QED
    BY Zenon, <1>2, <2>1
<1> DEFINE R == U \ {Pick(U)}
<1>5. Pick(U) \in U
  BY Zenon, <1>4, PickIn
<1>6. R \notin Bad /\ R \subseteq S
  BY Zenon, <1>2, <1>3, <1>5
<1>7. IsFiniteSet(R)
  BY Zenon, <1>3, FS_Subset
<1> DEFINE sf == SumFunctionOnSet(f, R)
           sg == SumFunctionOnSet(g, R)
           sh == SumFunctionOnSet(h, R)
<1>8. sh = sf + sg
  BY Zenon, <1>6
<1>9. /\ SumFunctionOnSet(f, U) = f[Pick(U)] + sf
      /\ SumFunctionOnSet(g, U) = g[Pick(U)] + sg
      /\ SumFunctionOnSet(h, U) = h[Pick(U)] + sh
  BY Zenon, <1>3, <1>4, SumPick
<1>10. sf \in Int /\ sg \in Int
  <2> HIDE DEF R
  <2>1. QED
    BY Zenon, <1>6, <1>7, SumInt
<1>11. SumFunctionOnSet(h, U) # SumFunctionOnSet(f, U) + SumFunctionOnSet(g, U)
  BY Zenon, <1>2
<1>12. f[Pick(U)] \in Int /\ g[Pick(U)] \in Int /\ h[Pick(U)] = f[Pick(U)] + g[Pick(U)]
  BY Zenon, <1>3, <1>5
<1> HIDE DEF Bad, R, sf, sg, sh
<1>13. QED
  BY <1>8, <1>9, <1>10, <1>11, <1>12

\* A sum of zeros.
LEMMA SumZero ==
  ASSUME NEW f, NEW S, IsFiniteSet(S), \A x \in S : f[x] = 0
  PROVE  SumFunctionOnSet(f, S) = 0
<1> DEFINE sum == SumFunctionOnSet(f, S)
<1>1. sum = sum + sum
  BY SumPlus
<1>2. sum \in Int
  BY SumInt
<1> HIDE DEF sum
<1>3. sum = 0
  BY <1>1, <1>2
<1>4. QED
  BY Zenon, <1>3 DEF sum

\* Functions that agree on the set have the same sum.
LEMMA SumSame ==
  ASSUME NEW f, NEW g, NEW S, IsFiniteSet(S),
         \A x \in S : f[x] \in Int /\ g[x] = f[x]
  PROVE  SumFunctionOnSet(g, S) = SumFunctionOnSet(f, S)
<1> DEFINE z == [x \in S |-> 0]
<1>1. \A x \in S : z[x] = 0
  BY Zenon
<1> HIDE DEF z
<1>2. SumFunctionOnSet(g, S) = SumFunctionOnSet(f, S) + SumFunctionOnSet(z, S)
  BY <1>1, SumPlus
<1>3. SumFunctionOnSet(z, S) = 0
  BY Zenon, <1>1, SumZero
<1>4. SumFunctionOnSet(f, S) \in Int
  BY Zenon, SumInt
<1>5. QED
  BY <1>2, <1>3, <1>4

\* Functions that differ at one element have sums that differ by as much.
LEMMA SumChange ==
  ASSUME NEW f, NEW g, NEW S, IsFiniteSet(S), NEW e \in S, NEW d \in Int,
         \A x \in S : f[x] \in Int,
         \A x \in S \ {e} : g[x] = f[x],
         g[e] = f[e] + d
  PROVE  SumFunctionOnSet(g, S) = SumFunctionOnSet(f, S) + d
<1> DEFINE R == S \ {e}
<1>1. IsFiniteSet(R)
  BY Zenon, FS_Subset
<1>2. \A x \in R : f[x] \in Int /\ g[x] = f[x]
  BY Zenon
<1>3. \A x \in S : g[x] \in Int
  OBVIOUS
<1>4. /\ SumFunctionOnSet(f, S) = f[e] + SumFunctionOnSet(f, R)
      /\ SumFunctionOnSet(g, S) = g[e] + SumFunctionOnSet(g, R)
  BY <1>3, SumRemove
<1> HIDE DEF R
<1>5. SumFunctionOnSet(g, R) = SumFunctionOnSet(f, R)
  BY Zenon, <1>1, <1>2, SumSame
<1>6. SumFunctionOnSet(f, R) \in Int
  BY Zenon, <1>1, <1>2, SumInt
<1>7. f[e] \in Int
  BY Zenon
<1>8. QED
  BY <1>4, <1>5, <1>6, <1>7

\* A sum of natural numbers is one, and no term exceeds it.
LEMMA SumNat ==
  ASSUME NEW f, NEW S, IsFiniteSet(S), \A x \in S : f[x] \in Nat
  PROVE  /\ SumFunctionOnSet(f, S) \in Nat
         /\ \A x \in S : f[x] <= SumFunctionOnSet(f, S)
<1>1. ASSUME NEW T, T \subseteq S PROVE SumFunctionOnSet(f, T) \in Nat
  <2> DEFINE Bad == {U \in SUBSET T : SumFunctionOnSet(f, U) \notin Nat}
  <2>1. SUFFICES ASSUME Bad # {} PROVE FALSE
    BY Zenon
  <2>2. PICK U \in Bad : \A V \in Bad : V \subseteq U => V = U
    <3>1. Bad \subseteq SUBSET T /\ IsFiniteSet(T)
      BY Zenon, <1>1, FS_Subset
    <3> HIDE DEF Bad
    <3>2. QED
      BY <2>1, <3>1, MinimalSubset
  <2>3. IsFiniteSet(U) /\ U \subseteq S
    BY Zenon, <1>1, <2>2, FS_Subset
  <2>4. U # {}
    <3>1. SumFunctionOnSet(f, {}) \in Nat
      BY SumEmpty
    <3>2. QED
      BY Zenon, <2>2, <3>1
  <2>5. Pick(U) \in U
    BY Zenon, <2>4, PickIn
  <2>6. U \ {Pick(U)} \notin Bad
    BY Zenon, <2>2, <2>5
  <2>7. SumFunctionOnSet(f, U \ {Pick(U)}) \in Nat
    BY Zenon, <2>6
  <2>8. f[Pick(U)] \in Nat
    BY Zenon, <2>3, <2>5
  <2>9. QED
    BY <2>2, <2>3, <2>4, <2>7, <2>8, SumPick
<1>2. ASSUME NEW x \in S PROVE f[x] <= SumFunctionOnSet(f, S)
  <2>1. SumFunctionOnSet(f, S) = f[x] + SumFunctionOnSet(f, S \ {x})
    BY SumRemove
  <2>2. SumFunctionOnSet(f, S \ {x}) \in Nat
    BY Zenon, <1>1
  <2>3. QED
    BY <2>1, <2>2
<1>3. QED
  BY Zenon, <1>1, <1>2
----------------------------------------------------------------------------
(* Arithmetic.                                                             *)

\* Multiplying by a positive number keeps and reflects the order.
LEMMA MulOrder ==
  ASSUME NEW d \in Nat \ {0}, NEW x \in Int, NEW y \in Int
  PROVE  /\ d * x <= d * y <=> x <= y
         /\ d * x < d * y <=> x < y
<1>1. ASSUME x <= y PROVE d * x <= d * y
  BY <1>1
<1>2. ASSUME x < y PROVE d * x < d * y
  BY <1>2
<1>3. ASSUME y < x PROVE d * y < d * x
  BY <1>3
<1>4. d * x \in Int /\ d * y \in Int
  OBVIOUS
<1>5. QED
  BY <1>1, <1>2, <1>3, <1>4

\* A product of positive numbers is positive.
LEMMA MulPositive ==
  ASSUME NEW x \in Nat \ {0}, NEW y \in Nat \ {0}
  PROVE  x * y \in Nat \ {0}
<1>1. x * y \in Nat
  OBVIOUS
<1>2. x * 0 < x * y
  BY MulOrder
<1>3. QED
  BY <1>1, <1>2

\* Dividing a multiple.
LEMMA DivExact ==
  ASSUME NEW d \in Nat \ {0}, NEW x \in Int
  PROVE  (d * x) \div d = x
<1> DEFINE q == (d * x) \div d
<1>1. q \in Int /\ d * q <= d * x /\ d * x < d * (q + 1)
  OBVIOUS
<1> HIDE DEF q
<1>2. q <= x /\ x < q + 1
  BY <1>1, MulOrder
<1>3. q = x
  BY <1>1, <1>2
<1>4. QED
  BY Zenon, <1>3 DEF q

\* A quotient is the largest number whose multiple does not exceed.
LEMMA DivBelow ==
  ASSUME NEW d \in Nat \ {0}, NEW a \in Int, NEW x \in Int
  PROVE  /\ a \div d \in Int
         /\ x <= a \div d => d * x <= a
         /\ a \in Nat => a \div d \in Nat
<1> DEFINE q == a \div d
<1>1. q \in Int /\ d * q <= a /\ a < d * (q + 1)
  OBVIOUS
<1> HIDE DEF q
<1>2. ASSUME x <= q PROVE d * x <= a
  <2>1. d * x <= d * q
    BY Zenon, <1>1, <1>2, MulOrder
  <2>2. d * x \in Int /\ d * q \in Int
    BY <1>1
  <2>3. QED
    BY <1>1, <2>1, <2>2
<1>3. ASSUME a \in Nat PROVE q \in Nat
  <2>1. d * 0 < d * (q + 1)
    BY <1>1, <1>3
  <2>2. 0 < q + 1
    BY <1>1, <2>1, MulOrder
  <2>3. QED
    BY <1>1, <2>2
<1>4. QED
  BY Zenon, <1>1, <1>2, <1>3 DEF q

\* A rounded up quotient.
LEMMA DivUp ==
  ASSUME NEW d \in Nat \ {0}, NEW a \in Nat
  PROVE  LET c == (a + d - 1) \div d
         IN c \in Nat /\ a <= d * c /\ d * c < a + d
<1> DEFINE c == (a + d - 1) \div d
<1>1. c \in Int /\ d * c <= a + d - 1 /\ a + d - 1 < d * (c + 1)
  OBVIOUS
<1>2. c \in Nat
  BY DivBelow
<1> HIDE DEF c
<1>3. d * (c + 1) = d * c + d /\ d * c \in Int
  BY <1>1
<1>4. a <= d * c /\ d * c < a + d
  BY <1>1, <1>3
<1>5. QED
  BY Zenon, <1>2, <1>4 DEF c

\* A multiple leaves no remainder.
LEMMA MultipleSum ==
  ASSUME NEW d \in Nat \ {0}, NEW x \in Nat
  PROVE  ((d * x) % d) = 0
<1> DEFINE y == d * x
<1>1. y \in Int /\ y \div d = x /\ y = d * x
  BY DivExact
<1> HIDE DEF y
<1>2. y = d * (y \div d) + (y % d) /\ (y % d) \in Int
  BY <1>1
<1>3. (y % d) = 0
  BY <1>1, <1>2
<1>4. QED
  BY Zenon, <1>3 DEF y

----------------------------------------------------------------------------
(* Arithmetic of fees and budgets.                                         *)

\* A budget that does not reach the value of an order buys less than its size.
LEMMA QuotientBelow ==
  ASSUME NEW a \in Int, NEW d \in Nat \ {0}, NEW n \in Nat, a < d * n
  PROVE  a \div d \in Int /\ a \div d < n
<1>1. a \div d \in Int /\ d * (a \div d) <= a
  OBVIOUS
<1>2. d * (a \div d) < d * n
  BY <1>1
<1>3. CASE a \div d >= n
  <2>1. d * (a \div d) >= d * n
    BY <1>1, <1>3
  <2>. QED  BY <2>1, <1>2, <1>1
<1>. QED  BY <1>3, <1>1

\* compute_fee of a natural amount is natural and at most the amount.
LEMMA FeeBound ==
  ASSUME NEW a \in Nat
  PROVE  compute_fee(a) \in Nat /\ compute_fee(a) <= a
<1>1. a * TakerFeeBps \in Nat /\ a * TakerFeeBps <= a * 10000
  BY ConfigAssumption
<1>2. (a * TakerFeeBps + 10000 - 1) \div 10000 <= a
  BY <1>1
<1>. QED  BY <1>1, <1>2 DEF compute_fee

\* Fees are numbers of lots.
LEMMA FeeOnType ==
  ASSUME NEW a \in Int
  PROVE  FeeOn(a) \in Int
<1>1. compute_fee(a) \in Int
  BY ConfigAssumption DEF compute_fee
<1>. QED  BY <1>1, ConfigAssumption DEF FeeOn, RoundUp

----------------------------------------------------------------------------
(* The operations of the engine return markets.                            *)

\* An order locks a natural number of lots.
LEMMA LotsType ==
  ASSUME NEW side \in Side, NEW price \in Nat, NEW n \in Int
  PROVE  Lots(side, price, n) \in Int
BY ConfigAssumption DEF Lots, AdjustedQuote, Side

\* Adding lots of one asset to a balance gives a balance.
LEMMA AddLotsType ==
  ASSUME NEW f \in Balances, NEW t \in Trader,
         NEW a \in Asset, NEW n \in Int
  PROVE  AddLots(f, t, a, n) \in Balances
BY DEF AddLots, Balances, Amounts

\* Adding lots of both assets to a balance gives a balance.
LEMMA AddAllType ==
  ASSUME NEW f \in Balances, NEW t \in Trader,
         NEW lots \in Amounts
  PROVE  /\ AddAll(f, t, lots) \in Balances
         /\ AddAll(f, t, [a \in Asset |-> - lots[a]]) \in Balances
BY DEF AddAll, Balances, Amounts

\* Taking lots off a resting order leaves books of orders with a size.
LEMMA TakeFromType ==
  ASSUME NEW book \in Book, NEW side \in Side,
         NEW o \in book[side], NEW n \in Int, n <= o.size
  PROVE  TakeFrom(book, side, o, n) \in Book
<1>1. o \in Order
  BY Zenon DEF Book
<1>2. n # o.size => [o EXCEPT !.size = @ - n] \in Order
  BY <1>1 DEF Order
<1>. QED  BY Zenon, <1>1, <1>2 DEF TakeFrom, Book

\* Reducing an order gives a market.
LEMMA ReduceByType ==
  ASSUME NEW m \in Market, NEW side \in Side, NEW o \in m.book[side],
         NEW n \in Int, n <= o.size
  PROVE  ReduceBy(m, side, o, n) \in Market
<1>. DEFINE released == Lots(side, o.price, n)
<1>1. o \in Order /\ o.trader \in Trader /\ o.price \in Nat
  BY DEF Market, Order, Book
<1>2. released \in Int /\ Pays(side) \in Asset
  BY Zenon, <1>1, LotsType DEF Pays, Asset
<1>. HIDE DEF released
<1>3. TakeFrom(m.book, side, o, n) \in Book
  BY Zenon, TakeFromType DEF Market
<1>4. /\ m.locked \in Balances
      /\ m.free \in Balances
      /\ - released \in Int
  BY <1>2 DEF Market
<1>5. AddLots(m.locked, o.trader, Pays(side), - released)
        \in Balances
  BY Zenon, <1>1, <1>2, <1>4, AddLotsType
<1>6. AddLots(m.free, o.trader, Pays(side), released)
        \in Balances
  BY Zenon, <1>1, <1>2, <1>4, AddLotsType
<1>. QED  BY Zenon, <1>3, <1>5, <1>6 DEF ReduceBy, released, Market

\* Filling an order gives a market.
LEMMA FillType ==
  ASSUME NEW m \in Market, NEW side \in Side, NEW o \in m.book[Opposite(side)],
         NEW n \in Int, n <= o.size
  PROVE  Fill(m, side, o, n) \in Market
<1>. DEFINE maker == Opposite(side)
            given == Lots(maker, o.price, n)
            received == Lots(side, o.price, n)
<1>1. maker \in Side
  BY Zenon DEF Opposite, Side
<1>2. o \in Order /\ o.trader \in Trader /\ o.price \in Nat
  BY <1>1 DEF Market, Order, Book
<1>3. - given \in Int /\ received \in Int /\ Pays(maker) \in Asset /\ Pays(side) \in Asset
  BY <1>1, <1>2, LotsType DEF Pays, Asset
<1>. HIDE DEF given, received
<1>4. TakeFrom(m.book, maker, o, n) \in Book
  BY Zenon, <1>1, TakeFromType DEF Market
<1>5. m.locked \in Balances /\ m.free \in Balances
  BY Zenon DEF Market
<1>6. AddLots(m.locked, o.trader, Pays(maker), - given) \in Balances
  BY Zenon, <1>2, <1>3, <1>5, AddLotsType
<1>7. AddLots(m.free, o.trader, Pays(side), received) \in Balances
  BY Zenon, <1>2, <1>3, <1>5, AddLotsType
<1>. QED  BY Zenon, <1>4, <1>6, <1>7 DEF Fill, given, received, Market

\* Debits and credits of free lots give a market.
LEMMA DebitCreditType ==
  ASSUME NEW m \in Market, NEW t \in Trader, NEW lots \in Amounts
  PROVE  Debit(m, t, lots) \in Market /\ Credit(m, t, lots) \in Market
<1>1. m.free \in Balances
  BY Zenon DEF Market
<1>. QED  BY Zenon, <1>1, AddAllType DEF Debit, Credit, Market

\* Registering a trader gives a market.
LEMMA RegisterType ==
  ASSUME NEW m \in Market, NEW t \in Trader
  PROVE  get_or_register_trader(m, t) \in Market
<1>1. NoLots \in Amounts
  BY DEF NoLots, Amounts
<1>. QED  BY Zenon, <1>1 DEF get_or_register_trader, Market, Balances, Amounts

\* What can be claimed is an amount of each asset.
LEMMA ClaimableType ==
  ASSUME NEW m \in Market, NEW t \in Trader, NEW want \in Amounts
  PROVE  Claimable(m, t, want) \in Amounts
BY DEF Claimable, Market, Least, Balances, Amounts

\* Reducing an order and claiming what it released gives a market
\* and an amount to pay out.
LEMMA ReduceAndClaimType ==
  ASSUME NEW m \in Market, NEW side \in Side, NEW o \in m.book[side],
         NEW n \in Int, n <= o.size, NEW claim \in BOOLEAN
  PROVE  /\ ReduceAndClaim(m, side, o, n, claim).m \in Market
         /\ ReduceAndClaim(m, side, o, n, claim).out \in Amounts
<1>. DEFINE reduced == ReduceBy(m, side, o, n)
            want == [NoLots EXCEPT ![Pays(side)] = Lots(side, o.price, n)]
            out == IF claim THEN Claimable(reduced, o.trader, want) ELSE NoLots
<1>1. o.trader \in Trader /\ o.price \in Nat
  BY DEF Market, Order, Book
<1>2. reduced \in Market
  BY Zenon, ReduceByType
<1>3. want \in Amounts
  BY <1>1, LotsType DEF NoLots, Pays, Asset, Amounts
<1>4. NoLots \in Amounts
  BY DEF NoLots, Amounts
<1>. HIDE DEF reduced, want
<1>5. out \in Amounts
  BY Zenon, <1>1, <1>2, <1>3, <1>4, ClaimableType
<1>. HIDE DEF out
<1>6. Debit(reduced, o.trader, out) \in Market
  BY Zenon, <1>1, <1>2, <1>5, DebitCreditType
<1>. QED  BY Zenon, <1>5, <1>6 DEF ReduceAndClaim, reduced, want, out

----------------------------------------------------------------------------
(* The lots that an order locks.                                           *)

\* The tick size is a multiple of the base lots of a base unit.
LEMMA TickMultiple ==
  \E k \in Nat : TickSize = BaseLotsPerBaseUnit * k
<1> DEFINE d == BaseLotsPerBaseUnit
           k == TickSize \div d
<1>1. d \in Nat \ {0} /\ TickSize \in Nat /\ TickSize % d = 0
  BY ConfigAssumption, TickAssumption
<1>2. TickSize = d * k + (TickSize % d) /\ k \in Nat
  BY <1>1, DivBelow
<1>3. QED
  BY <1>1, <1>2

\* What an order locks is proportional to its size, and a bid locks exactly
\* its value: nothing is lost to rounding.
LEMMA LotsScale ==
  ASSUME NEW side \in Side, NEW price \in Nat
  PROVE  \E c \in Nat : \A n \in Int :
           /\ Lots(side, price, n) = c * n
           /\ side = "Bid" => AdjustedQuote(price, n) = BaseLotsPerBaseUnit * (c * n)
<1>1. CASE side = "Ask"
  <2>1. \A n \in Int : Lots(side, price, n) = 1 * n
    BY <1>1 DEF Lots
  <2>2. QED
    BY Zenon, <1>1, <2>1
<1>2. CASE side = "Bid"
  <2>1. PICK k \in Nat : TickSize = BaseLotsPerBaseUnit * k
    BY Zenon, TickMultiple
  <2> DEFINE d == BaseLotsPerBaseUnit
  <2>2. d \in Nat \ {0}
    BY ConfigAssumption
  <2>3. price * k \in Nat
    OBVIOUS
  <2>4. ASSUME NEW n \in Int
        PROVE  /\ AdjustedQuote(price, n) = d * ((price * k) * n)
               /\ Lots(side, price, n) = (price * k) * n
    <3>1. AdjustedQuote(price, n) = d * ((price * k) * n)
      BY <2>1, <2>2 DEF AdjustedQuote
    <3>2. (price * k) * n \in Int
      BY <2>3
    <3>3. (d * ((price * k) * n)) \div d = (price * k) * n
      BY Zenon, <2>2, <3>2, DivExact
    <3>4. Lots(side, price, n) = AdjustedQuote(price, n) \div d
      BY Zenon, <1>2 DEF Lots
    <3>5. QED
      BY Zenon, <3>1, <3>3, <3>4
  <2>5. QED
    BY Zenon, <2>3, <2>4
<1>3. QED
  BY Zenon, <1>1, <1>2 DEF Side

\* An order locks a natural number of lots.
LEMMA LotsNat ==
  ASSUME NEW side \in Side, NEW price \in Nat, NEW n \in Nat
  PROVE  Lots(side, price, n) \in Nat
<1>1. PICK c \in Nat : \A x \in Int : Lots(side, price, x) = c * x
  BY Zenon, LotsScale
<1>2. c * n \in Nat
  OBVIOUS
<1>3. QED
  BY <1>1, <1>2

\* The lots of parts of an order add up to the lots of the order.
LEMMA LotsSplit ==
  ASSUME NEW side \in Side, NEW price \in Nat, NEW n \in Int, NEW size \in Int
  PROVE  /\ Lots(side, price, size) = Lots(side, price, n) + Lots(side, price, size - n)
         /\ n >= 0 => Lots(side, price, n) \in Nat
         /\ Lots(side, price, n) \in Int
         /\ Lots(side, price, 0) = 0
<1>1. PICK c \in Nat : \A x \in Int : Lots(side, price, x) = c * x
  BY Zenon, LotsScale
<1>2. size - n \in Int /\ 0 \in Int
  OBVIOUS
<1>3. /\ Lots(side, price, size) = c * size /\ Lots(side, price, n) = c * n
      /\ Lots(side, price, size - n) = c * (size - n) /\ Lots(side, price, 0) = c * 0
  BY Zenon, <1>1, <1>2
<1>4. c * (size - n) = c * size - c * n /\ c * 0 = 0 /\ (n >= 0 => c * n \in Nat)
  OBVIOUS
<1>5. QED
  BY <1>3, <1>4

\* The value of lots is a whole number of quote lots, those a bid locks.
LEMMA AdjustedLots ==
  ASSUME NEW price \in Nat, NEW n \in Int
  PROVE  /\ AdjustedQuote(price, n) = BaseLotsPerBaseUnit * Lots("Bid", price, n)
         /\ AdjustedQuote(price, n) \in Int
         /\ n >= 0 => AdjustedQuote(price, n) >= 0
<1>1. PICK c \in Nat : \A x \in Int :
        /\ Lots("Bid", price, x) = c * x
        /\ AdjustedQuote(price, x) = BaseLotsPerBaseUnit * (c * x)
  BY Zenon, LotsScale DEF Side
<1>2. BaseLotsPerBaseUnit \in Nat
  BY ConfigAssumption
<1>3. AdjustedQuote(price, n) = BaseLotsPerBaseUnit * Lots("Bid", price, n)
  BY Zenon, <1>1
<1>4. c * n \in Int /\ (n >= 0 => c * n \in Nat)
  OBVIOUS
<1>5. Lots("Bid", price, n) \in Int /\ (n >= 0 => Lots("Bid", price, n) \in Nat)
  BY Zenon, <1>1, <1>4
<1>6. QED
  BY <1>2, <1>3, <1>5

----------------------------------------------------------------------------
(* Fees and budgets.                                                       *)

\* compute_fee rounds up to a whole unit.
LEMMA FeeUp ==
  ASSUME NEW a \in Nat
  PROVE  /\ compute_fee(a) \in Nat
         /\ a * TakerFeeBps <= 10000 * compute_fee(a)
         /\ 10000 * compute_fee(a) < a * TakerFeeBps + 10000
<1>1. a * TakerFeeBps \in Nat
  BY ConfigAssumption
<1>2. QED
  BY <1>1 DEF compute_fee

\* The fee of a matched amount in quote lots, rounded up.
LEMMA FeeLots ==
  ASSUME NEW a \in Nat
  PROVE  /\ FeeOn(a) \in Nat
         /\ compute_fee(a) <= BaseLotsPerBaseUnit * FeeOn(a)
         /\ BaseLotsPerBaseUnit * FeeOn(a) < compute_fee(a) + BaseLotsPerBaseUnit
<1> DEFINE d == BaseLotsPerBaseUnit
           f == compute_fee(a)
           c == (f + d - 1) \div d
<1>1. d \in Nat \ {0} /\ f \in Nat
  BY FeeUp, ConfigAssumption
<1> HIDE DEF f, d
<1>2. c \in Nat /\ f <= d * c /\ d * c < f + d
  BY Zenon, <1>1, DivUp
<1>3. FeeOn(a) = (c * d) \div d
  BY Zenon DEF FeeOn, RoundUp, d, f
<1> HIDE DEF c
<1>4. c * d = d * c
  BY <1>1, <1>2
<1>5. (d * c) \div d = c
  BY <1>1, <1>2, DivExact
<1>6. FeeOn(a) = c
  BY Zenon, <1>3, <1>4, <1>5
<1>7. QED
  BY Zenon, <1>2, <1>6 DEF d, f

\* What is matched is a whole number n of quote lots: rounding it changes
\* nothing, and the fee never exceeds it.
LEMMA RoundExact ==
  ASSUME NEW n \in Nat
  PROVE  LET adj == BaseLotsPerBaseUnit * n
         IN /\ RoundUp(adj) \div BaseLotsPerBaseUnit = n
            /\ RoundDown(adj) \div BaseLotsPerBaseUnit = n
            /\ FeeOn(adj) \in Nat
            /\ FeeOn(adj) <= n
<1> DEFINE d == BaseLotsPerBaseUnit
           adj == d * n
           c == (adj + d - 1) \div d
<1>1. d \in Nat \ {0} /\ adj \in Nat
  BY ConfigAssumption
<1>2. c \in Nat /\ adj <= d * c /\ d * c < adj + d
  BY Zenon, <1>1, DivUp
<1>3. adj + d = d * (n + 1) /\ n + 1 \in Int
  BY <1>1
<1> HIDE DEF c
<1>4. n <= c /\ c < n + 1
  BY <1>1, <1>2, <1>3, MulOrder
<1>5. c = n
  BY <1>2, <1>4
<1>6. n * d = d * n /\ (d * n) \div d = n
  BY <1>1, DivExact
<1>7. RoundUp(adj) = d * n /\ RoundDown(adj) = d * n
  BY Zenon, <1>5, <1>6 DEF RoundUp, RoundDown, c
<1>8. FeeOn(adj) \in Nat /\ FeeOn(adj) <= n
  <2> DEFINE f == compute_fee(adj)
             e == FeeOn(adj)
  <2>1. f \in Nat /\ f <= adj
    BY Zenon, <1>1, FeeBound
  <2>2. e \in Nat /\ d * e < f + d
    BY Zenon, <1>1, FeeLots
  <2> HIDE DEF f, e, adj
  <2>3. d * e < adj + d
    BY <1>1, <2>1, <2>2
  <2>4. d * e < d * (n + 1)
    BY Zenon, <1>3, <2>3
  <2>5. e < n + 1
    BY <1>1, <1>3, <2>2, <2>4, MulOrder
  <2>6. QED
    BY <2>2, <2>5 DEF e
<1>9. QED
  BY Zenon, <1>6, <1>7, <1>8

\* A purchase within BudgetForBuys costs no more than the quote lots of the
\* order, fee included: the fee of u64::MAX is rounded up, so the adjusted
\* budget errs on the safe side.
LEMMA BuyBudget ==
  ASSUME NEW q \in Nat, NEW n \in Nat,
         BaseLotsPerBaseUnit * n <= BudgetForBuys(q * BaseLotsPerBaseUnit)
  PROVE  n + FeeOn(BaseLotsPerBaseUnit * n) <= q
<1> DEFINE d == BaseLotsPerBaseUnit
           b == TakerFeeBps
           M == MaxU64
           F == compute_fee(M)
           Q == q * d
           a == d * n
           f == compute_fee(a)
           e == FeeOn(a)
<1>1. d \in Nat \ {0} /\ b \in Nat /\ M \in Nat \ {0} /\ Q \in Nat /\ a \in Nat
  BY ConfigAssumption
<1>2. F \in Nat /\ M * b <= 10000 * F
  BY <1>1, FeeUp
<1>3. f \in Nat /\ 10000 * f < a * b + 10000
  BY <1>1, FeeUp
<1>4. e \in Nat /\ d * e < f + d
  BY Zenon, <1>1, FeeLots
<1>5. a <= (Q * M) \div (F + M)
  BY <1>1, <1>2, DivBelow DEF BudgetForBuys, Least
<1> HIDE DEF F, f, e
<1>6. (F + M) * a <= Q * M
  <2>1. F + M \in Nat \ {0} /\ Q * M \in Int
    BY <1>1, <1>2
  <2>2. QED
    BY <1>1, <1>5, <2>1, DivBelow
<1> HIDE DEF Q, a, b, M, d
<1>7. a + f <= Q
  <2> SUFFICES ASSUME Q < a + f PROVE FALSE
    BY <1>1, <1>3
  <2>1. 10000 * (Q - a) < a * b
    BY <1>1, <1>3
  <2>2. M * (10000 * (Q - a)) < M * (a * b)
    <3>1. 10000 * (Q - a) \in Int /\ a * b \in Int
      BY <1>1
    <3>2. QED
      BY <1>1, <2>1, <3>1, MulOrder
  <2>3. M * (a * b) = a * (M * b)
    BY <1>1
  <2>4. a * (M * b) <= a * (10000 * F)
    <3>1. M * b \in Int /\ 10000 * F \in Int
      BY <1>1, <1>2
    <3>2. CASE a = 0
      BY <3>1, <3>2
    <3>3. CASE a # 0
      BY <1>1, <1>2, <3>1, <3>3, MulOrder
    <3>4. QED
      BY <3>2, <3>3
  <2>5. M * (10000 * (Q - a)) = 10000 * (M * Q) - 10000 * (M * a)
    BY <1>1
  <2>6. a * (10000 * F) = 10000 * (F * a)
    BY <1>1, <1>2
  <2>7. (F + M) * a = F * a + M * a /\ Q * M = M * Q
    BY <1>1, <1>2
  <2>8. /\ F * a \in Int /\ M * a \in Int /\ M * Q \in Int /\ M * (a * b) \in Int
    BY <1>1, <1>2
  <2>9. QED
    BY <1>6, <2>2, <2>3, <2>4, <2>5, <2>6, <2>7, <2>8
<1>8. n + e <= q
  <2>1. a = d * n /\ Q = d * q
    BY <1>1 DEF a, Q
  <2>2. d * (n + e) = d * n + d * e /\ d * (q + 1) = d * q + d
    BY <1>1, <1>4
  <2>3. d * e \in Int /\ d * n \in Int /\ d * q \in Int
    BY <1>1, <1>4
  <2>4. d * (n + e) < d * (q + 1)
    BY <1>1, <1>3, <1>4, <1>7, <2>1, <2>2, <2>3
  <2>5. n + e < q + 1
    BY <1>1, <1>4, <2>4, MulOrder
  <2>6. QED
    BY <1>4, <2>5
<1>9. QED
  BY Zenon, <1>8 DEF e, a, d

\* A sale within BudgetForSells yields no more than the quote lots of the
\* order, fee deducted: what the rounding of the fee of u64::MAX adds is less
\* than one unit as long as the amount is below u64::MAX.
LEMMA SellBudget ==
  ASSUME NEW q \in Nat, NEW n \in Nat, compute_fee(MaxU64) # MaxU64,
         BaseLotsPerBaseUnit * n <= BudgetForSells(q * BaseLotsPerBaseUnit)
  PROVE  n - FeeOn(BaseLotsPerBaseUnit * n) <= q
<1> DEFINE d == BaseLotsPerBaseUnit
           b == TakerFeeBps
           M == MaxU64
           F == compute_fee(M)
           Q == q * d
           a == d * n
           f == compute_fee(a)
           e == FeeOn(a)
<1>1. d \in Nat \ {0} /\ b \in Nat /\ M \in Nat \ {0} /\ Q \in Nat /\ a \in Nat
  BY ConfigAssumption
<1>2. F \in Nat /\ F < M /\ 10000 * F < M * b + 10000
  <2>1. F \in Nat /\ F <= M /\ F # M
    BY Zenon, <1>1, FeeBound
  <2>2. 10000 * F < M * b + 10000
    BY <1>1, FeeUp
  <2> HIDE DEF F, M
  <2>3. QED
    BY <1>1, <2>1, <2>2
<1>3. f \in Nat /\ a * b <= 10000 * f
  BY <1>1, FeeUp
<1>4. e \in Nat /\ f <= d * e
  BY Zenon, <1>1, FeeLots
<1>5. M - F \in Nat \ {0} /\ Q * M \in Int
  BY <1>1, <1>2
<1>6. a <= (Q * M) \div (M - F) /\ a <= M
  <2>1. (Q * M) \div (M - F) \in Int
    BY Zenon, <1>5, DivBelow
  <2>2. QED
    BY <1>1, <2>1 DEF BudgetForSells, Least
<1> HIDE DEF F, f, e
<1>7. (M - F) * a <= Q * M
  BY <1>1, <1>5, <1>6, DivBelow
<1> HIDE DEF Q, a, b, M, d
<1>8. a <= Q + f
  <2>1. CASE a = 0
    BY <1>1, <1>3, <2>1
  <2>2. CASE a # 0
    <3> SUFFICES ASSUME Q + f < a PROVE FALSE
      BY <1>1, <1>3
    <3>1. a * b <= 10000 * (a - Q - 1)
      BY <1>1, <1>3
    <3>2. M * (a * b) <= M * (10000 * (a - Q - 1))
      <4>1. a * b \in Int /\ 10000 * (a - Q - 1) \in Int
        BY <1>1
      <4>2. QED
        BY <1>1, <3>1, <4>1, MulOrder
    <3>3. a * (10000 * F) < a * (M * b + 10000)
      <4>1. 10000 * F \in Int /\ M * b + 10000 \in Int
        BY <1>1, <1>2
      <4>2. QED
        BY <1>1, <1>2, <2>2, <4>1, MulOrder
    <3>4. a * (M * b + 10000) = M * (a * b) + 10000 * a
      BY <1>1
    <3>5. M * (10000 * (a - Q - 1)) = 10000 * (M * a) - 10000 * (M * Q) - 10000 * M
      BY <1>1
    <3>6. a * (10000 * F) = 10000 * (F * a)
      BY <1>1, <1>2
    <3>7. (M - F) * a = M * a - F * a /\ Q * M = M * Q
      BY <1>1, <1>2
    <3>8. F * a \in Int /\ M * a \in Int /\ M * Q \in Int /\ M * (a * b) \in Int
      BY <1>1, <1>2
    <3>9. QED
      BY <1>1, <1>6, <1>7, <3>2, <3>3, <3>4, <3>5, <3>6, <3>7, <3>8
  <2>3. QED
    BY Zenon, <2>1, <2>2
<1>9. n - e <= q
  <2>1. a = d * n /\ Q = d * q
    BY <1>1 DEF a, Q
  <2>2. d * (q + e) = d * q + d * e
    BY <1>1, <1>4
  <2>3. d * e \in Int /\ d * n \in Int /\ d * q \in Int
    BY <1>1, <1>4
  <2>4. d * n <= d * (q + e)
    BY <1>1, <1>3, <1>4, <1>8, <2>1, <2>2, <2>3
  <2>5. n <= q + e
    BY <1>1, <1>4, <2>4, MulOrder
  <2>6. QED
    BY <1>4, <2>5
<1>10. QED
  BY Zenon, <1>9 DEF e, a, d

----------------------------------------------------------------------------
(* The lots that sets of orders lock.                                      *)

\* Every term of the sum is a natural number, and the sum is one.
LEMMA OrderLotsNat ==
  ASSUME NEW side \in Side, NEW S \in SUBSET Order, IsFiniteSet(S)
  PROVE  /\ OrderLots(side, S) \in Nat
         /\ \A x \in S : Lots(side, x.price, x.size) \in Nat
         /\ \A x \in S : Lots(side, x.price, x.size) <= OrderLots(side, S)
<1> DEFINE f == [x \in S |-> Lots(side, x.price, x.size)]
<1>1. \A x \in S : x.price \in Nat /\ x.size \in Nat
  BY Zenon DEF Order
<1>2. \A x \in S : Lots(side, x.price, x.size) \in Nat
  BY Zenon, <1>1, LotsNat
<1>3. \A x \in S : f[x] \in Nat /\ f[x] = Lots(side, x.price, x.size)
  BY Zenon, <1>2
<1>4. OrderLots(side, S) = SumFunctionOnSet(f, S)
  BY Zenon DEF OrderLots
<1> HIDE DEF f
<1>5. /\ SumFunctionOnSet(f, S) \in Nat
      /\ \A x \in S : f[x] <= SumFunctionOnSet(f, S)
  BY Zenon, <1>3, SumNat
<1>6. QED
  BY Zenon, <1>2, <1>3, <1>4, <1>5

\* No orders lock nothing.
LEMMA OrderLotsEmpty ==
  ASSUME NEW side
  PROVE  OrderLots(side, {}) = 0
BY Zenon, SumEmpty DEF OrderLots

\* An order that joins a set adds its lots.
LEMMA OrderLotsAdd ==
  ASSUME NEW side \in Side, NEW S \in SUBSET Order, IsFiniteSet(S),
         NEW o \in Order, o \notin S
  PROVE  /\ IsFiniteSet(S \cup {o})
         /\ OrderLots(side, S \cup {o})
              = OrderLots(side, S) + Lots(side, o.price, o.size)
<1> DEFINE T == S \cup {o}
           f == [x \in S |-> Lots(side, x.price, x.size)]
           g == [x \in T |-> Lots(side, x.price, x.size)]
<1>1. IsFiniteSet(T) /\ T \in SUBSET Order
  BY Zenon, FS_AddElement
<1>2. \A x \in T : Lots(side, x.price, x.size) \in Nat
  <2> HIDE DEF T
  <2>1. QED
    BY Zenon, <1>1, OrderLotsNat
<1>3. /\ \A x \in S : g[x] \in Int /\ f[x] = g[x]
      /\ g[o] = Lots(side, o.price, o.size) /\ g[o] \in Int
  BY <1>2
<1>4. /\ OrderLots(side, S) = SumFunctionOnSet(f, S)
      /\ OrderLots(side, T) = SumFunctionOnSet(g, T)
  BY Zenon DEF OrderLots
<1> HIDE DEF f, g
<1>5. SumFunctionOnSet(g, S \cup {o}) = g[o] + SumFunctionOnSet(g, S)
  BY Zenon, <1>3, SumAdd
<1>6. SumFunctionOnSet(f, S) = SumFunctionOnSet(g, S)
  BY Zenon, <1>3, SumSame
<1>7. SumFunctionOnSet(g, S) \in Int
  BY Zenon, <1>3, SumInt
<1>8. QED
  BY <1>1, <1>3, <1>4, <1>5, <1>6, <1>7

\* An order that leaves a set takes its lots away.
LEMMA OrderLotsRemove ==
  ASSUME NEW side \in Side, NEW S \in SUBSET Order, IsFiniteSet(S), NEW o \in S
  PROVE  /\ IsFiniteSet(S \ {o})
         /\ OrderLots(side, S \ {o})
              = OrderLots(side, S) - Lots(side, o.price, o.size)
<1> DEFINE R == S \ {o}
           L == Lots(side, o.price, o.size)
           x == OrderLots(side, R)
           y == OrderLots(side, S)
<1>1. IsFiniteSet(R) /\ R \in SUBSET Order /\ o \notin R /\ R \cup {o} = S
  BY Zenon, FS_Subset
<1>2. L \in Nat
  BY Zenon, OrderLotsNat
<1> HIDE DEF R
<1>3. y = x + L
  BY Zenon, <1>1, OrderLotsAdd
<1>4. x \in Nat
  BY Zenon, <1>1, OrderLotsNat
<1> HIDE DEF x, y, L
<1>5. x = y - L
  BY <1>2, <1>3, <1>4
<1>6. QED
  BY Zenon, <1>1, <1>5 DEF x, y, L, R

----------------------------------------------------------------------------
(* Balances.                                                               *)

\* Adding lots of one asset changes one balance.
LEMMA AddLotsAt ==
  ASSUME NEW f \in Balances, NEW t \in Trader, NEW a \in Asset, NEW n \in Int
  PROVE  /\ \A u \in Trader, c \in Asset : AddLots(f, t, a, n)[u][c]
              = f[u][c] + (IF u = t /\ c = a THEN n ELSE 0)
         /\ \A u \in Trader \ {t} : AddLots(f, t, a, n)[u] = f[u]
BY DEF AddLots, Balances, Amounts

\* Adding lots of both assets changes the balances of one trader.
LEMMA AddAllAt ==
  ASSUME NEW f \in Balances, NEW t \in Trader, NEW lots \in Amounts
  PROVE  /\ \A u \in Trader, c \in Asset :
              AddAll(f, t, lots)[u][c] = f[u][c] + (IF u = t THEN lots[c] ELSE 0)
         /\ \A u \in Trader \ {t} : AddAll(f, t, lots)[u] = f[u]
BY DEF AddAll, Balances, Amounts

\* The side whose orders lock an asset.
LEMMA PaysSide ==
  ASSUME NEW side \in Side, NEW a \in Asset
  PROVE  /\ (IF a = "quote" THEN "Bid" ELSE "Ask") \in Side
         /\ a = Pays(side) <=> side = (IF a = "quote" THEN "Bid" ELSE "Ask")
         /\ a = Gets(side) <=> a # Pays(side)
         /\ Pays(side) \in Asset /\ Gets(side) \in Asset /\ Pays(side) # Gets(side)
         /\ Opposite(side) \in Side /\ Opposite(side) # side
         /\ Pays(Opposite(side)) = Gets(side)
BY Zenon DEF Side, Asset, Pays, Gets, Opposite

\* The lots that the orders of one trader and one side lock, after some are
\* taken off an order: exactly the lots of what was taken are gone.
LEMMA TakenLots ==
  ASSUME NEW book \in Book, NEW side \in Side, IsFiniteSet(book[side]),
         NEW o \in book[side], NEW n \in Nat, n <= o.size,
         \A x \in book[side] : x.seq = o.seq => x = o,
         NEW t \in Trader
  PROVE  LET after == TakeFrom(book, side, o, n)[side]
         IN /\ IsFiniteSet(after)
            /\ OrderLots(side, {x \in after : x.trader = t})
                 = OrderLots(side, {x \in book[side] : x.trader = t})
                     - (IF t = o.trader THEN Lots(side, o.price, n) ELSE 0)
<1> DEFINE after == TakeFrom(book, side, o, n)[side]
           mine == {x \in book[side] : x.trader = t}
           rest == {x \in after : x.trader = t}
           o2 == [o EXCEPT !.size = @ - n]
<1>1. /\ book[side] \in SUBSET Order /\ o \in Order
      /\ o.size \in Nat /\ o.price \in Nat /\ o.trader \in Trader
  BY DEF Book, Order
<1>2. after = IF n = o.size THEN book[side] \ {o} ELSE (book[side] \ {o}) \cup {o2}
  BY Zenon DEF TakeFrom, Book
<1>3. /\ o2.seq = o.seq /\ o2.trader = o.trader /\ o2.price = o.price
      /\ o2.size = o.size - n
      /\ n # o.size => o2 \in Order
  BY <1>1 DEF Order
<1>4. o2 \notin book[side] \ {o}
  BY Zenon, <1>3
<1>5. mine \in SUBSET Order /\ IsFiniteSet(mine)
  BY Zenon, <1>1, FS_Subset
<1>6. IsFiniteSet(book[side] \ {o})
  BY Zenon, FS_Subset
<1> HIDE DEF o2
<1>7. IsFiniteSet(after)
  <2>1. IsFiniteSet((book[side] \ {o}) \cup {o2})
    BY Zenon, <1>6, FS_AddElement
  <2> HIDE DEF after
  <2>2. QED
    BY Zenon, <1>2, <1>6, <2>1
<1> HIDE DEF after
<1>8. CASE t # o.trader
  <2>1. rest = mine
    BY Zenon, <1>2, <1>3, <1>8
  <2>2. OrderLots(side, mine) \in Nat
    BY Zenon, <1>5, OrderLotsNat
  <2> HIDE DEF mine, rest
  <2>3. OrderLots(side, rest) = OrderLots(side, mine) - 0
    BY <2>1, <2>2
  <2>4. QED
    BY Zenon, <1>7, <1>8, <2>3 DEF after, mine, rest
<1>9. CASE t = o.trader
  <2>1. o \in mine
    BY Zenon, <1>9
  <2> DEFINE less == mine \ {o}
             before == OrderLots(side, mine)
             whole == Lots(side, o.price, o.size)
             part == Lots(side, o.price, n)
             left == Lots(side, o.price, o.size - n)
  <2>2. before \in Nat /\ whole \in Nat
    BY Zenon, <1>5, <2>1, OrderLotsNat
  <2>3. IsFiniteSet(less) /\ OrderLots(side, less) = before - whole
    BY Zenon, <1>5, <2>1, OrderLotsRemove
  <2>4. whole = part + left /\ part \in Int /\ left \in Int
    <3>1. n \in Int /\ o.size \in Int /\ o.size - n \in Int
      BY <1>1
    <3>2. QED
      BY Zenon, <1>1, <3>1, LotsSplit
  <2>5. less \in SUBSET Order /\ o2 \notin less
    BY Zenon, <1>4, <1>5
  <2>6. CASE n = o.size
    <3>1. rest = less
      BY Zenon, <1>2, <2>6
    <3>2. QED
      BY Zenon, <1>7, <1>9, <2>3, <2>6, <3>1 DEF after
  <2>7. CASE n # o.size
    <3>1. rest = less \cup {o2}
      BY Zenon, <1>2, <1>3, <1>9, <2>7
    <3>2. o2 \in Order
      BY Zenon, <1>3, <2>7
    <3> HIDE DEF less, before, whole, part, left, rest, mine
    <3>3. OrderLots(side, rest) = OrderLots(side, less) + left
      BY Zenon, <1>3, <2>3, <2>5, <3>1, <3>2, OrderLotsAdd DEF left
    <3>4. OrderLots(side, rest) = before - part
      BY <2>2, <2>3, <2>4, <3>3
    <3>5. QED
      BY Zenon, <1>7, <1>9, <3>4 DEF after, rest, before, mine, part
  <2>8. QED
    BY Zenon, <2>6, <2>7
<1>10. QED
  BY Zenon, <1>8, <1>9
----------------------------------------------------------------------------
(* What a market owes.                                                     *)

\* Balances are numbers.
LEMMA HoldingType ==
  ASSUME NEW m \in Market, NEW t \in Trader, NEW a \in Asset
  PROVE  /\ m.free[t][a] \in Int /\ m.locked[t][a] \in Int
         /\ Holding(m, t, a) \in Int
         /\ m.unclaimed \in Int
BY DEF Market, Balances, Amounts, Holding

\* The debts of a market change by what one trader's lots and the unclaimed
\* fees change by.
LEMMA OwedShift ==
  ASSUME NEW m \in Market, NEW r \in Market, NEW a \in Asset,
         NEW t \in Trader, NEW n \in Int, NEW e \in Int,
         \A u \in Trader \ {t} : Holding(r, u, a) = Holding(m, u, a),
         Holding(r, t, a) = Holding(m, t, a) + n,
         r.unclaimed = m.unclaimed + e
  PROVE  /\ Owed(m, a) \in Int
         /\ Owed(r, a) = Owed(m, a) + n + (IF a = "quote" THEN e ELSE 0)
<1> DEFINE f == [u \in Trader |-> Holding(m, u, a)]
           g == [u \in Trader |-> Holding(r, u, a)]
           x == SumFunctionOnSet(f, Trader)
           y == SumFunctionOnSet(g, Trader)
<1>1. \A u \in Trader : f[u] \in Int /\ f[u] = Holding(m, u, a) /\ g[u] = Holding(r, u, a)
  BY Zenon, HoldingType
<1> HIDE DEF f, g
<1>2. (\A u \in Trader \ {t} : g[u] = f[u]) /\ g[t] = f[t] + n
  BY Zenon, <1>1
<1>3. y = x + n
  BY <1>1, <1>2, SumChange, TraderAssumption
<1>4. x \in Int
  BY Zenon, <1>1, SumInt, TraderAssumption
<1>5. m.unclaimed \in Int
  BY Zenon DEF Market
<1>6. /\ Owed(m, a) = x + (IF a = "quote" THEN m.unclaimed ELSE 0)
      /\ Owed(r, a) = y + (IF a = "quote" THEN r.unclaimed ELSE 0)
  BY Zenon DEF Owed, f, g
<1> HIDE DEF x, y
<1>7. QED
  BY <1>3, <1>4, <1>5, <1>6

\* The same when no trader's lots change.
LEMMA OwedSame ==
  ASSUME NEW m \in Market, NEW r \in Market, NEW a \in Asset, NEW e \in Int,
         \A u \in Trader : Holding(r, u, a) = Holding(m, u, a),
         r.unclaimed = m.unclaimed + e
  PROVE  /\ Owed(m, a) \in Int
         /\ Owed(r, a) = Owed(m, a) + (IF a = "quote" THEN e ELSE 0)
<1> DEFINE f == [u \in Trader |-> Holding(m, u, a)]
           g == [u \in Trader |-> Holding(r, u, a)]
           x == SumFunctionOnSet(f, Trader)
           y == SumFunctionOnSet(g, Trader)
<1>1. \A u \in Trader : f[u] \in Int /\ f[u] = Holding(m, u, a) /\ g[u] = Holding(r, u, a)
  BY Zenon, HoldingType
<1> HIDE DEF f, g
<1>2. \A u \in Trader : f[u] \in Int /\ g[u] = f[u]
  BY Zenon, <1>1
<1>3. y = x
  BY Zenon, <1>2, SumSame, TraderAssumption
<1>4. x \in Int
  BY Zenon, <1>1, SumInt, TraderAssumption
<1>5. m.unclaimed \in Int
  BY Zenon DEF Market
<1>6. /\ Owed(m, a) = x + (IF a = "quote" THEN m.unclaimed ELSE 0)
      /\ Owed(r, a) = y + (IF a = "quote" THEN r.unclaimed ELSE 0)
  BY Zenon DEF Owed, f, g
<1> HIDE DEF x, y
<1>7. QED
  BY <1>3, <1>4, <1>5, <1>6

\* Locked lots are never negative, and debts neither.
LEMMA AccountsNat ==
  ASSUME NEW m \in Market, AccountsOK(m)
  PROVE  /\ \A t \in Trader, a \in Asset :
              m.free[t][a] \in Nat /\ m.locked[t][a] \in Nat
         /\ \A a \in Asset : Owed(m, a) \in Nat
<1>1. ASSUME NEW t \in Trader, NEW a \in Asset
      PROVE  m.free[t][a] \in Nat /\ m.locked[t][a] \in Nat
  <2> DEFINE side == IF a = "quote" THEN "Bid" ELSE "Ask"
             mine == {o \in m.book[side] : o.trader = t}
  <2>1. side \in Side
    BY Zenon DEF Side
  <2>2. mine \in SUBSET Order /\ IsFiniteSet(mine)
    <3>1. m.book[side] \in SUBSET Order
      BY Zenon, <2>1 DEF Market, Book
    <3>2. IsFiniteSet(m.book[side])
      BY Zenon, <2>1 DEF AccountsOK
    <3>3. QED
      BY <3>1, <3>2, FS_Subset
  <2>3. OrderLots(side, mine) \in Nat
    BY Zenon, <2>1, <2>2, OrderLotsNat
  <2>4. m.locked[t][a] = OrderLots(side, mine)
    BY Zenon DEF AccountsOK, LockedByOrders
  <2>5. m.free[t][a] >= 0 /\ m.free[t][a] \in Int
    BY Zenon, HoldingType DEF AccountsOK
  <2>6. QED
    BY <2>3, <2>4, <2>5
<1>2. ASSUME NEW a \in Asset PROVE Owed(m, a) \in Nat
  <2> DEFINE f == [u \in Trader |-> Holding(m, u, a)]
  <2>1. \A u \in Trader : f[u] \in Nat
    BY <1>1 DEF Holding
  <2>2. Owed(m, a) = SumFunctionOnSet(f, Trader) + (IF a = "quote" THEN m.unclaimed ELSE 0)
    BY Zenon DEF Owed
  <2> HIDE DEF f
  <2>3. SumFunctionOnSet(f, Trader) \in Nat
    BY Zenon, <2>1, SumNat, TraderAssumption
  <2>4. m.unclaimed \in Nat
    BY DEF AccountsOK, Market
  <2>5. QED
    BY <2>2, <2>3, <2>4
<1>3. QED
  BY Zenon, <1>1, <1>2

----------------------------------------------------------------------------
(* Taking from orders, crediting and registering keep the accounts in order.*)

\* Lots that are taken off an order leave the locked lots of its trader, who
\* may receive lots for them.
LEMMA TakeAccounts ==
  ASSUME NEW m \in Market, AccountsOK(m), NEW side \in Side,
         NEW o \in m.book[side], NEW n \in Nat, n <= o.size,
         \A x \in m.book[side] : x.seq = o.seq => x = o,
         NEW r \in Market, NEW asset \in Asset, NEW gain \in Nat,
         r.book = TakeFrom(m.book, side, o, n),
         r.registered = m.registered, r.unclaimed = m.unclaimed,
         \A t \in Trader, a \in Asset : r.locked[t][a] = m.locked[t][a]
           - (IF t = o.trader /\ a = Pays(side) THEN Lots(side, o.price, n) ELSE 0),
         \A t \in Trader, a \in Asset : r.free[t][a] = m.free[t][a]
           + (IF t = o.trader /\ a = asset THEN gain ELSE 0)
  PROVE  AccountsOK(r)
<1>1. /\ m.book \in Book /\ o \in Order /\ o.trader \in Trader
      /\ o.trader \in m.registered
  BY Zenon DEF Market, Book, Order, AccountsOK
<1>2. \A s \in Side : IsFiniteSet(m.book[s])
  BY Zenon DEF AccountsOK
<1>3. \A s \in Side \ {side} : r.book[s] = m.book[s]
  BY Zenon, <1>1 DEF TakeFrom, Book
<1>4. r.unclaimed >= 0
  BY Zenon DEF AccountsOK
<1>5. ASSUME NEW s \in Side PROVE IsFiniteSet(r.book[s])
  <2>1. CASE s = side
    BY Zenon, <1>1, <1>2, <2>1, TakenLots
  <2>2. CASE s # side
    BY Zenon, <1>2, <1>3, <2>2
  <2>3. QED
    BY Zenon, <2>1, <2>2
<1>6. ASSUME NEW s \in Side, NEW x \in r.book[s] PROVE x.trader \in r.registered
  <2>1. x \in m.book[s] \/ x.trader = o.trader
    BY <1>1 DEF TakeFrom, Book, Order
  <2>2. QED
    BY Zenon, <1>1, <2>1 DEF AccountsOK
<1>7. ASSUME NEW t \in Trader, NEW a \in Asset
      PROVE  r.free[t][a] >= 0 /\ (t \notin r.registered => r.free[t][a] = 0)
  <2>1. m.free[t][a] \in Nat /\ (t \notin m.registered => m.free[t][a] = 0)
    BY Zenon, AccountsNat DEF AccountsOK
  <2>2. QED
    BY <1>1, <2>1
<1>8. ASSUME NEW t \in Trader, NEW a \in Asset
      PROVE  r.locked[t][a] = LockedByOrders(r, t, a)
  <2> DEFINE s == IF a = "quote" THEN "Bid" ELSE "Ask"
             before == OrderLots(s, {x \in m.book[s] : x.trader = t})
             after == OrderLots(s, {x \in r.book[s] : x.trader = t})
  <2>1. s \in Side /\ (a = Pays(side) <=> side = s)
    BY Zenon, PaysSide
  <2>2. m.locked[t][a] = before /\ LockedByOrders(r, t, a) = after
    BY Zenon DEF AccountsOK, LockedByOrders
  <2>3. CASE s = side
    <3>1. after = before - (IF t = o.trader THEN Lots(side, o.price, n) ELSE 0)
      BY <1>1, <1>2, <2>3, TakenLots
    <3> HIDE DEF before, after
    <3>2. QED
      BY Zenon, <2>1, <2>2, <2>3, <3>1
  <2>4. CASE s # side
    <3>1. after = before
      BY Zenon, <1>3, <2>1, <2>4
    <3>2. m.locked[t][a] \in Int
      BY Zenon, HoldingType
    <3> HIDE DEF before, after
    <3>3. QED
      BY <2>1, <2>2, <2>4, <3>1, <3>2
  <2>5. QED
    BY Zenon, <2>3, <2>4
<1>9. QED
  BY Zenon, <1>4, <1>5, <1>6, <1>7, <1>8 DEF AccountsOK

\* What a side pays and gets.
LEMMA SideFacts ==
  ASSUME NEW side \in Side
  PROVE  /\ Pays(side) \in Asset /\ Gets(side) \in Asset /\ Pays(side) # Gets(side)
         /\ Opposite(side) \in Side /\ Opposite(side) # side
         /\ Pays(Opposite(side)) = Gets(side) /\ Gets(Opposite(side)) = Pays(side)
         /\ Opposite(Opposite(side)) = side
         /\ Asset = {Pays(side), Gets(side)}
BY Zenon DEF Side, Asset, Pays, Gets, Opposite

\* Reducing an order moves its lots from locked to free.
LEMMA ReduceByAccounts ==
  ASSUME NEW m \in Market, AccountsOK(m), NEW side \in Side,
         NEW o \in m.book[side], NEW n \in Nat, n <= o.size,
         \A x \in m.book[side] : x.seq = o.seq => x = o
  PROVE  LET r == ReduceBy(m, side, o, n)
         IN /\ r \in Market /\ AccountsOK(r)
            /\ r.book = TakeFrom(m.book, side, o, n)
            /\ r.registered = m.registered /\ r.unclaimed = m.unclaimed
            /\ r.seq = m.seq
            /\ \A t \in Trader, a \in Asset : Holding(r, t, a) = Holding(m, t, a)
            /\ \A t \in Trader \ {o.trader} :
                 r.free[t] = m.free[t] /\ r.locked[t] = m.locked[t]
            /\ \A a \in Asset : r.free[o.trader][a] = m.free[o.trader][a]
                 + (IF a = Pays(side) THEN Lots(side, o.price, n) ELSE 0)
<1> DEFINE r == ReduceBy(m, side, o, n)
           L == Lots(side, o.price, n)
           p == Pays(side)
<1>1. r \in Market
  BY ReduceByType
<1>2. /\ o.trader \in Trader /\ o.price \in Nat /\ p \in Asset
      /\ m.free \in Balances /\ m.locked \in Balances
  BY SideFacts DEF Market, Book, Order
<1>3. L \in Nat /\ - L \in Int /\ L \in Int
  <2>1. L \in Nat
    BY Zenon, <1>2, LotsNat
  <2> HIDE DEF L
  <2>2. QED
    BY <2>1
<1>4. /\ r.book = TakeFrom(m.book, side, o, n)
      /\ r.registered = m.registered /\ r.unclaimed = m.unclaimed /\ r.seq = m.seq
      /\ r.locked = AddLots(m.locked, o.trader, p, - L)
      /\ r.free = AddLots(m.free, o.trader, p, L)
  BY Zenon DEF ReduceBy, Market
<1> HIDE DEF r, L, p
<1>5. /\ \A t \in Trader, a \in Asset :
           r.locked[t][a] = m.locked[t][a] + (IF t = o.trader /\ a = p THEN - L ELSE 0)
      /\ \A t \in Trader \ {o.trader} : r.locked[t] = m.locked[t]
  BY <1>2, <1>3, <1>4, AddLotsAt
<1>6. /\ \A t \in Trader, a \in Asset :
           r.free[t][a] = m.free[t][a] + (IF t = o.trader /\ a = p THEN L ELSE 0)
      /\ \A t \in Trader \ {o.trader} : r.free[t] = m.free[t]
  BY <1>2, <1>3, <1>4, AddLotsAt
<1>7. \A t \in Trader, a \in Asset : m.free[t][a] \in Int /\ m.locked[t][a] \in Int
  BY Zenon, HoldingType
<1>8. \A t \in Trader, a \in Asset :
        r.locked[t][a] = m.locked[t][a] - (IF t = o.trader /\ a = p THEN L ELSE 0)
  BY <1>3, <1>5, <1>7
<1>9. AccountsOK(r)
  BY <1>1, <1>2, <1>3, <1>4, <1>6, <1>8, TakeAccounts DEF L, p
<1>10. \A t \in Trader, a \in Asset : Holding(r, t, a) = Holding(m, t, a)
  BY <1>3, <1>5, <1>6, <1>7 DEF Holding
<1>11. \A a \in Asset : r.free[o.trader][a] = m.free[o.trader][a]
                          + (IF a = p THEN L ELSE 0)
  BY Zenon, <1>2, <1>6
<1>12. QED
  BY Zenon, <1>1, <1>4, <1>5, <1>6, <1>9, <1>10, <1>11 DEF r, L, p

\* A fill exchanges the lots that the maker's order locked for lots of the
\* other asset.
LEMMA FillAccounts ==
  ASSUME NEW m \in Market, AccountsOK(m), NEW side \in Side,
         NEW o \in m.book[Opposite(side)], NEW n \in Nat, n <= o.size,
         \A x \in m.book[Opposite(side)] : x.seq = o.seq => x = o
  PROVE  LET r == Fill(m, side, o, n)
             maker == Opposite(side)
         IN /\ r \in Market /\ AccountsOK(r)
            /\ r.book = TakeFrom(m.book, maker, o, n)
            /\ r.registered = m.registered /\ r.unclaimed = m.unclaimed
            /\ r.seq = m.seq
            /\ \A t \in Trader \ {o.trader}, a \in Asset :
                 Holding(r, t, a) = Holding(m, t, a)
            /\ Holding(r, o.trader, Gets(side))
                 = Holding(m, o.trader, Gets(side)) - Lots(maker, o.price, n)
            /\ Holding(r, o.trader, Pays(side))
                 = Holding(m, o.trader, Pays(side)) + Lots(side, o.price, n)
<1> DEFINE maker == Opposite(side)
           r == Fill(m, side, o, n)
           G == Lots(maker, o.price, n)
           R == Lots(side, o.price, n)
           p == Pays(side)
           g == Gets(side)
<1>0. maker \in Side /\ Pays(maker) = g /\ p \in Asset /\ g \in Asset /\ p # g
  BY Zenon, SideFacts
<1>1. r \in Market
  BY FillType
<1>2. /\ o.trader \in Trader /\ o.price \in Nat
      /\ m.free \in Balances /\ m.locked \in Balances
  BY <1>0 DEF Market, Book, Order
<1>3. G \in Nat /\ - G \in Int /\ R \in Nat /\ R \in Int
  BY <1>0, <1>2, LotsNat
<1>4. /\ r.book = TakeFrom(m.book, maker, o, n)
      /\ r.registered = m.registered /\ r.unclaimed = m.unclaimed /\ r.seq = m.seq
      /\ r.locked = AddLots(m.locked, o.trader, g, - G)
      /\ r.free = AddLots(m.free, o.trader, p, R)
  BY Zenon, <1>0 DEF Fill, Market
<1> HIDE DEF r, G, R, p, g, maker
<1>5. \A t \in Trader, a \in Asset :
        r.locked[t][a] = m.locked[t][a] + (IF t = o.trader /\ a = g THEN - G ELSE 0)
  <2>1. \A t \in Trader, a \in Asset : AddLots(m.locked, o.trader, g, - G)[t][a]
          = m.locked[t][a] + (IF t = o.trader /\ a = g THEN - G ELSE 0)
    BY <1>0, <1>2, <1>3, AddLotsAt
  <2>2. QED
    BY Zenon, <1>4, <2>1
<1>6. \A t \in Trader, a \in Asset :
        r.free[t][a] = m.free[t][a] + (IF t = o.trader /\ a = p THEN R ELSE 0)
  <2>1. \A t \in Trader, a \in Asset : AddLots(m.free, o.trader, p, R)[t][a]
          = m.free[t][a] + (IF t = o.trader /\ a = p THEN R ELSE 0)
    BY <1>0, <1>2, <1>3, AddLotsAt
  <2>2. QED
    BY Zenon, <1>4, <2>1
<1>7. \A t \in Trader, a \in Asset : m.free[t][a] \in Int /\ m.locked[t][a] \in Int
  BY Zenon, HoldingType
<1>8. \A t \in Trader, a \in Asset :
        r.locked[t][a] = m.locked[t][a] - (IF t = o.trader /\ a = g THEN G ELSE 0)
  BY <1>3, <1>5, <1>7
<1>9. AccountsOK(r)
  <2>1. o \in m.book[maker] /\ \A x \in m.book[maker] : x.seq = o.seq => x = o
    BY Zenon DEF maker
  <2>2. QED
    BY <1>0, <1>1, <1>2, <1>3, <1>4, <1>6, <1>8, <2>1, TakeAccounts DEF G
<1>10. /\ \A t \in Trader \ {o.trader}, a \in Asset : Holding(r, t, a) = Holding(m, t, a)
       /\ Holding(r, o.trader, g) = Holding(m, o.trader, g) - G
       /\ Holding(r, o.trader, p) = Holding(m, o.trader, p) + R
  BY <1>0, <1>2, <1>3, <1>5, <1>6, <1>7 DEF Holding
<1>11. QED
  BY Zenon, <1>1, <1>4, <1>9, <1>10 DEF r, G, R, p, g, maker

\* Free lots of one trader come or go.
LEMMA FreeAccounts ==
  ASSUME NEW m \in Market, AccountsOK(m), NEW t \in Trader, NEW lots \in Amounts,
         NEW r \in Market, r.book = m.book, r.registered = m.registered,
         r.unclaimed = m.unclaimed, r.locked = m.locked,
         r.free = AddAll(m.free, t, lots),
         \A a \in Asset : m.free[t][a] + lots[a] >= 0,
         t \in m.registered \/ \A a \in Asset : lots[a] = 0
  PROVE  /\ AccountsOK(r)
         /\ \A u \in Trader \ {t} : r.free[u] = m.free[u]
         /\ \A a \in Asset : r.free[t][a] = m.free[t][a] + lots[a]
         /\ \A u \in Trader, a \in Asset :
              Holding(r, u, a) = Holding(m, u, a) + (IF u = t THEN lots[a] ELSE 0)
         /\ \A a \in Asset : Owed(m, a) \in Int /\ Owed(r, a) = Owed(m, a) + lots[a]
<1>1. m.free \in Balances /\ \A a \in Asset : lots[a] \in Int
  BY Zenon DEF Market, Amounts
<1>2. /\ \A u \in Trader, a \in Asset :
           r.free[u][a] = m.free[u][a] + (IF u = t THEN lots[a] ELSE 0)
      /\ \A u \in Trader \ {t} : r.free[u] = m.free[u]
  BY <1>1, AddAllAt
<1>3. \A u \in Trader, a \in Asset : m.free[u][a] \in Int /\ m.locked[u][a] \in Int
  BY Zenon, HoldingType
<1>4. \A u \in Trader, a \in Asset :
        Holding(r, u, a) = Holding(m, u, a) + (IF u = t THEN lots[a] ELSE 0)
  BY <1>1, <1>2, <1>3 DEF Holding
<1>5. \A u \in Trader, a \in Asset :
        r.free[u][a] >= 0 /\ (u \notin r.registered => r.free[u][a] = 0)
  BY <1>1, <1>2, <1>3 DEF AccountsOK
<1>6. \A u \in Trader, a \in Asset : LockedByOrders(r, u, a) = LockedByOrders(m, u, a)
  BY Zenon DEF LockedByOrders
<1>7. AccountsOK(r)
  BY Zenon, <1>5, <1>6 DEF AccountsOK
<1>8. ASSUME NEW a \in Asset
      PROVE  Owed(m, a) \in Int /\ Owed(r, a) = Owed(m, a) + lots[a]
  <2>1. /\ \A u \in Trader \ {t} : Holding(r, u, a) = Holding(m, u, a)
        /\ Holding(r, t, a) = Holding(m, t, a) + lots[a]
        /\ \A u \in Trader : Holding(m, u, a) \in Int
    BY <1>1, <1>4, HoldingType
  <2>2. lots[a] \in Int /\ 0 \in Int /\ r.unclaimed = m.unclaimed + 0
    BY <1>1 DEF Market
  <2>3. Owed(m, a) \in Int
        /\ Owed(r, a) = Owed(m, a) + lots[a] + (IF a = "quote" THEN 0 ELSE 0)
    BY <2>1, <2>2, OwedShift
  <2>4. QED
    BY <2>2, <2>3
<1>9. \A a \in Asset : r.free[t][a] = m.free[t][a] + lots[a]
  BY Zenon, <1>2
<1>10. QED
  BY Zenon, <1>2, <1>4, <1>7, <1>8, <1>9

\* r is m with lots credited to t.
Credited(m, r, t, lots) ==
  /\ r \in Market /\ AccountsOK(r)
  /\ r.book = m.book /\ r.registered = m.registered
  /\ r.unclaimed = m.unclaimed /\ r.locked = m.locked
  /\ \A u \in Trader \ {t} : r.free[u] = m.free[u]
  /\ \A u \in Trader, a \in Asset :
       Holding(r, u, a) = Holding(m, u, a) + (IF u = t THEN lots[a] ELSE 0)
  /\ \A a \in Asset : Owed(m, a) \in Int /\ Owed(r, a) = Owed(m, a) + lots[a]

\* A credit adds free lots of a registered trader, or nothing.
LEMMA CreditAccounts ==
  ASSUME NEW m \in Market, AccountsOK(m), NEW t \in Trader, NEW lots \in Amounts,
         \A a \in Asset : lots[a] >= 0,
         t \in m.registered \/ \A a \in Asset : lots[a] = 0
  PROVE  Credited(m, Credit(m, t, lots), t, lots)
<1> DEFINE r == Credit(m, t, lots)
<1>1. r \in Market
  BY Zenon, DebitCreditType
<1>2. /\ r.book = m.book /\ r.registered = m.registered /\ r.locked = m.locked
      /\ r.unclaimed = m.unclaimed /\ r.free = AddAll(m.free, t, lots)
  BY Zenon DEF Credit, Market
<1>3. \A a \in Asset : m.free[t][a] + lots[a] >= 0
  BY HoldingType DEF AccountsOK, Amounts
<1> HIDE DEF r
<1>4. /\ AccountsOK(r)
      /\ \A u \in Trader \ {t} : r.free[u] = m.free[u]
      /\ \A u \in Trader, a \in Asset :
           Holding(r, u, a) = Holding(m, u, a) + (IF u = t THEN lots[a] ELSE 0)
      /\ \A a \in Asset : Owed(m, a) \in Int /\ Owed(r, a) = Owed(m, a) + lots[a]
  BY <1>1, <1>2, <1>3, FreeAccounts
<1>5. QED
  BY Zenon, <1>1, <1>2, <1>4 DEF r, Credited

\* A debit takes no more than is free.
LEMMA DebitAccounts ==
  ASSUME NEW m \in Market, AccountsOK(m), NEW t \in Trader, NEW lots \in Amounts,
         \A a \in Asset : lots[a] <= m.free[t][a],
         t \in m.registered \/ \A a \in Asset : lots[a] = 0
  PROVE  LET r == Debit(m, t, lots)
         IN /\ r \in Market /\ AccountsOK(r)
            /\ r.book = m.book /\ r.registered = m.registered
            /\ r.unclaimed = m.unclaimed /\ r.locked = m.locked
            /\ \A u \in Trader \ {t} : r.free[u] = m.free[u]
            /\ \A a \in Asset : r.free[t][a] = m.free[t][a] - lots[a]
            /\ \A u \in Trader, a \in Asset :
                 Holding(r, u, a) = Holding(m, u, a) - (IF u = t THEN lots[a] ELSE 0)
            /\ \A a \in Asset : Owed(m, a) \in Int /\ Owed(r, a) = Owed(m, a) - lots[a]
<1> DEFINE r == Debit(m, t, lots)
           minus == [a \in Asset |-> - lots[a]]
<1>1. r \in Market
  BY Zenon, DebitCreditType
<1>2. /\ r.book = m.book /\ r.registered = m.registered /\ r.locked = m.locked
      /\ r.unclaimed = m.unclaimed /\ r.free = AddAll(m.free, t, minus)
  BY Zenon DEF Debit, Market
<1>3. \A a \in Asset : lots[a] \in Int /\ minus[a] = - lots[a]
  BY Zenon DEF Amounts
<1>4. minus \in Amounts
  BY <1>3 DEF Amounts
<1> HIDE DEF r, minus
<1>5. /\ \A a \in Asset : m.free[t][a] + minus[a] >= 0
      /\ t \in m.registered \/ \A a \in Asset : minus[a] = 0
  BY <1>3, HoldingType
<1>6. /\ AccountsOK(r)
      /\ \A u \in Trader \ {t} : r.free[u] = m.free[u]
      /\ \A a \in Asset : r.free[t][a] = m.free[t][a] + minus[a]
      /\ \A u \in Trader, a \in Asset :
           Holding(r, u, a) = Holding(m, u, a) + (IF u = t THEN minus[a] ELSE 0)
      /\ \A a \in Asset : Owed(m, a) \in Int /\ Owed(r, a) = Owed(m, a) + minus[a]
  BY <1>1, <1>2, <1>4, <1>5, FreeAccounts
<1>7. \A u \in Trader, a \in Asset : m.free[u][a] \in Int /\ Holding(m, u, a) \in Int
  BY Zenon, HoldingType
<1>8. /\ \A a \in Asset : r.free[t][a] = m.free[t][a] - lots[a]
      /\ \A u \in Trader, a \in Asset :
           Holding(r, u, a) = Holding(m, u, a) - (IF u = t THEN lots[a] ELSE 0)
      /\ \A a \in Asset : Owed(m, a) \in Int /\ Owed(r, a) = Owed(m, a) - lots[a]
  BY <1>3, <1>6, <1>7
<1>9. QED
  BY Zenon, <1>1, <1>2, <1>6, <1>8 DEF r

\* A trader without orders has nothing locked.
LEMMA NoOrdersNoLots ==
  ASSUME NEW m \in Market, AccountsOK(m), NEW t \in Trader,
         \A s \in Side : \A o \in m.book[s] : o.trader # t
  PROVE  m.locked[t] = NoLots
<1>1. \A a \in Asset : m.locked[t][a] = 0
  <2>1. TAKE a \in Asset
  <2> DEFINE side == IF a = "quote" THEN "Bid" ELSE "Ask"
  <2>2. {o \in m.book[side] : o.trader = t} = {}
    BY Zenon DEF Side
  <2>3. LockedByOrders(m, t, a) = OrderLots(side, {})
    BY Zenon, <2>2 DEF LockedByOrders
  <2>4. QED
    BY Zenon, <2>3, OrderLotsEmpty DEF AccountsOK, Side
<1>2. m.locked[t] \in Amounts
  BY Zenon DEF Market, Balances
<1>3. QED
  BY Zenon, <1>1, <1>2 DEF Amounts, NoLots

\* A trader that is not registered holds nothing.
LEMMA UnregisteredHoldNothing ==
  ASSUME NEW m \in Market, AccountsOK(m), NEW t \in Trader, t \notin m.registered
  PROVE  m.free[t] = NoLots /\ m.locked[t] = NoLots
<1>1. \A s \in Side : \A o \in m.book[s] : o.trader # t
  BY Zenon DEF AccountsOK
<1>2. m.locked[t] = NoLots
  BY Zenon, <1>1, NoOrdersNoLots
<1>3. m.free[t] \in Amounts /\ \A a \in Asset : m.free[t][a] = 0
  BY Zenon DEF Market, Balances, AccountsOK
<1>4. m.free[t] = NoLots
  BY Zenon, <1>3 DEF Amounts, NoLots
<1>5. QED
  BY Zenon, <1>2, <1>4

\* Registering a trader changes no balance.
LEMMA RegisterAccounts ==
  ASSUME NEW m \in Market, AccountsOK(m), NEW t \in Trader
  PROVE  LET r == get_or_register_trader(m, t)
         IN /\ r \in Market /\ AccountsOK(r)
            /\ r.book = m.book /\ r.free = m.free /\ r.locked = m.locked
            /\ r.unclaimed = m.unclaimed /\ r.registered = m.registered \cup {t}
            /\ \A a \in Asset : Owed(r, a) = Owed(m, a)
<1> DEFINE r == get_or_register_trader(m, t)
<1>1. r \in Market
  BY Zenon, RegisterType
<1>2. /\ r.book = m.book /\ r.unclaimed = m.unclaimed
      /\ r.registered = m.registered \cup {t}
  BY Zenon DEF get_or_register_trader, Market
<1>3. r.free = m.free /\ r.locked = m.locked
  <2>1. CASE t \in m.registered
    BY Zenon, <2>1 DEF get_or_register_trader
  <2>2. CASE t \notin m.registered
    <3>1. m.free[t] = NoLots /\ m.locked[t] = NoLots
      BY Zenon, <2>2, UnregisteredHoldNothing
    <3>2. /\ r.free = [m.free EXCEPT ![t] = NoLots]
          /\ r.locked = [m.locked EXCEPT ![t] = NoLots]
      BY Zenon, <2>2 DEF get_or_register_trader, Market
    <3>3. m.free \in [Trader -> Amounts] /\ m.locked \in [Trader -> Amounts]
      BY Zenon DEF Market, Balances
    <3> HIDE DEF r
    <3>4. QED
      BY Zenon, <3>1, <3>2, <3>3
  <2>3. QED
    BY Zenon, <2>1, <2>2
<1> HIDE DEF r
<1>4. \A u \in Trader, a \in Asset : LockedByOrders(r, u, a) = LockedByOrders(m, u, a)
  BY Zenon, <1>2 DEF LockedByOrders
<1>5. AccountsOK(r)
  BY <1>2, <1>3, <1>4 DEF AccountsOK
<1>6. \A a \in Asset : Owed(r, a) = Owed(m, a)
  BY Zenon, <1>2, <1>3 DEF Owed, Holding
<1>7. QED
  BY Zenon, <1>1, <1>2, <1>3, <1>5, <1>6 DEF r

----------------------------------------------------------------------------
(* The operations of the engine keep the book in order.                    *)

\* An order that loses lots keeps its price, number and expiry, so the
\* book stays well formed.
LEMMA TakeFromBook ==
  ASSUME NEW book \in Book, NEW side \in Side,
         NEW o \in book[side], NEW n \in Int, n <= o.size,
         NEW seq \in Nat, NEW now \in Nat, BookOK(book, seq, now)
  PROVE  BookOK(TakeFrom(book, side, o, n), seq, now)
<1>. DEFINE after == TakeFrom(book, side, o, n)
<1>1. \A s \in Side : \A x \in after[s] :
        x \in book[s] \/ (s = side /\ x = [o EXCEPT !.size = @ - n] /\ o \notin after[s])
  BY DEF TakeFrom, Order
<1>2. \A s \in Side : \A x \in after[s] :
        \E y \in book[s] : y.seq = x.seq /\ y.price = x.price /\ y.lvs = x.lvs
  BY <1>1 DEF Order, Book
<1>3. \A s \in Side : \A x, y \in after[s] : x.seq = y.seq => x = y
  BY <1>1 DEF BookOK, Order, Book
<1>. HIDE DEF after
<1>. QED  BY <1>2, <1>3 DEF BookOK, Uncrossed, is_expired, Side, after

\* reduce_order_inner keeps the invariant of a market.
LEMMA ReduceByOK ==
  ASSUME NEW m, NEW now \in Nat, MarketOK(m, now),
         NEW side \in Side, NEW o \in m.book[side], NEW n \in Int, n <= o.size
  PROVE  /\ MarketOK(ReduceBy(m, side, o, n), now)
         /\ ReduceBy(m, side, o, n).seq = m.seq
         /\ ReduceBy(m, side, o, n).registered = m.registered
<1>1. m \in Market /\ m.book \in Book /\ m.seq \in Nat
  BY Zenon DEF MarketOK, Market
<1>2. ReduceBy(m, side, o, n) \in Market
  BY Zenon, <1>1, ReduceByType
<1>3. BookOK(TakeFrom(m.book, side, o, n), m.seq, now)
  BY Zenon, <1>1, TakeFromBook DEF MarketOK
<1>4. /\ ReduceBy(m, side, o, n).book = TakeFrom(m.book, side, o, n)
      /\ ReduceBy(m, side, o, n).seq = m.seq
      /\ ReduceBy(m, side, o, n).registered = m.registered
  BY Zenon, <1>1 DEF ReduceBy, Market
<1>. QED  BY Zenon, <1>2, <1>3, <1>4 DEF MarketOK

\* A fill in match_order keeps the invariant of a market.
LEMMA FillOK ==
  ASSUME NEW m, NEW now \in Nat, MarketOK(m, now),
         NEW side \in Side, NEW o \in m.book[Opposite(side)],
         NEW n \in Int, n <= o.size
  PROVE  /\ MarketOK(Fill(m, side, o, n), now)
         /\ Fill(m, side, o, n).seq = m.seq
         /\ Fill(m, side, o, n).registered = m.registered
<1>1. m \in Market /\ m.book \in Book /\ m.seq \in Nat
  BY Zenon DEF MarketOK, Market
<1>2. Fill(m, side, o, n) \in Market
  BY Zenon, <1>1, FillType
<1>3. BookOK(TakeFrom(m.book, Opposite(side), o, n), m.seq, now)
  BY Zenon, <1>1, TakeFromBook DEF MarketOK, Opposite, Side
<1>4. /\ Fill(m, side, o, n).book = TakeFrom(m.book, Opposite(side), o, n)
      /\ Fill(m, side, o, n).seq = m.seq
      /\ Fill(m, side, o, n).registered = m.registered
  BY Zenon, <1>1 DEF Fill, Market
<1>. QED  BY Zenon, <1>2, <1>3, <1>4 DEF MarketOK

\* Debits and credits of free lots keep the invariant of a market.
LEMMA DebitCreditOK ==
  ASSUME NEW m, NEW now \in Nat, MarketOK(m, now),
         NEW t \in Trader, NEW lots \in Amounts
  PROVE  /\ MarketOK(Debit(m, t, lots), now)
         /\ MarketOK(Credit(m, t, lots), now)
         /\ Debit(m, t, lots).seq = m.seq
         /\ Debit(m, t, lots).registered = m.registered
         /\ Credit(m, t, lots).registered = m.registered
         /\ Debit(m, t, lots).book = m.book
<1>1. m \in Market
  BY Zenon DEF MarketOK
<1>2. Debit(m, t, lots) \in Market /\ Credit(m, t, lots) \in Market
  BY Zenon, <1>1, DebitCreditType
<1>3. /\ Debit(m, t, lots).book = m.book /\ Credit(m, t, lots).book = m.book
      /\ Debit(m, t, lots).seq = m.seq /\ Credit(m, t, lots).seq = m.seq
      /\ Debit(m, t, lots).registered = m.registered
      /\ Credit(m, t, lots).registered = m.registered
  BY Zenon, <1>1 DEF Debit, Credit, Market
<1>. QED  BY Zenon, <1>2, <1>3 DEF MarketOK

\* reduce_order_inner with its claim keeps the invariant of a market.
LEMMA ReduceAndClaimOK ==
  ASSUME NEW m, NEW now \in Nat, MarketOK(m, now),
         NEW side \in Side, NEW o \in m.book[side],
         NEW n \in Int, n <= o.size, NEW claim \in BOOLEAN
  PROVE  /\ MarketOK(ReduceAndClaim(m, side, o, n, claim).m, now)
         /\ ReduceAndClaim(m, side, o, n, claim).m.registered = m.registered
         /\ ReduceAndClaim(m, side, o, n, claim).out \in Amounts
<1>. DEFINE reduced == ReduceBy(m, side, o, n)
            r == ReduceAndClaim(m, side, o, n, claim)
<1>1. m \in Market /\ o.trader \in Trader
  BY DEF MarketOK, Market, Order, Book
<1>2. r.out \in Amounts
  BY Zenon, <1>1, ReduceAndClaimType
<1>3. MarketOK(reduced, now) /\ reduced.registered = m.registered
  BY Zenon, ReduceByOK
<1>4. r.m = Debit(reduced, o.trader, r.out)
  BY Zenon DEF ReduceAndClaim
<1>. HIDE DEF reduced, r
<1>5. MarketOK(r.m, now) /\ r.m.registered = m.registered
  BY <1>1, <1>2, <1>3, <1>4, DebitCreditOK
<1>. QED  BY Zenon, <1>2, <1>5 DEF r

\* get_or_register_trader keeps the invariant of a market as long as
\* there is a seat left.
LEMMA RegisterOK ==
  ASSUME NEW m, NEW now \in Nat, MarketOK(m, now),
         NEW t \in Trader, CanRegister(m, t)
  PROVE  /\ MarketOK(get_or_register_trader(m, t), now)
         /\ get_or_register_trader(m, t).seq = m.seq
         /\ get_or_register_trader(m, t).registered = m.registered \cup {t}
<1>. DEFINE n == get_or_register_trader(m, t)
<1>1. m \in Market
  BY Zenon DEF MarketOK
<1>2. n \in Market
  BY Zenon, <1>1, RegisterType
<1>3. /\ n.book = m.book /\ n.seq = m.seq
      /\ n.registered = m.registered \cup {t}
  BY Zenon, <1>1 DEF get_or_register_trader, Market
<1>4. IsFiniteSet(m.registered \cup {t})
      /\ Cardinality(m.registered \cup {t}) <= NumSeats
  <2>1. CASE t \in m.registered
    <3>1. m.registered \cup {t} = m.registered
      BY Zenon, <2>1
    <3>. QED  BY Zenon, <3>1 DEF MarketOK, SeatsOK
  <2>2. CASE t \notin m.registered
    <3>1. IsFiniteSet(m.registered) /\ Cardinality(m.registered) < NumSeats
      BY Zenon, <2>2 DEF MarketOK, SeatsOK, CanRegister
    <3>2. /\ IsFiniteSet(m.registered \cup {t})
          /\ Cardinality(m.registered \cup {t}) = Cardinality(m.registered) + 1
      BY Zenon, <2>2, <3>1, FS_AddElement
    <3>3. Cardinality(m.registered) \in Nat /\ NumSeats \in Nat
      BY <3>1, FS_CardinalityType, ConfigAssumption
    <3>. QED  BY <3>1, <3>2, <3>3
  <2>. QED  BY Zenon, <2>1, <2>2
<1>. HIDE DEF n
<1>5. MarketOK(n, now) /\ n.seq = m.seq /\ n.registered = m.registered \cup {t}
  BY Zenon, <1>2, <1>3, <1>4 DEF MarketOK, SeatsOK
<1>. QED  BY Zenon, <1>5 DEF n

\* evict_least_aggressive_order keeps the invariant of a market.
LEMMA MakeRoomOK ==
  ASSUME NEW m, NEW now \in Nat, MarketOK(m, now),
         NEW side \in Side, NEW price
  PROVE  /\ MarketOK(MakeRoom(m, side, price), now)
         /\ MakeRoom(m, side, price).seq = m.seq
         /\ MakeRoom(m, side, price).registered = m.registered
         /\ MakeRoom(m, side, price).book[Opposite(side)] = m.book[Opposite(side)]
<1>. DEFINE w == CHOOSE x \in Evictable(m, side, price) : TRUE
<1>1. m \in Market
  BY Zenon DEF MarketOK
<1>2. CASE Evictable(m, side, price) # {}
  <2>1. w \in m.book[side]
    BY Zenon, <1>2 DEF Evictable
  <2>2. w.size \in Int
    BY <1>1, <2>1 DEF Market, Order, Book
  <2>. HIDE DEF w
  <2>3. /\ MarketOK(RemoveOrder(m, side, w), now)
        /\ RemoveOrder(m, side, w).seq = m.seq
        /\ RemoveOrder(m, side, w).registered = m.registered
    BY <2>1, <2>2, ReduceByOK DEF RemoveOrder
  <2>4. RemoveOrder(m, side, w).book[Opposite(side)] = m.book[Opposite(side)]
    BY <1>1 DEF RemoveOrder, ReduceBy, TakeFrom, Market, Opposite, Side
  <2>. QED  BY Zenon, <2>3, <2>4 DEF MakeRoom, w
<1>3. CASE Evictable(m, side, price) = {}
  BY Zenon, <1>3 DEF MakeRoom
<1>. QED  BY Zenon, <1>2, <1>3

\* Posting an order that crosses no unexpired order keeps the invariant
\* of a market: its number is new and it stays outside the spread.
LEMMA PostOK ==
  ASSUME NEW m, NEW now \in Nat, MarketOK(m, now),
         NEW side \in Side, NEW t \in Trader, NEW price \in Nat \ {0},
         NEW n \in Nat \ {0}, NEW lvs \in Nat,
         m.seq < MaxSeq,
         \A x \in m.book[Opposite(side)] :
           ~ is_expired(x, now) => ~ Crosses(side, price, x.price)
  PROVE  /\ MarketOK(Post(m, side, t, price, n, lvs), now)
         /\ Post(m, side, t, price, n, lvs).registered = m.registered
         /\ Post(m, side, t, price, n, lvs).free[t][Pays(side)] \in Int
<1>. DEFINE o == [price |-> price, seq |-> StoredSeq(side, m.seq), trader |-> t,
                  size |-> n, lvs |-> lvs]
            lock == Lots(side, price, n)
            fromFree == Least(lock, m.free[t][Pays(side)])
            book == [m.book EXCEPT ![side] = @ \cup {o}]
            locked == AddLots(m.locked, t, Pays(side), lock)
            free == AddLots(m.free, t, Pays(side), - fromFree)
            posted == Post(m, side, t, price, n, lvs)
<1>1. /\ m \in Market /\ m.book \in Book /\ m.seq \in Nat \ {0}
      /\ m.free \in Balances
      /\ m.locked \in Balances
      /\ MaxSeq \in Nat \ {0}
  BY ConfigAssumption DEF MarketOK, Market
<1>2. StoredSeq(side, m.seq) \in Nat
  BY <1>1 DEF StoredSeq
<1>3. o \in Order
  BY Zenon, <1>2 DEF Order
<1>4. book \in Book
  BY Zenon, <1>1, <1>3 DEF Book
<1>5. lock \in Int /\ Pays(side) \in Asset
  BY LotsType DEF Pays, Asset
<1>6. lock \in Int /\ - fromFree \in Int
  BY <1>1, <1>5 DEF Least, Balances, Amounts
<1>7. /\ locked \in Balances
      /\ free \in Balances
  <2>. HIDE DEF lock, fromFree
  <2>. QED  BY Zenon, <1>1, <1>5, <1>6, AddLotsType
<1>8. posted = [m EXCEPT !.book = book, !.locked = locked, !.free = free,
                         !.seq = m.seq + 1]
  BY Zenon DEF Post
<1>9. BookOK(book, m.seq + 1, now)
  <2>0. BookOK(m.book, m.seq, now)
    BY Zenon DEF MarketOK
  <2>1. \A x \in book["Bid"] : 2 * MaxSeq + 1 - (m.seq + 1) < x.seq
    BY <1>1, <1>3, <2>0 DEF BookOK, StoredSeq, Side, Order, Book
  <2>2. \A x \in book["Ask"] : x.seq < m.seq + 1
    BY <1>1, <1>3, <2>0 DEF BookOK, StoredSeq, Side, Order, Book
  <2>3. \A x \in m.book[side] : x.seq # o.seq
    BY <1>1, <2>0 DEF BookOK, StoredSeq, Side, Order
  <2>4. \A s \in Side : \A x, y \in book[s] : x.seq = y.seq => x = y
    BY <1>1, <2>0, <2>3 DEF BookOK
  <2>5. Uncrossed(book, now)
    BY <1>1, <2>0, <1>3 DEF BookOK, Uncrossed, Crosses, Opposite, Side, Order, Book
  <2>6. m.seq + 1 <= MaxSeq
    BY <1>1
  <2>. QED  BY Zenon, <2>1, <2>2, <2>4, <2>5, <2>6 DEF BookOK
<1>. HIDE DEF o, lock, fromFree, book, locked, free, posted
<1>10. /\ posted \in Market /\ posted.book = book /\ posted.seq = m.seq + 1
       /\ posted.registered = m.registered
  <2>1. m.seq + 1 \in Nat \ {0}
    BY <1>1
  <2>2. posted.book = book /\ posted.seq = m.seq + 1
        /\ posted.registered = m.registered
    BY Zenon, <1>1, <1>8 DEF Market
  <2>3. posted \in Market
    BY Zenon, <2>1, <1>1, <1>4, <1>7, <1>8 DEF Market
  <2>. QED  BY Zenon, <2>2, <2>3
<1>11. posted.free[t][Pays(side)] \in Int
  BY <1>5, <1>10 DEF Market, Balances, Amounts
<1>12. MarketOK(posted, now)
  BY Zenon, <1>9, <1>10 DEF MarketOK
<1>. QED  BY Zenon, <1>10, <1>11, <1>12 DEF posted

----------------------------------------------------------------------------
(* The inductive invariant holds at the start.                             *)

\* A fresh market satisfies the inductive invariant.
LEMMA InitOK == Init => IndInv
<1>. SUFFICES ASSUME Init PROVE IndInv
  BY Zenon
<1>. USE DEF Init
<1>1. NoLots \in Amounts
  BY DEF NoLots, Amounts
<1>2. market \in Market
  <2>1. [t \in Trader |-> NoLots] \in Balances
    BY Zenon, <1>1 DEF Balances
  <2>2. [s \in Side |-> {}] \in Book
    BY Zenon DEF Book
  <2>3. EmptyMarket \in Market
    BY <2>1, <2>2 DEF EmptyMarket, Market
  <2>. DEFINE registered == IF InitSeat = "Approved" THEN Trader ELSE {}
  <2>4. registered \in SUBSET Trader /\ market = [EmptyMarket EXCEPT !.registered = registered]
    BY Zenon
  <2>. HIDE DEF registered
  <2>. QED  BY Zenon, <2>3, <2>4 DEF Market
<1>3. BookOK(market.book, market.seq, slot)
  BY ConfigAssumption DEF EmptyMarket, BookOK, Uncrossed, Side
<1>4. SeatsOK(market.registered)
  <2>1. CASE InitSeat = "Approved"
    BY Zenon, <2>1, InputAssumption DEF SeatsOK, EmptyMarket
  <2>2. CASE InitSeat # "Approved"
    <3>1. IsFiniteSet({}) /\ Cardinality({}) = 0
      BY Zenon, FS_EmptySet
    <3>. QED  BY <2>2, <3>1, ConfigAssumption DEF SeatsOK, EmptyMarket
  <2>. QED  BY Zenon, <2>1, <2>2
<1>5. TypeOK
  <2>1. wallet \in Balances /\ seat \in [Trader -> SeatStatus]
        /\ status \in MarketStatus
    BY InputAssumption DEF SeatStatus, Balances, Amounts
  <2>. QED  BY <1>1, <1>2, <2>1 DEF TypeOK
<1>. QED  BY Zenon, <1>2, <1>3, <1>4, <1>5 DEF IndInv, MarketOK, NoTxn

----------------------------------------------------------------------------
(* Steps of an order.                                                      *)

\* What is known while an order is in progress.
LEMMA OrderFacts ==
  ASSUME IndInv, txn.phase \in {"cross", "match", "place"}
  PROVE  /\ txn \in OrderTxn /\ txn # NoTxn
         /\ MarketOK(txn.m, slot) /\ OrderOK
         /\ market.registered \subseteq txn.m.registered
         /\ slot \in Nat
         /\ txn.p.side \in Side /\ Maker \in Side
         /\ Resting \subseteq Order
<1>1. txn \in OrderTxn /\ txn # NoTxn /\ slot \in Nat
  BY DEF IndInv, TypeOK, NoTxn, OrderTxn, CancelTxn
<1>2. /\ MarketOK(txn.m, slot) /\ OrderOK
      /\ market.registered \subseteq txn.m.registered
  BY Zenon, <1>1 DEF IndInv
<1>3. txn.p.side \in Side /\ txn.m \in Market
  BY Zenon, <1>1 DEF OrderTxn, Packet
<1>4. Maker \in Side
  BY Zenon DEF Maker, Opposite, Side
<1>. QED  BY Zenon, <1>1, <1>2, <1>3, <1>4 DEF Resting, Market, Book

\* A step that only moves the order on.
LEMMA OrderContinues ==
  ASSUME IndInv,
         UNCHANGED <<market, status, seat, vault, wallet, treasury, slot>>,
         txn' \in OrderTxn, MarketOK(txn'.m, slot), OrderOK',
         market.registered \subseteq txn'.m.registered
  PROVE  IndInv'
BY Zenon DEF IndInv, TypeOK

\* A step that ends the transaction without effect.
LEMMA OrderDropped ==
  ASSUME IndInv,
         UNCHANGED <<market, status, seat, vault, wallet, treasury, slot>>,
         txn' = NoTxn
  PROVE  IndInv'
BY Zenon DEF IndInv, TypeOK, NoTxn

\* Removing an order from the working copy.
LEMMA OrderRemoves ==
  ASSUME IndInv, txn.phase \in {"cross", "match"}, NEW o \in Resting,
         NEW n \in Int, n <= o.size,
         NEW base \in Int, NEW adj \in Int, NEW limit \in Int,
         NEW terminate \in BOOLEAN,
         UNCHANGED <<market, status, seat, vault, wallet, treasury, slot>>,
         txn' = [txn EXCEPT !.m = ReduceBy(txn.m, Maker, o, n),
                            !.base = base, !.adj = adj, !.limit = limit,
                            !.terminate = terminate]
  PROVE  IndInv'
<1>1. /\ txn \in OrderTxn /\ MarketOK(txn.m, slot) /\ OrderOK
      /\ market.registered \subseteq txn.m.registered
      /\ slot \in Nat /\ Maker \in Side
  BY Zenon, OrderFacts
<1>. DEFINE m == ReduceBy(txn.m, Maker, o, n)
<1>2. /\ MarketOK(m, slot) /\ m.seq = txn.m.seq
      /\ m.registered = txn.m.registered
  BY <1>1, ReduceByOK DEF Resting
<1>. HIDE DEF m
<1>3. txn' \in OrderTxn /\ txn'.m = m /\ txn'.phase = txn.phase /\ txn'.p = txn.p
  BY Zenon, <1>1, <1>2 DEF OrderTxn, MarketOK, m
<1>4. OrderOK'
  BY Zenon, <1>1, <1>2, <1>3 DEF OrderOK
<1>. QED  BY Zenon, <1>1, <1>2, <1>3, <1>4, OrderContinues

\* check_for_cross: an expired order goes, a live one moves the price just
\* outside the spread.
LEMMA CrossOK ==
  ASSUME IndInv, CrossExpiredOrder \/ CrossLiveOrder \/ CrossNothing
  PROVE  IndInv'
<1>0. /\ txn.phase = "cross"
      /\ UNCHANGED <<market, status, seat, vault, wallet, treasury, slot>>
  BY Zenon DEF CrossExpiredOrder, CrossLiveOrder, CrossNothing, Working
<1>1. /\ txn \in OrderTxn /\ txn # NoTxn
      /\ MarketOK(txn.m, slot) /\ OrderOK
      /\ market.registered \subseteq txn.m.registered
      /\ slot \in Nat /\ txn.p.side \in Side /\ Maker \in Side
      /\ Resting \subseteq Order
  BY Zenon, <1>0, OrderFacts
<1>2. CASE CrossExpiredOrder
  <2>1. PICK o \in Resting :
          txn' = [txn EXCEPT !.m = RemoveOrder(txn.m, Maker, o)]
    BY Zenon, <1>2 DEF CrossExpiredOrder
  <2>2. o.size \in Int
    BY <1>1 DEF Order
  <2>3. txn' = [txn EXCEPT !.m = ReduceBy(txn.m, Maker, o, o.size),
                           !.base = txn.base, !.adj = txn.adj,
                           !.limit = txn.limit, !.terminate = txn.terminate]
    BY Zenon, <1>1, <2>1 DEF RemoveOrder, OrderTxn
  <2>4. /\ txn.base \in Int /\ txn.adj \in Int /\ txn.limit \in Int
        /\ txn.terminate \in BOOLEAN /\ o.size <= o.size
    BY <1>1, <2>2 DEF OrderTxn
  <2>. QED  BY Zenon, <1>0, <2>2, <2>3, <2>4, OrderRemoves
<1>3. CASE CrossLiveOrder
  <2>1. PICK o \in Resting :
          /\ Meets(o) /\ ~ is_expired(o, slot)
          /\ txn' = IF txn.p.reject \/ (txn.p.side = "Bid" /\ o.price <= 1)
                    THEN NoTxn
                    ELSE [txn EXCEPT !.phase = "place",
                           !.p = [txn.p EXCEPT !.price = IF txn.p.side = "Bid"
                                                         THEN o.price - 1
                                                         ELSE o.price + 1]]
    BY Zenon, <1>3 DEF CrossLiveOrder
  <2>2. CASE txn' = NoTxn
    BY Zenon, <1>0, <2>2, OrderDropped
  <2>3. CASE txn' # NoTxn
    <3>. DEFINE price == IF txn.p.side = "Bid" THEN o.price - 1 ELSE o.price + 1
    <3>1. price \in Nat \ {0}
      BY <1>1, <2>1, <2>3 DEF Order, Side
    <3>. HIDE DEF price
    <3>2. txn' = [txn EXCEPT !.phase = "place",
                             !.p = [txn.p EXCEPT !.price = price]]
      BY Zenon, <2>1, <2>3 DEF price
    <3>3. txn.p \in Packet /\ [txn.p EXCEPT !.price = price] \in Packet
      BY Zenon, <1>1, <3>1 DEF OrderTxn, Packet
    <3>4. /\ txn' \in OrderTxn /\ txn'.m = txn.m /\ txn'.p.price = price
          /\ txn'.phase = "place"
          /\ txn'.p.side = txn.p.side /\ txn'.p.type = txn.p.type
      BY Zenon, <1>1, <3>1, <3>2, <3>3 DEF OrderTxn, Packet
    <3>5. \A x \in Resting : ~ Crosses(txn.p.side, price, x.price)
      <4>1. TAKE x \in Resting
      <4>2. x.price \in Nat /\ o.price \in Nat /\ o.seq \in Nat
        BY Zenon, <1>1 DEF Order
      <4>3. x = o \/ Precedes(o, x)
        BY Zenon, <2>1 DEF Meets, IsBest
      <4>4. BookOK(txn.m.book, txn.m.seq, slot) /\ txn.m.seq \in Nat \ {0}
            /\ MaxSeq \in Nat
        <5>1. BookOK(txn.m.book, txn.m.seq, slot) /\ txn.m \in Market
          BY Zenon, <1>1 DEF MarketOK
        <5>2. txn.m.seq \in Nat \ {0}
          BY Zenon, <5>1 DEF Market
        <5>. QED  BY <5>1, <5>2, ConfigAssumption
      <4>5. CASE txn.p.side = "Bid"
        <5>1. o.seq < txn.m.seq
          BY Zenon, <4>4, <4>5 DEF BookOK, Resting, Maker, Opposite
        <5>2. o.price <= x.price
          BY <4>2, <4>3, <4>4, <5>1 DEF BookOK, Precedes, from_order_sequence_number
        <5>. QED  BY <4>2, <4>5, <5>2 DEF Crosses, price
      <4>6. CASE txn.p.side = "Ask"
        <5>1. 2 * MaxSeq + 1 - txn.m.seq < o.seq
          BY Zenon, <4>4, <4>6 DEF BookOK, Resting, Maker, Opposite
        <5>2. o.price >= x.price
          BY <4>2, <4>3, <4>4, <5>1 DEF BookOK, Precedes, from_order_sequence_number
        <5>. QED  BY <4>2, <4>6, <5>2 DEF Crosses, price
      <4>. QED  BY Zenon, <1>1, <4>5, <4>6 DEF Side
    <3>6. OrderOK'
      BY Zenon, <1>0, <1>1, <3>1, <3>4, <3>5 DEF OrderOK, Resting, Maker
    <3>. QED  BY Zenon, <1>0, <1>1, <3>4, <3>6, OrderContinues
  <2>. QED  BY Zenon, <2>2, <2>3
<1>4. CASE CrossNothing
  <2>1. txn' = [txn EXCEPT !.phase = "place"] /\ NothingMet
    BY Zenon, <1>4 DEF CrossNothing
  <2>2. /\ txn' \in OrderTxn /\ txn'.m = txn.m /\ txn'.p = txn.p
        /\ txn'.phase = "place"
    BY Zenon, <1>1, <2>1 DEF OrderTxn
  <2>3. OrderOK'
    BY Zenon, <1>0, <1>1, <2>1, <2>2 DEF OrderOK, NothingMet, Resting, Maker
  <2>. QED  BY Zenon, <1>0, <1>1, <2>2, <2>3, OrderContinues
<1>. QED  BY Zenon, <1>2, <1>3, <1>4

\* What the budgets pay for is a natural number of lots.
LEMMA AffordableType ==
  ASSUME IndInv, txn.phase = "match", NEW o \in Resting
  PROVE  /\ Affordable(o) \in Int
         /\ AdjustedQuote(o.price, o.size) \in Int
         /\ o.size > txn.base \/ AdjustedQuote(o.price, o.size) > txn.adj
              => Affordable(o) < o.size
<1>1. txn \in OrderTxn /\ o \in Order
  BY Zenon, OrderFacts
<1>2. /\ txn.base \in Int /\ txn.adj \in Int
      /\ o.price \in Nat \ {0} /\ o.size \in Nat \ {0} /\ TickSize \in Nat \ {0}
  BY <1>1, ConfigAssumption DEF OrderTxn, Order
<1>. DEFINE d == o.price * TickSize
<1>3. d \in Nat \ {0}
  BY <1>2
<1>4. AdjustedQuote(o.price, o.size) = d * o.size
  BY Zenon DEF AdjustedQuote
<1>5. Affordable(o) = Least(txn.base, txn.adj \div d)
  BY Zenon DEF Affordable
<1>. HIDE DEF d
<1>6. txn.adj \div d \in Int /\ d * o.size \in Int
  BY <1>2, <1>3
<1>7. d * o.size > txn.adj => txn.adj \div d < o.size
  BY Zenon, <1>2, <1>3, QuotientBelow
<1>. QED  BY <1>2, <1>4, <1>5, <1>6, <1>7 DEF Least

\* match_order: every iteration leaves a well-formed market.
LEMMA MatchOK ==
  ASSUME IndInv,
         \/ MatchExpiredOrder \/ SelfTradeAbort \/ SelfTradeCancelProvide
         \/ SelfTradeDecrementTake \/ MatchOrder \/ MatchDone
  PROVE  IndInv'
<1>0. /\ txn.phase = "match"
      /\ UNCHANGED <<market, status, seat, vault, wallet, treasury, slot>>
  BY Zenon DEF MatchExpiredOrder, SelfTradeAbort, SelfTradeCancelProvide,
         SelfTradeDecrementTake, MatchOrder, MatchDone, Working
<1>1. /\ txn \in OrderTxn /\ txn # NoTxn
      /\ MarketOK(txn.m, slot) /\ OrderOK
      /\ market.registered \subseteq txn.m.registered
      /\ slot \in Nat /\ txn.p.side \in Side /\ Maker \in Side
      /\ Resting \subseteq Order
  BY Zenon, <1>0, OrderFacts
<1>2. /\ txn.base \in Int /\ txn.adj \in Int /\ txn.limit \in Int
      /\ txn.limit - 1 \in Int /\ txn.terminate \in BOOLEAN
      /\ txn.matchedBase \in Int /\ txn.matchedAdj \in Int
  BY <1>1 DEF OrderTxn
<1>3. CASE MatchExpiredOrder \/ SelfTradeCancelProvide
  <2>1. PICK o \in Resting :
          txn' = [txn EXCEPT !.m = RemoveOrder(txn.m, Maker, o), !.limit = @ - 1]
    BY Zenon, <1>3 DEF MatchExpiredOrder, SelfTradeCancelProvide
  <2>2. o.size \in Int /\ o.size <= o.size
    BY <1>1 DEF Order
  <2>3. txn' = [txn EXCEPT !.m = ReduceBy(txn.m, Maker, o, o.size),
                           !.base = txn.base, !.adj = txn.adj,
                           !.limit = txn.limit - 1, !.terminate = txn.terminate]
    BY Zenon, <1>1, <2>1 DEF RemoveOrder, OrderTxn
  <2>. QED  BY Zenon, <1>0, <1>2, <2>2, <2>3, OrderRemoves
<1>4. CASE SelfTradeAbort
  BY Zenon, <1>0, <1>4, OrderDropped DEF SelfTradeAbort
<1>5. CASE SelfTradeDecrementTake
  <2>. DEFINE removed(o) == Least(Affordable(o), o.size)
  <2>1. PICK o \in Resting :
          txn' = [txn EXCEPT
                    !.m = ReduceBy(txn.m, Maker, o, removed(o)),
                    !.base = Largest(@ - removed(o), 0),
                    !.adj = Largest(@ - AdjustedQuote(o.price, removed(o)), 0),
                    !.limit = @ - 1,
                    !.terminate = removed(o) < o.size]
    BY Zenon, <1>5 DEF SelfTradeDecrementTake
  <2>2. o.size \in Int /\ o.price \in Nat /\ TickSize \in Nat
    BY <1>1, ConfigAssumption DEF Order
  <2>3. removed(o) \in Int /\ removed(o) <= o.size
    BY <1>0, <2>2, AffordableType DEF Least
  <2>. DEFINE n == removed(o)
              base == Largest(txn.base - n, 0)
              adj == Largest(txn.adj - AdjustedQuote(o.price, n), 0)
  <2>4. n \in Int /\ n <= o.size
    BY Zenon, <2>3
  <2>5. txn' = [txn EXCEPT !.m = ReduceBy(txn.m, Maker, o, n), !.base = base,
                           !.adj = adj, !.limit = txn.limit - 1,
                           !.terminate = n < o.size]
    BY Zenon, <1>1, <2>1 DEF OrderTxn
  <2>. HIDE DEF removed, n
  <2>6. base \in Int /\ adj \in Int /\ (n < o.size) \in BOOLEAN
    BY <1>2, <2>2, <2>4 DEF Largest, AdjustedQuote
  <2>. HIDE DEF base, adj
  <2>. QED  BY Zenon, <1>0, <1>2, <2>4, <2>5, <2>6, OrderRemoves
<1>6. CASE MatchOrder
  <2>. DEFINE whole(o) == /\ o.size <= txn.base
                          /\ AdjustedQuote(o.price, o.size) <= txn.adj
              taken(o) == IF whole(o) THEN o.size ELSE Affordable(o)
  <2>1. PICK o \in Resting :
          txn' = [txn EXCEPT
                    !.m = Fill(txn.m, txn.p.side, o, taken(o)),
                    !.base = @ - taken(o),
                    !.adj = @ - AdjustedQuote(o.price, taken(o)),
                    !.limit = @ - 1,
                    !.matchedBase = @ + taken(o),
                    !.matchedAdj = @ + AdjustedQuote(o.price, taken(o)),
                    !.terminate = ~ whole(o)]
    BY Zenon, <1>6 DEF MatchOrder
  <2>2. /\ o.size \in Int /\ o.price \in Nat /\ TickSize \in Nat
        /\ o \in txn.m.book[Opposite(txn.p.side)]
    <3>1. o.size \in Int /\ o.price \in Nat
      BY <1>1 DEF Order
    <3>2. o \in txn.m.book[Opposite(txn.p.side)]
      BY Zenon DEF Resting, Maker
    <3>. QED  BY <3>1, <3>2, ConfigAssumption
  <2>. DEFINE n == taken(o)
              adj == AdjustedQuote(o.price, n)
              m == Fill(txn.m, txn.p.side, o, n)
              w == whole(o)
  <2>3. n \in Int /\ n <= o.size /\ w \in BOOLEAN
    BY <1>0, <1>2, <2>2, AffordableType
  <2>4. txn' = [txn EXCEPT !.m = m, !.base = @ - n, !.adj = @ - adj,
                           !.limit = @ - 1, !.matchedBase = @ + n,
                           !.matchedAdj = @ + adj, !.terminate = ~ w]
    BY Zenon, <2>1
  <2>. HIDE DEF n, w
  <2>5. adj \in Int
    BY <2>2, <2>3 DEF AdjustedQuote
  <2>6. /\ MarketOK(m, slot) /\ m.seq = txn.m.seq
        /\ m.registered = txn.m.registered
    <3>1. MarketOK(txn.m, slot) /\ slot \in Nat /\ txn.p.side \in Side
      BY Zenon, <1>1
    <3>2. o \in txn.m.book[Opposite(txn.p.side)] /\ n \in Int /\ n <= o.size
      BY Zenon, <2>2, <2>3
    <3>. HIDE <1>1, <2>2, <2>3
    <3>. QED  BY ZenonT(30), <3>1, <3>2, FillOK
  <2>. HIDE DEF adj, m
  <2>7. m \in Market /\ (~ w) \in BOOLEAN
    BY Zenon, <2>3, <2>6 DEF MarketOK
  <2>8. /\ txn' \in OrderTxn /\ txn'.m = m /\ txn'.phase = txn.phase
        /\ txn'.p = txn.p
    <3>. DEFINE base == txn.base - n
                budget == txn.adj - adj
                limit == txn.limit - 1
                matched == txn.matchedBase + n
                quote == txn.matchedAdj + adj
                stop == ~ w
    <3>1. /\ base \in Int /\ budget \in Int /\ limit \in Int
          /\ matched \in Int /\ quote \in Int
      BY <1>2, <2>3, <2>5
    <3>2. txn' = [txn EXCEPT !.m = m, !.base = base, !.adj = budget,
                             !.limit = limit, !.matchedBase = matched,
                             !.matchedAdj = quote, !.terminate = stop]
      BY Zenon, <2>4
    <3>3. stop \in BOOLEAN
      BY Zenon, <2>7
    <3>. HIDE DEF base, budget, limit, matched, quote, stop
    <3>. QED  BY Zenon, <1>1, <2>7, <3>1, <3>2, <3>3 DEF OrderTxn
  <2>9. OrderOK'
    BY Zenon, <1>0, <1>1, <2>6, <2>8 DEF OrderOK
  <2>. QED  BY Zenon, <1>0, <1>1, <2>6, <2>8, <2>9, OrderContinues
<1>7. CASE MatchDone
  <2>. DEFINE m == [txn.m EXCEPT !.unclaimed = @ + FeeOn(txn.matchedAdj)]
  <2>1. txn' = [txn EXCEPT !.phase = "place", !.m = m]
    BY Zenon, <1>7 DEF MatchDone
  <2>2. FeeOn(txn.matchedAdj) \in Int
    BY Zenon, <1>2, FeeOnType
  <2>3. txn.m \in Market
    BY Zenon, <1>1 DEF MarketOK
  <2>4. m \in Market /\ m.book = txn.m.book /\ m.seq = txn.m.seq
        /\ m.registered = txn.m.registered
    BY <2>2, <2>3 DEF Market
  <2>. HIDE DEF m
  <2>5. MarketOK(m, slot)
    BY Zenon, <1>1, <2>4 DEF MarketOK
  <2>6. txn' \in OrderTxn /\ txn'.m = m /\ txn'.p = txn.p /\ txn'.phase = "place"
    BY Zenon, <1>1, <2>1, <2>4 DEF OrderTxn
  <2>7. txn.p.type # "PostOnly"
    BY Zenon, <1>0, <1>1 DEF OrderOK
  <2>8. OrderOK'
    BY Zenon, <1>1, <2>4, <2>6, <2>7 DEF OrderOK
  <2>. QED  BY Zenon, <1>0, <1>1, <2>4, <2>5, <2>6, <2>8, OrderContinues
<1>. QED  BY Zenon, <1>3, <1>4, <1>5, <1>6, <1>7

----------------------------------------------------------------------------
(* The start and the end of an order.                                      *)

\* The quote budget of an immediate-or-cancel order is a number.
LEMMA BudgetType ==
  ASSUME NEW p \in Packet, ~ DividesByZero(p)
  PROVE  adjusted_quote_lot_budget(p) \in Int
<1>1. /\ MaxU64 \in Nat \ {0} /\ BaseLotsPerBaseUnit \in Nat
      /\ p.quote \in Nat /\ p.side \in Side
  BY ConfigAssumption DEF Packet
<1>2. compute_fee(MaxU64) \in Nat /\ compute_fee(MaxU64) <= MaxU64
  BY Zenon, <1>1, FeeBound
<1>. DEFINE q == p.quote * BaseLotsPerBaseUnit * MaxU64
            up == compute_fee(MaxU64) + MaxU64
            down == MaxU64 - compute_fee(MaxU64)
<1>3. q \in Nat /\ up \in Nat \ {0}
  BY <1>1, <1>2
<1>4. q \div up \in Int
  BY <1>3
<1>5. CASE p.type # "IOC" \/ p.quote = 0
  BY <1>1, <1>5 DEF adjusted_quote_lot_budget
<1>6. CASE ~ (p.type # "IOC" \/ p.quote = 0) /\ p.side = "Bid"
  BY <1>1, <1>4, <1>6 DEF adjusted_quote_lot_budget, BudgetForBuys, Least
<1>7. CASE ~ (p.type # "IOC" \/ p.quote = 0) /\ p.side = "Ask"
  <2>1. down \in Nat \ {0}
    BY <1>1, <1>2, <1>7 DEF DividesByZero
  <2>2. q \div down \in Int
    BY <1>3, <2>1
  <2>. QED  BY <1>1, <1>7, <2>2 DEF adjusted_quote_lot_budget, BudgetForSells, Least
<1>. QED  BY Zenon, <1>1, <1>5, <1>6, <1>7 DEF Side

\* The facts of an idle program.
LEMMA IdleFacts ==
  ASSUME IndInv, Idle
  PROVE  /\ market \in Market /\ MarketOK(market, slot)
         /\ slot \in Nat /\ txn = NoTxn /\ txn.phase = "idle"
         /\ seat \in [Trader -> SeatStatus]
BY Zenon DEF IndInv, TypeOK, Idle, NoTxn

\* The last step of an instruction: a well-formed market is written back.
LEMMA Committed ==
  ASSUME IndInv, MarketOK(market', slot),
         vault' \in Amounts, wallet' \in Balances,
         txn' = NoTxn, UNCHANGED <<status, seat, treasury, slot>>
  PROVE  IndInv'
<1>1. market' \in Market /\ txn'.phase = "idle"
  BY Zenon DEF MarketOK, NoTxn
<1>2. MarketOK(market, slot)'
  BY Zenon DEF MarketOK, BookOK, SeatsOK, Uncrossed, is_expired
<1>. QED  BY Zenon, <1>1, <1>2 DEF IndInv, TypeOK

\* NewOrder: the packet that starts a transaction has a price and budgets.
LEMMA NewOrderOK ==
  ASSUME IndInv, NEW t \in Trader, NEW p \in Packets, NewOrder(t, p)
  PROVE  IndInv' /\ market.registered \subseteq market'.registered
<1>. DEFINE m == IF p.type = "IOC" THEN market ELSE get_or_register_trader(market, t)
<1>1. /\ Idle /\ ValidPacket(p) /\ ~ DividesByZero(p)
      /\ p.type # "IOC" => CanRegister(market, t)
      /\ UNCHANGED <<status, seat, vault, wallet, treasury, slot>>
      /\ \/ market' = m /\ UNCHANGED txn
         \/ StartOrder(t, p, m) /\ UNCHANGED market
  BY Zenon DEF NewOrder
<1>2. /\ MarketOK(market, slot) /\ slot \in Nat
      /\ txn = NoTxn /\ txn.phase = "idle"
  BY Zenon, <1>1, IdleFacts
<1>3. /\ MarketOK(m, slot) /\ m.seq = market.seq
      /\ market.registered \subseteq m.registered
  BY <1>1, <1>2, RegisterOK
<1>. HIDE DEF m
<1>4. CASE market' = m /\ UNCHANGED txn
  <2>1. m \in Market
    BY Zenon, <1>3 DEF MarketOK
  <2>. QED  BY Zenon, <1>1, <1>2, <1>3, <1>4, <2>1 DEF IndInv, TypeOK
<1>5. CASE StartOrder(t, p, m) /\ UNCHANGED market
  <2>1. p \in Packet
    BY Zenon, InputAssumption
  <2>. DEFINE q == [p EXCEPT !.price = Price(p)]
              base == base_lot_budget(p)
              adj == adjusted_quote_lot_budget(p)
              phase == IF p.type = "PostOnly" THEN "cross" ELSE "match"
  <2>2. Price(p) \in Nat /\ (p.type # "IOC" => Price(p) # 0)
    BY <1>1, <2>1 DEF Price, Largest, ValidPacket, Packet, Side
  <2>3. q \in Packet /\ q.price = Price(p) /\ q.type = p.type /\ p.limit \in Int
    BY <2>1, <2>2 DEF Packet
  <2>4. base \in Int
    BY <2>1, ConfigAssumption DEF base_lot_budget, Packet
  <2>5. adj \in Int
    BY Zenon, <1>1, <2>1, BudgetType
  <2>6. txn' = [phase |-> phase, who |-> t, p |-> q, m |-> m, base |-> base,
                adj |-> adj, limit |-> p.limit, terminate |-> FALSE,
                matchedBase |-> 0, matchedAdj |-> 0]
    BY Zenon, <1>5 DEF StartOrder
  <2>7. /\ phase \in {"cross", "match", "place"} /\ phase # "place"
        /\ phase = "match" => p.type # "PostOnly"
    BY Zenon
  <2>8. m \in Market
    BY Zenon, <1>3 DEF MarketOK
  <2>. HIDE DEF q, base, adj, phase
  <2>9. /\ txn' \in OrderTxn /\ txn'.m = m /\ txn'.p = q /\ txn'.phase = phase
    <3>1. q \in Packet /\ p.limit \in Int /\ 0 \in Int
      BY <2>3
    <3>2. txn' \in OrderTxn
      BY Zenon, <2>4, <2>5, <2>6, <2>7, <2>8, <3>1 DEF OrderTxn
    <3>3. txn'.m = m /\ txn'.p = q /\ txn'.phase = phase
      BY Zenon, <2>6
    <3>. QED  BY Zenon, <3>2, <3>3
  <2>10. m.seq < MaxSeq
    <3>1. market.seq \in Nat /\ MaxSeq \in Nat
      <4>1. market \in Market
        BY Zenon, <1>2 DEF MarketOK
      <4>. QED  BY <4>1, ConfigAssumption DEF Market
    <3>2. market.seq <= MaxSeq
      <4>1. BookOK(market.book, market.seq, slot)
        BY Zenon, <1>2 DEF MarketOK
      <4>. QED  BY Zenon, <4>1 DEF BookOK
    <3>. QED  BY <1>1, <1>3, <3>1, <3>2 DEF ValidPacket
  <2>11. OrderOK'
    BY Zenon, <2>2, <2>3, <2>7, <2>9, <2>10 DEF OrderOK
  <2>. QED  BY Zenon, <1>1, <1>3, <1>5, <2>9, <2>11, OrderContinues
<1>. QED  BY Zenon, <1>1, <1>4, <1>5

\* PlaceOrder: the order that is posted crosses no unexpired order, because
\* match_order or check_for_cross has seen to it.
LEMMA PostsUncrossed ==
  ASSUME IndInv, txn.phase = "place", Posts
  PROVE  /\ RestingSize \in Nat \ {0} /\ txn.p.price \in Nat \ {0}
         /\ \A o \in Resting :
              ~ is_expired(o, slot) => ~ Crosses(txn.p.side, txn.p.price, o.price)
<1>1. txn \in OrderTxn /\ OrderOK
  BY Zenon, OrderFacts
<1>2. txn.p \in Packet /\ txn.base \in Int
  BY Zenon, <1>1 DEF OrderTxn
<1>3. RestingSize \in Nat \ {0} /\ txn.p.price \in Nat \ {0}
  BY <1>1, <1>2 DEF RestingSize, Posts, OrderOK, Packet
<1>4. CASE txn.p.type = "PostOnly"
  BY Zenon, <1>1, <1>3, <1>4 DEF OrderOK
<1>5. CASE txn.p.type # "PostOnly"
  BY Zenon, <1>3, <1>5 DEF Posts, limit_order_crosses
<1>. QED  BY Zenon, <1>4, <1>5

\* The end of place_order_inner, with its transfers, keeps the invariant.
LEMMA PlaceOrderOK ==
  ASSUME IndInv, PlaceOrder
  PROVE  IndInv' /\ market.registered \subseteq market'.registered
<1>1. txn.phase = "place"
  BY Zenon DEF PlaceOrder
<1>2. /\ txn \in OrderTxn /\ MarketOK(txn.m, slot) /\ OrderOK
      /\ market.registered \subseteq txn.m.registered
      /\ slot \in Nat /\ txn.p.side \in Side
  BY Zenon, <1>1, OrderFacts
<1>3. /\ txn.who \in Trader /\ txn.p \in Packet /\ txn.m \in Market
      /\ txn.matchedBase \in Int /\ txn.matchedAdj \in Int
      /\ txn.p.lvs \in Nat /\ txn.p.price \in Nat /\ txn.m.seq < MaxSeq
  BY Zenon, <1>2 DEF OrderTxn, Packet, OrderOK
<1>4. vault \in Amounts /\ wallet \in Balances
  BY Zenon DEF IndInv, TypeOK
<1>. DEFINE t == txn.who
            side == txn.p.side
            pay == Pays(side)
            get == Gets(side)
            room == MakeRoom(txn.m, side, txn.p.price)
            lock == IF Posts THEN Lots(side, txn.p.price, RestingSize) ELSE 0
            posted == IF Posts
                      THEN Post(room, side, t, txn.p.price, RestingSize, txn.p.lvs)
                      ELSE txn.m
            usedForPost == (IF Posts THEN room ELSE txn.m).free[t][pay]
                             - posted.free[t][pay]
            used == IF t \in posted.registered
                    THEN Least(posted.free[t][pay], LotsIn) ELSE 0
            paid == Debit(posted, t, [NoLots EXCEPT ![pay] = used])
            deposit == [NoLots EXCEPT ![pay] = LotsIn + lock - usedForPost - used]
            out == [NoLots EXCEPT ![get] = LotsOut]
<1>5. pay \in Asset /\ get \in Asset
  BY Zenon DEF Pays, Gets, Asset
<1>6. MarketOK(room, slot) /\ room.seq = txn.m.seq
      /\ room.registered = txn.m.registered
      /\ room.book[Opposite(side)] = txn.m.book[Opposite(side)]
  BY <1>2, MakeRoomOK
<1>7. room \in Market
  BY Zenon, <1>6 DEF MarketOK
<1>8. MarketOK(posted, slot) /\ posted.registered = txn.m.registered
  <2>1. CASE Posts
    <3>1. /\ RestingSize \in Nat \ {0} /\ txn.p.price \in Nat \ {0}
          /\ \A o \in room.book[Opposite(side)] :
               ~ is_expired(o, slot) => ~ Crosses(side, txn.p.price, o.price)
      BY Zenon, <1>1, <1>6, <2>1, PostsUncrossed DEF Resting, Maker
    <3>2. room.seq < MaxSeq
      BY Zenon, <1>3, <1>6
    <3>. DEFINE after == Post(room, side, t, txn.p.price, RestingSize, txn.p.lvs)
    <3>3. MarketOK(after, slot) /\ after.registered = room.registered
      BY <1>2, <1>3, <1>6, <3>1, <3>2, PostOK
    <3>. QED  BY Zenon, <1>6, <2>1, <3>3
  <2>. QED  BY Zenon, <1>2, <2>1
<1>9. posted \in Market
  BY Zenon, <1>8 DEF MarketOK
<1>10. LotsIn \in Int /\ LotsOut \in Int
  <2>1. FeeOn(txn.matchedAdj) \in Int
    BY Zenon, <1>3, FeeOnType
  <2>2. MatchedQuote \in Int
    BY <1>3, <2>1, ConfigAssumption DEF MatchedQuote, RoundUp, RoundDown
  <2>. QED  BY Zenon, <1>3, <2>2 DEF LotsIn, LotsOut
<1>11. lock \in Int
  <2>1. CASE Posts
    <3>1. RestingSize \in Int
      BY <1>1, <2>1, PostsUncrossed
    <3>. QED  BY <1>2, <1>3, <3>1, LotsType
  <2>. QED  BY <2>1
<1>. HIDE DEF lock, posted, room
<1>12. /\ posted.free[t][pay] \in Int /\ room.free[t][pay] \in Int
       /\ txn.m.free[t][pay] \in Int
  BY <1>3, <1>5, <1>7, <1>9 DEF Market, Balances, Amounts
<1>13. used \in Int /\ usedForPost \in Int
  BY <1>10, <1>12 DEF Least
<1>. HIDE DEF used, usedForPost
<1>14. /\ [NoLots EXCEPT ![pay] = used] \in Amounts
       /\ deposit \in Amounts /\ out \in Amounts
  BY <1>5, <1>10, <1>11, <1>13 DEF NoLots, Amounts
<1>15. MarketOK(paid, slot) /\ paid.registered = txn.m.registered
  <2>. DEFINE debit == [NoLots EXCEPT ![pay] = used]
  <2>1. MarketOK(posted, slot) /\ slot \in Nat /\ t \in Trader /\ debit \in Amounts
    BY Zenon, <1>2, <1>3, <1>8, <1>14
  <2>. HIDE DEF debit
  <2>2. MarketOK(Debit(posted, t, debit), slot)
    BY Zenon, <2>1, DebitCreditOK
  <2>3. Debit(posted, t, debit).registered = posted.registered
    BY Zenon, <2>1, DebitCreditOK
  <2>. QED  BY Zenon, <1>8, <2>2, <2>3 DEF debit
<1>. HIDE DEF deposit, out, paid, pay, get
<1>16. /\ MarketOK(Credit(paid, t, out), slot)
       /\ Credit(paid, t, out).registered = txn.m.registered
  <2>1. MarketOK(paid, slot) /\ slot \in Nat /\ t \in Trader /\ out \in Amounts
    BY Zenon, <1>2, <1>3, <1>14, <1>15
  <2>2. MarketOK(Credit(paid, t, out), slot)
    BY Zenon, <2>1, DebitCreditOK
  <2>3. Credit(paid, t, out).registered = paid.registered
    BY Zenon, <2>1, DebitCreditOK
  <2>. QED  BY Zenon, <1>15, <2>2, <2>3
<1>17. CASE Abort
  BY Zenon, <1>17, OrderDropped DEF Abort
<1>18. CASE /\ IF txn.p.freeFunds
                THEN market' = Credit(paid, t, out) /\ UNCHANGED <<vault, wallet>>
                ELSE /\ market' = paid
                     /\ vault' = [vault EXCEPT ![pay] = @ + deposit[pay],
                                               ![get] = @ - LotsOut]
                     /\ wallet' = AddLots(AddLots(wallet, t, pay, - deposit[pay]),
                                          t, get, LotsOut)
            /\ txn' = NoTxn
            /\ UNCHANGED <<status, seat, treasury, slot>>
  <2>1. MarketOK(market', slot) /\ market.registered \subseteq market'.registered
    BY Zenon, <1>2, <1>15, <1>16, <1>18
  <2>2. vault' \in Amounts
    BY <1>4, <1>5, <1>10, <1>14, <1>18 DEF Amounts
  <2>3. wallet' \in Balances
    <3>1. AddLots(wallet, t, pay, - deposit[pay]) \in Balances
      <4>1. - deposit[pay] \in Int
        BY <1>5, <1>14 DEF Amounts
      <4>. QED  BY Zenon, <1>3, <1>4, <1>5, <4>1, AddLotsType
    <3>2. AddLots(AddLots(wallet, t, pay, - deposit[pay]), t, get, LotsOut)
            \in Balances
      BY Zenon, <1>3, <1>5, <1>10, <3>1, AddLotsType
    <3>. QED  BY Zenon, <1>4, <1>18, <3>2
  <2>. QED  BY Zenon, <1>18, <2>1, <2>2, <2>3, Committed
<1>. QED  BY Zenon, <1>17, <1>18 DEF PlaceOrder, paid, deposit, out, used, usedForPost,
                             posted, lock, room, pay, get

----------------------------------------------------------------------------
(* Cancellations and the instructions that take one step.                  *)

\* The token transfers keep whole numbers of lots in every account.
LEMMA PaymentTypes ==
  ASSUME IndInv, NEW t \in Trader, NEW lots \in Amounts,
         PayOut(t, lots) \/ PayIn(t, lots)
  PROVE  vault' \in Amounts /\ wallet' \in Balances
<1>1. vault \in Amounts /\ wallet \in Balances
  BY Zenon DEF IndInv, TypeOK
<1>2. /\ AddAll(wallet, t, lots) \in Balances
      /\ AddAll(wallet, t, [a \in Asset |-> - lots[a]])
           \in Balances
  BY Zenon, <1>1, AddAllType
<1>3. wallet' \in Balances
  BY Zenon, <1>2 DEF PayOut, PayIn
<1>4. vault' \in Amounts
  BY <1>1 DEF PayOut, PayIn, Amounts
<1>. QED  BY Zenon, <1>3, <1>4

\* Every order id a client can name is a pair of numbers.
LEMMA IdType ==
  ASSUME NEW o \in Order
  PROVE  Id(o) \in [price : Nat, seq : Nat]
BY Zenon DEF Id, Order

\* The cancellation instructions begin on a copy of the market account.
LEMMA StartCancelOK ==
  ASSUME IndInv, Idle, NEW t \in Trader, NEW claim \in BOOLEAN,
         NEW ids \in SUBSET [price : Nat, seq : Nat],
         StartCancel(t, ids, claim)
  PROVE  IndInv'
<1>1. market \in Market /\ MarketOK(market, slot)
  BY Zenon, IdleFacts
<1>2. NoLots \in Amounts
  BY DEF NoLots, Amounts
<1>. HIDE DEF NoLots
<1>3. txn' \in CancelTxn /\ txn'.m = market /\ txn'.phase = "cancel"
  BY Zenon, <1>1, <1>2 DEF StartCancel, CancelTxn
<1>4. UNCHANGED <<market, status, seat, vault, wallet, treasury, slot>>
  BY Zenon DEF StartCancel
<1>5. TypeOK'
  BY Zenon, <1>3, <1>4 DEF IndInv, TypeOK
<1>6. MarketOK(market, slot)' /\ MarketOK(txn.m, slot)'
  BY Zenon, <1>1, <1>3, <1>4
<1>. QED  BY Zenon, <1>3, <1>4, <1>5, <1>6 DEF IndInv

\* CancelAllOrders, CancelUpTo, CancelMultipleOrdersById and
\* ForceCancelOrders only name ids of the book.
LEMMA CancelStartsOK ==
  ASSUME IndInv, NEW t \in Trader, NEW claim \in BOOLEAN, NEW side \in Side,
         NEW lim, NEW ids \in SUBSET BookIds,
         \/ CancelAllOrders(t, claim) \/ CancelUpTo(t, side, lim, claim)
         \/ CancelMultipleOrdersById(t, ids, claim)
         \/ ForceCancelOrders(t, side, lim)
  PROVE  IndInv'
<1>1. Idle
  BY Zenon DEF CancelAllOrders, CancelUpTo, CancelMultipleOrdersById, ForceCancelOrders
<1>2. market.book["Bid"] \subseteq Order /\ market.book["Ask"] \subseteq Order
  BY Zenon, <1>1, IdleFacts DEF Market, Side, Book
<1>3. /\ {Id(o) : o \in Own(t, "Bid") \cup Own(t, "Ask")}
           \in SUBSET [price : Nat, seq : Nat]
      /\ {Id(o) : o \in UpTo(t, side, lim)} \in SUBSET [price : Nat, seq : Nat]
      /\ ids \in SUBSET [price : Nat, seq : Nat]
  <2>1. Own(t, "Bid") \cup Own(t, "Ask") \subseteq Order
    BY Zenon, <1>2 DEF Own
  <2>2. UpTo(t, side, lim) \subseteq market.book[side]
    BY Zenon DEF UpTo, FirstOf
  <2>3. UpTo(t, side, lim) \subseteq Order
    BY Zenon, <1>2, <2>2 DEF Side
  <2>4. ids \subseteq {Id(o) : o \in Order}
    BY Zenon, <1>2 DEF BookIds
  <2>. QED  BY Zenon, <2>1, <2>3, <2>4, IdType
<1>. QED
  BY Zenon, <1>1, <1>3, StartCancelOK
  DEF CancelAllOrders, CancelUpTo, CancelMultipleOrdersById, ForceCancelOrders

\* What the inductive invariant says of a cancellation in progress.
LEMMA CancelFacts ==
  ASSUME IndInv, txn.phase = "cancel"
  PROVE  /\ txn \in CancelTxn /\ MarketOK(txn.m, slot) /\ slot \in Nat
         /\ market.registered \subseteq txn.m.registered
         /\ market \in Market /\ MarketOK(market, slot)
<1>1. txn \in CancelTxn /\ txn # NoTxn
  BY DEF IndInv, TypeOK, NoTxn, OrderTxn
<1>. QED  BY Zenon, <1>1 DEF IndInv, TypeOK

\* Cancelling one of the collected ids keeps the invariant.
LEMMA CancelStepOK ==
  ASSUME IndInv, CancelStep
  PROVE  IndInv'
<1>1. /\ txn.phase = "cancel"
      /\ UNCHANGED <<market, status, seat, vault, wallet, treasury, slot>>
  BY Zenon DEF CancelStep, Working
<1>2. /\ txn \in CancelTxn /\ MarketOK(txn.m, slot) /\ slot \in Nat
      /\ MarketOK(market, slot) /\ market.registered \subseteq txn.m.registered
  BY Zenon, <1>1, CancelFacts
<1>3. PICK id \in txn.ids :
        LET side == from_order_sequence_number(id.seq)
            mine == {o \in txn.m.book[side] : Id(o) = id /\ o.trader = txn.who}
            next == [txn EXCEPT !.ids = @ \ {id}]
        IN \/ mine = {} /\ txn' = next
           \/ \E o \in mine :
                LET r == ReduceAndClaim(txn.m, side, o, o.size, txn.claim)
                IN txn' = [next EXCEPT
                     !.m = r.m,
                     !.out = [a \in Asset |-> @[a] + r.out[a]]]
  BY Zenon DEF CancelStep
<1>. DEFINE side == from_order_sequence_number(id.seq)
            next == [txn EXCEPT !.ids = @ \ {id}]
            r(o) == ReduceAndClaim(txn.m, side, o, o.size, txn.claim)
<1>4. side \in Side
  BY Zenon DEF from_order_sequence_number, Side
<1>5. next \in CancelTxn /\ next.m = txn.m /\ next.out = txn.out
  BY Zenon, <1>2 DEF CancelTxn
<1>. HIDE DEF side, next
<1>6. /\ txn' \in CancelTxn /\ MarketOK(txn'.m, slot)
      /\ txn'.m.registered = txn.m.registered
  <2>1. CASE txn' = next
    BY Zenon, <1>2, <1>5, <2>1
  <2>2. CASE \E o \in txn.m.book[side] :
               txn' = [next EXCEPT !.m = r(o).m,
                                   !.out = [a \in Asset |-> @[a] + r(o).out[a]]]
    <3>1. PICK o \in txn.m.book[side] :
            txn' = [next EXCEPT !.m = r(o).m,
                                !.out = [a \in Asset |-> @[a] + r(o).out[a]]]
      BY Zenon, <2>2
    <3>2. txn.m \in Market /\ txn.claim \in BOOLEAN
      BY Zenon, <1>2 DEF CancelTxn
    <3>3. o.size \in Int /\ o.size <= o.size
      BY <1>4, <3>2 DEF Market, Order, Book
    <3>4. /\ MarketOK(r(o).m, slot) /\ r(o).out \in Amounts
          /\ r(o).m.registered = txn.m.registered
      BY <1>2, <1>4, <3>2, <3>3, ReduceAndClaimOK
    <3>5. r(o).m \in Market
      BY Zenon, <3>4 DEF MarketOK
    <3>. DEFINE rm == r(o).m
                out == [a \in Asset |-> next.out[a] + r(o).out[a]]
    <3>6. out \in Amounts
      BY <1>5, <3>4 DEF CancelTxn, Amounts
    <3>7. txn' = [next EXCEPT !.m = rm, !.out = out]
      BY Zenon, <1>5, <3>1 DEF CancelTxn
    <3>8. rm \in Market /\ MarketOK(rm, slot) /\ rm.registered = txn.m.registered
      BY Zenon, <3>4, <3>5
    <3>. HIDE DEF rm, out
    <3>. QED  BY Zenon, <1>5, <3>6, <3>7, <3>8 DEF CancelTxn
  <2>. QED  BY Zenon, <1>3, <2>1, <2>2 DEF side, next
<1>7. TypeOK'
  BY Zenon, <1>1, <1>6 DEF IndInv, TypeOK
<1>8. /\ MarketOK(market, slot)' /\ MarketOK(txn.m, slot)'
      /\ market'.registered \subseteq txn'.m.registered
  BY Zenon, <1>1, <1>2, <1>6
<1>9. txn'.phase = "cancel"
  BY Zenon, <1>6 DEF CancelTxn
<1>. QED  BY Zenon, <1>7, <1>8, <1>9 DEF IndInv

\* The end of a cancellation, with its transfers, keeps the invariant.
LEMMA CancelDoneOK ==
  ASSUME IndInv, CancelDone
  PROVE  IndInv' /\ market.registered \subseteq market'.registered
<1>1. /\ txn \in CancelTxn /\ MarketOK(txn.m, slot)
      /\ market.registered \subseteq txn.m.registered
  BY Zenon, CancelFacts DEF CancelDone
<1>2. txn.who \in Trader /\ txn.out \in Amounts
  BY Zenon, <1>1 DEF CancelTxn
<1>3. vault' \in Amounts /\ wallet' \in Balances
  BY Zenon, <1>2, PaymentTypes DEF CancelDone
<1>. QED  BY Zenon, <1>1, <1>3, Committed DEF CancelDone

\* ReduceOrder keeps the invariant.
LEMMA ReduceOrderOK ==
  ASSUME IndInv, NEW t \in Trader, NEW side \in Side,
         NEW o \in market.book[side], NEW n \in ReduceSizes,
         NEW claim \in BOOLEAN, ReduceOrder(t, side, o, n, claim)
  PROVE  IndInv' /\ market.registered \subseteq market'.registered
<1>. DEFINE lots == Least(n, o.size)
            r == ReduceAndClaim(market, side, o, lots, claim)
<1>1. /\ market \in Market /\ MarketOK(market, slot)
      /\ slot \in Nat /\ txn = NoTxn
  BY Zenon, IdleFacts DEF ReduceOrder
<1>2. lots \in Int /\ lots <= o.size
  <2>1. o.size \in Nat /\ n \in Nat
    BY <1>1, InputAssumption DEF Market, Order, Book
  <2>. QED  BY <2>1 DEF Least
<1>. HIDE DEF lots
<1>3. MarketOK(r.m, slot) /\ r.out \in Amounts /\ r.m.registered = market.registered
  BY <1>1, <1>2, ReduceAndClaimOK
<1>4. /\ market' = r.m /\ PayOut(t, r.out)
      /\ UNCHANGED <<status, seat, treasury, slot, txn>>
  BY Zenon DEF ReduceOrder, lots
<1>. HIDE DEF r
<1>5. vault' \in Amounts /\ wallet' \in Balances
  BY Zenon, <1>3, <1>4, PaymentTypes
<1>. QED  BY Zenon, <1>1, <1>3, <1>4, <1>5, Committed

\* Clients transfer whole numbers of lots.
LEMMA TransferType == \A lots \in Transfers : lots \in Amounts
BY InputAssumption DEF Amounts

\* DepositFunds keeps the invariant.
LEMMA DepositFundsOK ==
  ASSUME IndInv, NEW t \in Trader, NEW lots \in Transfers, DepositFunds(t, lots)
  PROVE  IndInv' /\ market.registered \subseteq market'.registered
<1>1. /\ MarketOK(market, slot) /\ slot \in Nat /\ txn = NoTxn
      /\ lots \in Amounts /\ CanRegister(market, t)
  BY Zenon, IdleFacts, TransferType DEF DepositFunds
<1>. DEFINE m == get_or_register_trader(market, t)
<1>2. MarketOK(m, slot) /\ market.registered \subseteq m.registered
  BY <1>1, RegisterOK
<1>3. MarketOK(Credit(m, t, lots), slot) /\ Credit(m, t, lots).registered = m.registered
  BY Zenon, <1>1, <1>2, DebitCreditOK
<1>4. vault' \in Amounts /\ wallet' \in Balances
  BY Zenon, <1>1, PaymentTypes DEF DepositFunds
<1>. QED  BY Zenon, <1>1, <1>2, <1>3, <1>4, Committed DEF DepositFunds

\* WithdrawFunds keeps the invariant.
LEMMA WithdrawFundsOK ==
  ASSUME IndInv, NEW t \in Trader, NEW lots \in Transfers, WithdrawFunds(t, lots)
  PROVE  IndInv' /\ market.registered \subseteq market'.registered
<1>0. Idle
  BY Zenon DEF WithdrawFunds
<1>1. /\ market \in Market /\ MarketOK(market, slot) /\ slot \in Nat
      /\ txn = NoTxn /\ lots \in Amounts
  BY Zenon, <1>0, IdleFacts, TransferType
<1>. DEFINE out == Claimable(market, t, lots)
<1>2. out \in Amounts
  BY Zenon, <1>1, ClaimableType
<1>. HIDE DEF out
<1>3. /\ MarketOK(Debit(market, t, out), slot)
      /\ Debit(market, t, out).registered = market.registered
  BY Zenon, <1>1, <1>2, DebitCreditOK
<1>4. market' = Debit(market, t, out) /\ PayOut(t, out)
      /\ UNCHANGED <<status, seat, treasury, slot, txn>>
  BY Zenon DEF WithdrawFunds, out
<1>5. vault' \in Amounts /\ wallet' \in Balances
  BY Zenon, <1>2, <1>4, PaymentTypes
<1>. QED  BY Zenon, <1>1, <1>3, <1>4, <1>5, Committed

\* An eviction removes a trader whose seat is not approved.
LEMMA EvictSeatOK ==
  ASSUME IndInv, NEW t \in Trader, EvictSeat(t)
  PROVE  IndInv' /\ market'.registered = market.registered \ {t}
<1>1. /\ market \in Market /\ MarketOK(market, slot) /\ slot \in Nat
      /\ txn = NoTxn
  BY Zenon, IdleFacts DEF EvictSeat
<1>. DEFINE out == Claimable(market, t, market.free[t])
            m == Debit(market, t, out)
            e == [m EXCEPT !.registered = @ \ {t}]
<1>2. out \in Amounts
  <2>1. market.free[t] \in Amounts
    BY Zenon, <1>1 DEF Market, Balances, Amounts
  <2>. QED  BY Zenon, <1>1, <2>1, ClaimableType
<1>. HIDE DEF out
<1>3. /\ market' = e /\ PayOut(t, out) /\ seat[t] # "Approved"
      /\ UNCHANGED <<status, seat, treasury, slot, txn>>
  BY Zenon DEF EvictSeat, out
<1>4. MarketOK(m, slot) /\ m.registered = market.registered
  BY Zenon, <1>1, <1>2, DebitCreditOK
<1>. HIDE DEF m
<1>5. m \in Market /\ BookOK(m.book, m.seq, slot) /\ SeatsOK(m.registered)
  BY Zenon, <1>4 DEF MarketOK
<1>6. e \in Market /\ e.book = m.book /\ e.seq = m.seq
      /\ e.registered = m.registered \ {t}
  BY Zenon, <1>5 DEF Market
<1>7. SeatsOK(m.registered \ {t})
  <2>1. IsFiniteSet(m.registered) /\ Cardinality(m.registered) <= NumSeats
    BY Zenon, <1>5 DEF SeatsOK
  <2>2. IsFiniteSet(m.registered \ {t})
    BY Zenon, <2>1, FS_Subset
  <2>3. Cardinality(m.registered \ {t}) <= Cardinality(m.registered)
    BY Zenon, <2>1, FS_Subset
  <2>4. /\ Cardinality(m.registered \ {t}) \in Nat
        /\ Cardinality(m.registered) \in Nat /\ NumSeats \in Nat
    BY <2>1, <2>2, FS_CardinalityType, ConfigAssumption
  <2>. QED  BY <1>3, <1>5, <2>1, <2>2, <2>3, <2>4 DEF SeatsOK
<1>. HIDE DEF e
<1>8. MarketOK(e, slot)
  BY Zenon, <1>5, <1>6, <1>7 DEF MarketOK
<1>9. vault' \in Amounts /\ wallet' \in Balances
  BY Zenon, <1>2, <1>3, PaymentTypes
<1>. QED  BY Zenon, <1>1, <1>3, <1>4, <1>6, <1>8, <1>9, Committed

\* Seats: only an approval makes a seat approved, and it registers the trader.
LEMMA SeatsChangeOK ==
  ASSUME IndInv, NEW t \in Trader, NEW new \in SeatStatus,
         RequestSeat(t) \/ ChangeSeatStatus(t, new)
  PROVE  /\ IndInv' /\ market.registered \subseteq market'.registered
         /\ \A u \in Trader : seat'[u] = "Approved" =>
              seat[u] = "Approved" \/ u \in market'.registered
<1>1. /\ market \in Market /\ MarketOK(market, slot) /\ slot \in Nat
      /\ txn = NoTxn /\ txn.phase = "idle" /\ seat \in [Trader -> SeatStatus]
  BY Zenon, IdleFacts DEF RequestSeat, ChangeSeatStatus
<1>. DEFINE s == IF RequestSeat(t) THEN "NotApproved" ELSE new
<1>2. /\ seat' = [seat EXCEPT ![t] = s] /\ s \in SeatStatus
      /\ UNCHANGED <<status, vault, wallet, treasury, slot, txn>>
  BY Zenon, InputAssumption DEF RequestSeat, ChangeSeatStatus, SeatStatus
<1>3. \/ /\ s = "Approved" /\ CanRegister(market, t)
         /\ market' = get_or_register_trader(market, t)
      \/ s # "Approved" /\ market' = market
  BY Zenon DEF RequestSeat, ChangeSeatStatus
<1>. HIDE DEF s
<1>4. seat' \in [Trader -> SeatStatus]
  BY Zenon, <1>1, <1>2
<1>5. /\ MarketOK(market', slot) /\ market.registered \subseteq market'.registered
      /\ s = "Approved" => t \in market'.registered
  BY <1>1, <1>3, RegisterOK
<1>6. market' \in Market
  BY Zenon, <1>5 DEF MarketOK
<1>7. MarketOK(market, slot)'
  BY Zenon, <1>2, <1>5
<1>8. TypeOK'
  BY Zenon, <1>1, <1>2, <1>4, <1>6 DEF IndInv, TypeOK
<1>9. \A u \in Trader : seat'[u] = "Approved" =>
        seat[u] = "Approved" \/ u \in market'.registered
  BY Zenon, <1>1, <1>2, <1>5
<1>10. IndInv'
  BY Zenon, <1>1, <1>2, <1>7, <1>8 DEF IndInv
<1>. QED  BY Zenon, <1>5, <1>9, <1>10

\* CollectFees keeps the invariant.
LEMMA CollectFeesOK ==
  ASSUME IndInv, CollectFees
  PROVE  IndInv' /\ market.registered \subseteq market'.registered
<1>1. /\ market \in Market /\ MarketOK(market, slot)
      /\ txn = NoTxn /\ txn.phase = "idle"
  BY Zenon, IdleFacts DEF CollectFees
<1>2. market' = collect_fees(market)
      /\ UNCHANGED <<status, seat, wallet, slot, txn>>
      /\ vault' = [vault EXCEPT !["quote"] = @ - market.unclaimed]
      /\ treasury' = treasury + market.unclaimed
  BY Zenon DEF CollectFees
<1>3. /\ market' \in Market /\ market'.book = market.book
      /\ market'.seq = market.seq /\ market'.registered = market.registered
  <2>. DEFINE collected == market.collected + market.unclaimed
  <2>1. collected \in Int
    BY <1>1 DEF Market
  <2>2. market' = [market EXCEPT !.collected = collected, !.unclaimed = 0]
    BY Zenon, <1>1, <1>2 DEF collect_fees, Market
  <2>3. market \in Market /\ 0 \in Int
    BY <1>1
  <2>. HIDE DEF collected
  <2>4. market' \in Market
    BY Zenon, <2>1, <2>2, <2>3 DEF Market
  <2>5. /\ market'.book = market.book /\ market'.seq = market.seq
        /\ market'.registered = market.registered
    BY Zenon, <2>2, <2>3 DEF Market
  <2>. QED  BY Zenon, <2>4, <2>5
<1>4. MarketOK(market', slot)
  BY Zenon, <1>1, <1>3 DEF MarketOK
<1>5. MarketOK(market, slot)'
  BY Zenon, <1>2, <1>4
<1>6. vault' \in Amounts /\ treasury' \in Int
  <2>1. vault \in Amounts /\ treasury \in Int
    BY Zenon DEF IndInv, TypeOK
  <2>2. market.unclaimed \in Int
    BY Zenon, <1>1 DEF Market
  <2>. QED  BY <1>2, <2>1, <2>2 DEF Asset, Amounts
<1>7. TypeOK'
  BY Zenon, <1>1, <1>2, <1>3, <1>6 DEF IndInv, TypeOK
<1>. QED  BY Zenon, <1>1, <1>2, <1>3, <1>5, <1>7 DEF IndInv

\* ChangeMarketStatus keeps the invariant.
LEMMA ChangeMarketStatusOK ==
  ASSUME IndInv, NEW new \in StatusRequests, ChangeMarketStatus(new)
  PROVE  IndInv'
<1>1. MarketOK(market, slot) /\ txn = NoTxn /\ txn.phase = "idle"
  BY Zenon, IdleFacts DEF ChangeMarketStatus
<1>2. /\ UNCHANGED <<market, seat, vault, wallet, treasury, slot, txn>>
      /\ status' \in MarketStatus
  BY Zenon, InputAssumption DEF ChangeMarketStatus
<1>3. MarketOK(market, slot)'
  BY Zenon, <1>1, <1>2
<1>4. TypeOK'
  BY Zenon, <1>2 DEF IndInv, TypeOK
<1>. QED  BY Zenon, <1>1, <1>2, <1>3, <1>4 DEF IndInv

\* Time only expires orders, so what was uncrossed stays uncrossed.
LEMMA NextSlotOK ==
  ASSUME IndInv, NextSlot
  PROVE  IndInv'
<1>1. /\ market \in Market /\ MarketOK(market, slot) /\ slot \in Nat
      /\ txn = NoTxn /\ txn.phase = "idle"
  BY Zenon, IdleFacts DEF NextSlot
<1>2. /\ slot' = slot + 1
      /\ UNCHANGED <<market, status, seat, vault, wallet, treasury, txn>>
  BY Zenon DEF NextSlot
<1>3. BookOK(market.book, market.seq, slot)
  BY Zenon, <1>1 DEF MarketOK
<1>4. Uncrossed(market.book, slot + 1)
  <2>1. \A s \in Side : \A o \in market.book[s] : o.lvs \in Nat
    BY <1>1 DEF Market, Order, Book
  <2>2. \A s \in Side : \A o \in market.book[s] :
          is_expired(o, slot) => is_expired(o, slot + 1)
    BY <1>1, <2>1 DEF is_expired
  <2>3. Uncrossed(market.book, slot)
    BY Zenon, <1>3 DEF BookOK
  <2>. QED  BY Zenon, <2>2, <2>3 DEF Uncrossed, Side
<1>5. BookOK(market.book, market.seq, slot + 1)
  BY Zenon, <1>3, <1>4 DEF BookOK
<1>6. MarketOK(market, slot + 1)
  BY Zenon, <1>1, <1>5 DEF MarketOK
<1>7. MarketOK(market, slot)'
  BY Zenon, <1>2, <1>6
<1>8. TypeOK'
  BY <1>1, <1>2 DEF IndInv, TypeOK
<1>. QED  BY Zenon, <1>1, <1>2, <1>7, <1>8 DEF IndInv

----------------------------------------------------------------------------
\* Every step of every instruction preserves the inductive invariant.
LEMMA NextOK ==
  ASSUME IndInv, Next
  PROVE  IndInv'
<1>1. CASE TxnStep
  BY Zenon, <1>1, CrossOK, MatchOK, PlaceOrderOK, CancelStepOK, CancelDoneOK
  DEF TxnStep, OrderStep
<1>2. CASE TraderNext
  <2>1. PICK t \in Trader :
          \/ \E p \in Packets : NewOrder(t, p)
          \/ \E lots \in Transfers : DepositFunds(t, lots) \/ WithdrawFunds(t, lots)
          \/ RequestSeat(t)
          \/ \E claim \in Claims :
               \/ CancelAllOrders(t, claim)
               \/ \E ids \in SUBSET BookIds : CancelMultipleOrdersById(t, ids, claim)
               \/ \E side \in Side :
                    \/ \E lim \in UpToLimits : CancelUpTo(t, side, lim, claim)
                    \/ \E o \in market.book[side], n \in ReduceSizes :
                         ReduceOrder(t, side, o, n, claim)
    BY Zenon, <1>2 DEF TraderNext
  <2>2. CASE \E p \in Packets : NewOrder(t, p)
    BY Zenon, <2>2, NewOrderOK
  <2>3. CASE \E lots \in Transfers : DepositFunds(t, lots) \/ WithdrawFunds(t, lots)
    BY Zenon, <2>3, DepositFundsOK, WithdrawFundsOK
  <2>4. CASE RequestSeat(t)
    <3>1. "Retired" \in SeatStatus
      BY Zenon DEF SeatStatus
    <3>. QED  BY Zenon, <2>4, <3>1, SeatsChangeOK
  <2>5. ASSUME NEW claim \in Claims, CancelAllOrders(t, claim)
        PROVE  IndInv'
    <3>1. claim \in BOOLEAN /\ "Bid" \in Side /\ {} \in SUBSET BookIds
      BY Zenon, InputAssumption DEF Side
    <3>. QED  BY Zenon, <2>5, <3>1, CancelStartsOK
  <2>6. ASSUME NEW claim \in Claims, NEW ids \in SUBSET BookIds,
               CancelMultipleOrdersById(t, ids, claim)
        PROVE  IndInv'
    <3>1. claim \in BOOLEAN /\ "Bid" \in Side
      BY Zenon, InputAssumption DEF Side
    <3>. QED  BY Zenon, <2>6, <3>1, CancelStartsOK
  <2>7. ASSUME NEW claim \in Claims, NEW side \in Side, NEW lim \in UpToLimits,
               CancelUpTo(t, side, lim, claim)
        PROVE  IndInv'
    <3>1. claim \in BOOLEAN /\ {} \in SUBSET BookIds
      BY Zenon, InputAssumption
    <3>. QED  BY Zenon, <2>7, <3>1, CancelStartsOK
  <2>8. ASSUME NEW claim \in Claims, NEW side \in Side,
               NEW o \in market.book[side], NEW n \in ReduceSizes,
               ReduceOrder(t, side, o, n, claim)
        PROVE  IndInv'
    <3>1. claim \in BOOLEAN
      BY Zenon, InputAssumption
    <3>. QED  BY Zenon, <2>8, <3>1, ReduceOrderOK
  <2>. QED  BY Zenon, <2>1, <2>2, <2>3, <2>4, <2>5, <2>6, <2>7, <2>8
<1>3. CASE AuthorityNext
  <2>1. CASE \E new \in StatusRequests : ChangeMarketStatus(new)
    BY Zenon, <2>1, ChangeMarketStatusOK
  <2>2. ASSUME NEW t \in Trader, EvictSeat(t)
        PROVE  IndInv'
    BY Zenon, <2>2, EvictSeatOK
  <2>3. ASSUME NEW t \in Trader, NEW new \in SeatRequests, ChangeSeatStatus(t, new)
        PROVE  IndInv'
    <3>1. new \in SeatStatus
      BY Zenon, InputAssumption
    <3>. QED  BY Zenon, <2>3, <3>1, SeatsChangeOK
  <2>4. ASSUME NEW t \in Trader, NEW side \in Side, NEW lim \in UpToLimits,
               ForceCancelOrders(t, side, lim)
        PROVE  IndInv'
    <3>1. TRUE \in BOOLEAN /\ {} \in SUBSET BookIds
      BY Zenon
    <3>. QED  BY Zenon, <2>4, <3>1, CancelStartsOK
  <2>5. CASE CollectFees
    BY Zenon, <2>5, CollectFeesOK
  <2>. QED  BY Zenon, <1>3, <2>1, <2>2, <2>3, <2>4, <2>5 DEF AuthorityNext
<1>4. CASE NextSlot
  BY Zenon, <1>4, NextSlotOK
<1>. QED  BY Zenon, <1>1, <1>2, <1>3, <1>4 DEF Next

\* The inductive invariant holds at every step of every instruction.
THEOREM Invariance == Spec => []IndInv
<1>1. ASSUME IndInv, UNCHANGED vars
      PROVE  IndInv'
  <2>1. UNCHANGED <<market, status, seat, vault, wallet, treasury, slot, txn>>
    BY Zenon, <1>1 DEF vars
  <2>2. TypeOK'
    BY Zenon, <1>1, <2>1 DEF IndInv, TypeOK
  <2>3. MarketOK(market, slot)' /\ (txn' # NoTxn => MarketOK(txn.m, slot)')
    BY Zenon, <1>1, <2>1 DEF IndInv
  <2>4. OrderOK => OrderOK'
    BY Zenon, <2>1 DEF OrderOK, Resting, Maker
  <2>. QED  BY Zenon, <1>1, <2>1, <2>2, <2>3, <2>4 DEF IndInv
<1>2. IndInv /\ [Next]_vars => IndInv'
  BY Zenon, <1>1, NextOK
<1>. QED  BY InitOK, <1>2, PTL DEF Spec

\* Every account keeps its shape: no instruction of the program leaves an
\* empty or unpriced order on the book.
THEOREM TypeCorrect == Spec => []TypeOK
<1>1. IndInv => TypeOK
  BY Zenon DEF IndInv
<1>. QED  BY <1>1, Invariance, PTL

\* The matching engine never leaves unexpired orders crossed, neither in the
\* account nor in the middle of an instruction.
THEOREM NeverCrossed == Spec => []UncrossedBook
<1>1. IndInv => UncrossedBook
  BY Zenon DEF IndInv, UncrossedBook, Markets, MarketOK, BookOK
<1>. QED  BY <1>1, Invariance, PTL

\* Order ids are never used twice and always tell the side of the order.
THEOREM IdsDistinct == Spec => []OrderIdsDistinct
<1>1. ASSUME NEW m, MarketOK(m, slot)
      PROVE  /\ \A s \in Side : \A o \in m.book[s] :
                  from_order_sequence_number(o.seq) = s
             /\ \A s, r \in Side : \A o \in m.book[s], x \in m.book[r] :
                  o.seq = x.seq => o = x
  <2>1. /\ m \in Market /\ BookOK(m.book, m.seq, slot)
        /\ MaxSeq \in Nat
    BY <1>1, ConfigAssumption DEF MarketOK
  <2>2. m.seq \in Nat /\ m.seq <= MaxSeq
    BY Zenon, <2>1 DEF Market, BookOK
  <2>3. \A o \in m.book["Bid"] : o.seq \in Nat /\ o.seq > MaxSeq
    <3>1. \A o \in m.book["Bid"] : o.seq \in Nat
      BY Zenon, <2>1 DEF Market, Order, Side, Book
    <3>2. \A o \in m.book["Bid"] : 2 * MaxSeq + 1 - m.seq < o.seq
      BY Zenon, <2>1 DEF BookOK
    <3>. QED  BY <2>1, <2>2, <3>1, <3>2
  <2>4. \A o \in m.book["Ask"] : o.seq \in Nat /\ ~ (o.seq > MaxSeq)
    <3>1. \A o \in m.book["Ask"] : o.seq \in Nat
      BY Zenon, <2>1 DEF Market, Order, Side, Book
    <3>2. \A o \in m.book["Ask"] : o.seq < m.seq
      BY Zenon, <2>1 DEF BookOK
    <3>. QED  BY <2>1, <2>2, <3>1, <3>2
  <2>5. \A s \in Side : \A o \in m.book[s] : from_order_sequence_number(o.seq) = s
    BY Zenon, <2>3, <2>4 DEF from_order_sequence_number, Side
  <2>6. \A s \in Side : \A o, x \in m.book[s] : o.seq = x.seq => o = x
    BY Zenon, <2>1 DEF BookOK
  <2>. QED  BY Zenon, <2>5, <2>6
<1>2. IndInv => OrderIdsDistinct
  BY <1>1 DEF IndInv, OrderIdsDistinct, Markets
<1>. QED  BY <1>2, Invariance, PTL

\* Every trader with an approved seat has a node in the trader tree.
Enrolled == \A t \in Trader : seat[t] = "Approved" => t \in market.registered

\* Only an eviction removes a trader, and the seat is not approved then; only
\* an approval makes a seat approved, and it registers the trader.
LEMMA NextEnrolled ==
  ASSUME IndInv, Enrolled, Next
  PROVE  Enrolled'
<1>1. SUFFICES \/ seat' = seat /\ market.registered \subseteq market'.registered
               \/ Enrolled'
  BY Zenon DEF Enrolled
<1>2. ASSUME UNCHANGED <<market, seat>> PROVE Enrolled'
  BY Zenon, <1>2 DEF Enrolled
<1>3. CASE TxnStep
  <2>1. CASE PlaceOrder
    <3>1. seat' = seat
      BY Zenon, <2>1 DEF PlaceOrder, Abort
    <3>. QED  BY Zenon, <2>1, <3>1, PlaceOrderOK
  <2>2. CASE CancelDone
    <3>1. seat' = seat
      BY Zenon, <2>2 DEF CancelDone
    <3>. QED  BY Zenon, <2>2, <3>1, CancelDoneOK
  <2>3. CASE ~ PlaceOrder /\ ~ CancelDone
    <3>1. UNCHANGED <<market, seat>>
      BY Zenon, <1>3, <2>3
      DEF TxnStep, OrderStep, Working, CrossExpiredOrder, CrossLiveOrder,
          CrossNothing, MatchExpiredOrder, SelfTradeAbort, SelfTradeCancelProvide,
          SelfTradeDecrementTake, MatchOrder, MatchDone, CancelStep
    <3>. QED  BY Zenon, <1>2, <3>1
  <2>. QED  BY Zenon, <2>1, <2>2, <2>3
<1>4. CASE TraderNext
  <2>1. PICK t \in Trader :
          \/ \E p \in Packets : NewOrder(t, p)
          \/ \E lots \in Transfers : DepositFunds(t, lots) \/ WithdrawFunds(t, lots)
          \/ RequestSeat(t)
          \/ \E claim \in Claims :
               \/ CancelAllOrders(t, claim)
               \/ \E ids \in SUBSET BookIds : CancelMultipleOrdersById(t, ids, claim)
               \/ \E side \in Side :
                    \/ \E lim \in UpToLimits : CancelUpTo(t, side, lim, claim)
                    \/ \E o \in market.book[side], n \in ReduceSizes :
                         ReduceOrder(t, side, o, n, claim)
    BY Zenon, <1>4 DEF TraderNext
  <2>2. CASE \E p \in Packets : NewOrder(t, p)
    <3>1. PICK p \in Packets : NewOrder(t, p)
      BY Zenon, <2>2
    <3>2. seat' = seat
      BY Zenon, <3>1 DEF NewOrder
    <3>. QED  BY Zenon, <3>1, <3>2, NewOrderOK
  <2>3. CASE \E lots \in Transfers : DepositFunds(t, lots) \/ WithdrawFunds(t, lots)
    <3>1. PICK lots \in Transfers : DepositFunds(t, lots) \/ WithdrawFunds(t, lots)
      BY Zenon, <2>3
    <3>2. seat' = seat
      BY Zenon, <3>1 DEF DepositFunds, WithdrawFunds
    <3>. QED  BY Zenon, <3>1, <3>2, DepositFundsOK, WithdrawFundsOK
  <2>4. CASE RequestSeat(t)
    <3>1. "Retired" \in SeatStatus
      BY Zenon DEF SeatStatus
    <3>. QED  BY Zenon, <2>4, <3>1, SeatsChangeOK DEF Enrolled
  <2>5. ASSUME NEW claim \in Claims, NEW side \in Side,
               NEW o \in market.book[side], NEW n \in ReduceSizes,
               ReduceOrder(t, side, o, n, claim)
        PROVE  Enrolled'
    <3>1. claim \in BOOLEAN
      BY Zenon, InputAssumption
    <3>2. seat' = seat
      BY Zenon, <2>5 DEF ReduceOrder
    <3>. QED  BY Zenon, <2>5, <3>1, <3>2, ReduceOrderOK DEF Enrolled
  <2>6. ASSUME NEW claim \in Claims,
               \/ CancelAllOrders(t, claim)
               \/ \E ids \in SUBSET BookIds : CancelMultipleOrdersById(t, ids, claim)
               \/ \E side \in Side, lim \in UpToLimits : CancelUpTo(t, side, lim, claim)
        PROVE  Enrolled'
    <3>1. UNCHANGED <<market, seat>>
      BY Zenon, <2>6 DEF CancelAllOrders, CancelMultipleOrdersById, CancelUpTo, StartCancel
    <3>. QED  BY Zenon, <1>2, <3>1
  <2>. QED  BY Zenon, <2>1, <2>2, <2>3, <2>4, <2>5, <2>6
<1>5. CASE AuthorityNext
  <2>1. CASE \E new \in StatusRequests : ChangeMarketStatus(new)
    <3>1. UNCHANGED <<market, seat>>
      BY Zenon, <2>1 DEF ChangeMarketStatus
    <3>. QED  BY Zenon, <1>2, <3>1
  <2>2. ASSUME NEW t \in Trader, EvictSeat(t)
        PROVE  Enrolled'
    <3>1. /\ seat' = seat /\ seat[t] # "Approved"
          /\ market'.registered = market.registered \ {t}
      BY Zenon, <2>2, EvictSeatOK DEF EvictSeat
    <3>. QED  BY Zenon, <3>1 DEF Enrolled
  <2>3. ASSUME NEW t \in Trader, NEW new \in SeatRequests, ChangeSeatStatus(t, new)
        PROVE  Enrolled'
    <3>1. new \in SeatStatus
      BY Zenon, InputAssumption
    <3>. QED  BY Zenon, <2>3, <3>1, SeatsChangeOK DEF Enrolled
  <2>4. ASSUME NEW t \in Trader, NEW side \in Side, NEW lim \in UpToLimits,
               ForceCancelOrders(t, side, lim)
        PROVE  Enrolled'
    <3>1. UNCHANGED <<market, seat>>
      BY Zenon, <2>4 DEF ForceCancelOrders, StartCancel
    <3>. QED  BY Zenon, <1>2, <3>1
  <2>5. CASE CollectFees
    <3>1. seat' = seat
      BY Zenon, <2>5 DEF CollectFees
    <3>. QED  BY Zenon, <2>5, <3>1, CollectFeesOK
  <2>. QED  BY Zenon, <1>5, <2>1, <2>2, <2>3, <2>4, <2>5 DEF AuthorityNext
<1>6. CASE NextSlot
  <2>1. UNCHANGED <<market, seat>>
    BY Zenon, <1>6 DEF NextSlot
  <2>. QED  BY Zenon, <1>2, <2>1
<1>. QED  BY Zenon, <1>3, <1>4, <1>5, <1>6 DEF Next

\* An approved seat is always backed by a node of the trader tree, which is
\* never overfull.
THEOREM SeatsAlwaysBacked == Spec => []SeatsBacked
<1>1. Init => Enrolled
  BY DEF Init, Enrolled, EmptyMarket
<1>2. IndInv /\ Enrolled /\ [Next]_vars => Enrolled'
  <2>1. ASSUME Enrolled, UNCHANGED vars PROVE Enrolled'
    BY Zenon, <2>1 DEF Enrolled, vars
  <2>. QED  BY Zenon, <2>1, NextEnrolled
<1>3. IndInv /\ Enrolled => SeatsBacked
  BY Zenon DEF IndInv, Enrolled, MarketOK, SeatsOK, SeatsBacked
<1>. QED  BY <1>1, <1>2, <1>3, Invariance, PTL DEF Spec
============================================================================

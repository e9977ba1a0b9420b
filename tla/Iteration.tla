------------------------------ MODULE Iteration ------------------------------
(***************************************************************************)
(* Facts about the naturals and about functions that are defined by         *)
(* recursion over an interval, as Streak of Decide and Total of Corpus are. *)
(* Induction over data is done with sets: of the numbers that fail there    *)
(* would be a least one.                                                    *)
(***************************************************************************)
EXTENDS Integers, WellFoundedInduction, TLAPS

\* Every set of naturals has a least element.
LEMMA Least ==
    ASSUME NEW S \in SUBSET Nat, S # {}
    PROVE  \E n \in S : \A m \in S : n <= m
  <1> DEFINE R == OpToRel(<, Nat)
  <1>1. IsWellFoundedOn(R, Nat)
    BY NatLessThanWellFounded
  <1>2. \A x, y \in Nat : <<x, y>> \in R <=> x < y
    BY DEF OpToRel
  <1> HIDE DEF R
  <1>3. PICK n \in S : \A m \in S : ~(<<m, n>> \in R)
    BY <1>1, WFMin
  <1>4. \A m \in S : ~(m < n)
    BY <1>2, <1>3
  <1> QED  BY <1>4

\* The values 0 .. n of a function that starts with e and goes on with g.
Iterates(n, S, e, g) ==
    {f \in [0 .. n -> S] : f[0] = e /\ \A i \in 1 .. n : f[i] = g[<<i, f[i - 1]>>]}

\* Functions that are defined by recursion over an interval exist.
LEMMA Recursion ==
    ASSUME NEW n \in Nat, NEW S, NEW e \in S, NEW g \in [(1 .. n) \X S -> S]
    PROVE  Iterates(n, S, e, g) # {}
  <1> USE DEF Iterates
  <1> DEFINE Defined(k) == \E f \in [0 .. k -> S] :
                              f[0] = e /\ \A i \in 1 .. k : f[i] = g[<<i, f[i - 1]>>]
             Bad == {k \in 0 .. n : ~Defined(k)}
  <1>1. SUFFICES Bad = {}
    <2>1. n \in 0 .. n /\ (n \in 0 .. n /\ ~Defined(n) => n \in Bad)
      OBVIOUS
    <2>2. Defined(n) => \E f \in [0 .. n -> S] :
                              f[0] = e /\ \A i \in 1 .. n : f[i] = g[<<i, f[i - 1]>>]
      OBVIOUS
    <2> HIDE DEF Bad, Defined
    <2> QED  BY <2>1, <2>2
  <1>2. SUFFICES ASSUME Bad # {} PROVE FALSE
    OBVIOUS
  <1>3. PICK k \in Bad : \A m \in Bad : k <= m
    <2>1. Bad \in SUBSET Nat
      OBVIOUS
    <2> HIDE DEF Bad
    <2> QED  BY <1>2, <2>1, Least
  <1>4. Defined(0)
    <2> DEFINE z == [i \in 0 .. 0 |-> e]
    <2>1. z \in [0 .. 0 -> S] /\ z[0] = e /\ \A i \in 1 .. 0 : FALSE
      OBVIOUS
    <2> HIDE DEF z
    <2> QED  BY <2>1
  <1>5. k - 1 \in 0 .. n /\ Defined(k - 1) /\ k \in 1 .. n
    <2>1. k \in 0 .. n /\ ~Defined(k) /\ (k - 1 \in 0 .. n /\ ~Defined(k - 1) => k - 1 \in Bad)
      OBVIOUS
    <2>2. k # 0
      BY <2>1, <1>4
    <2> HIDE DEF Bad, Defined
    <2> QED  BY <1>3, <2>1, <2>2
  <1>6. PICK f \in [0 .. k - 1 -> S] :
            f[0] = e /\ \A i \in 1 .. k - 1 : f[i] = g[<<i, f[i - 1]>>]
    BY <1>5
  <1> DEFINE h == [i \in 0 .. k |-> IF i = k THEN g[<<k, f[k - 1]>>] ELSE f[i]]
  <1>7. f[k - 1] \in S /\ g[<<k, f[k - 1]>>] \in S
    BY <1>5, <1>6
  <1>8. h \in [0 .. k -> S]
    BY <1>5, <1>6, <1>7
  <1>9. h[0] = e
    BY <1>5, <1>6
  <1>10. ASSUME NEW i \in 1 .. k
         PROVE  h[i] = g[<<i, h[i - 1]>>]
    <2>1. h[i - 1] = f[i - 1]
      BY <1>5
    <2>2. CASE i = k
      BY <1>5, <2>1, <2>2
    <2>3. CASE i # k
      BY <1>5, <1>6, <2>1, <2>3
    <2> QED  BY <2>2, <2>3
  <1>11. Defined(k)
    <2> HIDE DEF h
    <2> QED  BY <1>8, <1>9, <1>10
  <1> QED  BY <1>3, <1>11

\* What holds at first and is kept by each turn holds after every turn.
LEMMA Induction ==
    ASSUME NEW n \in Nat, NEW Good \in SUBSET (0 .. n), 0 \in Good,
           \A i \in 1 .. n : i - 1 \in Good => i \in Good
    PROVE  Good = 0 .. n
  <1> DEFINE Bad == (0 .. n) \ Good
  <1>1. SUFFICES ASSUME Bad # {} PROVE FALSE
    OBVIOUS
  <1>2. PICK k \in Bad : \A m \in Bad : k <= m
    <2>1. Bad \in SUBSET Nat
      OBVIOUS
    <2> HIDE DEF Bad
    <2> QED  BY <1>1, <2>1, Least
  <1>3. k \in 1 .. n /\ k - 1 \in Good
    BY <1>2
  <1> QED  BY <1>2, <1>3
=============================================================================

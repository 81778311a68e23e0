-------------------------- MODULE FiniteRecursion --------------------------
(***************************************************************************)
(* Facts about a walk over 1 .. n that the loops over an extent list and   *)
(* over the blocks of an extent need: a walk that starts with a and steps  *)
(* by G exists, what each step keeps holds all along it, and it is the     *)
(* only one.  They follow from the least number principle, so no operator  *)
(* is a parameter.                                                         *)
(***************************************************************************)
EXTENDS Integers, TLAPS

(* How long a prover may take for a step that does not say so. *)
USE SMTT(40), ZenonT(40)

WFI == INSTANCE WellFoundedInduction

(* A set of natural numbers has a least one. *)
LEMMA LeastNumber ==
  ASSUME NEW T \in SUBSET Nat, T # {}
  PROVE  \E m \in T : \A k \in T : m <= k
<1>1. WFI!IsWellFoundedOn(WFI!OpToRel(<, Nat), Nat)
  BY Zenon, WFI!NatLessThanWellFounded
<1>2. PICK m \in T : \A k \in T : ~ (<<k, m>> \in WFI!OpToRel(<, Nat))
  BY Zenon, <1>1, WFI!WFMin
<1>3. \A k \in T : ~ (k < m)
  BY Zenon, <1>2 DEF WFI!OpToRel
<1> QED
  BY <1>3

(* What holds of 0, and of i when it holds of i - 1, holds up to n. *)
LEMMA FiniteInduction ==
  ASSUME NEW n \in Nat, NEW T, 0 \in T,
         \A i \in 1 .. n : i - 1 \in T => i \in T
  PROVE  0 .. n \subseteq T
<1> DEFINE Bad == { i \in 0 .. n : i \notin T }
<1>1. SUFFICES ASSUME Bad # {} PROVE FALSE
  OBVIOUS
<1>2. PICK m \in Bad : \A k \in Bad : m <= k
  <2>1. Bad \in SUBSET Nat
    OBVIOUS
  <2> QED
    BY Zenon, <1>1, <2>1, LeastNumber
<1>3. m \in 1 .. n /\ m - 1 \in 0 .. n /\ m - 1 \notin Bad
  BY <1>2
<1> QED
  BY <1>2, <1>3

(* f starts with a, and the step G leads from each of its values to the next. *)
IsWalk(f, S, n, a, G) ==
  /\ f \in [0 .. n -> S]
  /\ f[0] = a
  /\ \A i \in 1 .. n : f[i] = G[<<i, f[i - 1]>>]

(* Every step function has its walk. *)
LEMMA WalkExists ==
  ASSUME NEW S, NEW n \in Nat, NEW a \in S, NEW G \in [(1 .. n) \X S -> S]
  PROVE  \E f : IsWalk(f, S, n, a, G)
<1> USE DEF IsWalk
<1> DEFINE Good(m) == \E f : IsWalk(f, S, m, a, G)
           T == { m \in 0 .. n : ~Good(m) }
<1>0. T = {} => Good(n)
  <2> HIDE DEF Good
  <2> QED OBVIOUS
<1>1. SUFFICES ASSUME T # {} PROVE FALSE
  BY <1>0
<1>2. PICK m \in T : \A k \in T : m <= k
  <2>1. T \in SUBSET Nat
    OBVIOUS
  <2> QED BY Zenon, <1>1, <2>1, LeastNumber
<1>3. CASE m = 0
  <2>1. Good(0)
    <3> DEFINE f == [i \in 0 .. 0 |-> a]
    <3>1. IsWalk(f, S, 0, a, G)
      OBVIOUS
    <3> HIDE DEF f, IsWalk
    <3> QED BY Zenon, <3>1
  <2> QED BY <1>2, <1>3, <2>1
<1>4. CASE m # 0
  <2>1. m - 1 \in 0 .. n /\ m \in 1 .. n
    BY <1>2, <1>4
  <2>2. Good(m - 1)
    BY <1>2, <2>1
  <2>3. PICK f : IsWalk(f, S, m - 1, a, G)
    BY <2>2
  <2> DEFINE g == [i \in 0 .. m |-> IF i = m THEN G[<<m, f[m - 1]>>] ELSE f[i]]
  <2>4. g \in [0 .. m -> S]
    BY <2>1, <2>3
  <2>5. g[0] = a
    BY <2>1, <2>3
  <2>7. ASSUME NEW i \in 1 .. m
        PROVE  g[i] = G[<<i, g[i - 1]>>]
    <3>1. CASE i = m
      <4>1. g[m] = G[<<m, f[m - 1]>>] /\ g[m - 1] = f[m - 1]
        BY <2>1
      <4> QED BY <3>1, <4>1
    <3>2. CASE i # m
      <4>1. i \in 1 .. m - 1 /\ i \in 0 .. m /\ i - 1 \in 0 .. m /\ i - 1 # m
        BY <3>2, <2>1
      <4>2. g[i] = f[i] /\ g[i - 1] = f[i - 1]
        BY <3>2, <4>1
      <4> QED BY <2>3, <4>1, <4>2
    <3> QED BY <3>1, <3>2
  <2>6. Good(m)
    BY Zenon, <2>4, <2>5, <2>7
  <2> QED BY <1>2, <2>6
<1> QED BY <1>3, <1>4

(* What holds of the start, and is kept by each step, holds of all values. *)
LEMMA WalkKeeps ==
  ASSUME NEW S, NEW n \in Nat, NEW a \in S, NEW G \in [(1 .. n) \X S -> S],
         NEW V, a \in V[0],
         \A i \in 1 .. n : \A v \in S : v \in V[i - 1] => G[<<i, v>>] \in V[i]
  PROVE  \E f : IsWalk(f, S, n, a, G) /\ \A i \in 0 .. n : f[i] \in V[i]
<1>1. PICK f : IsWalk(f, S, n, a, G)
  BY Zenon, WalkExists
<1> DEFINE T == { i \in 0 .. n : f[i] \in V[i] }
<1>2. 0 \in T
  BY <1>1 DEF IsWalk
<1>3. ASSUME NEW i \in 1 .. n, i - 1 \in T PROVE i \in T
  <2>1. i - 1 \in 0 .. n /\ f[i - 1] \in S /\ f[i - 1] \in V[i - 1]
    BY <1>1, <1>3 DEF IsWalk
  <2>2. f[i] = G[<<i, f[i - 1]>>]
    BY <1>1 DEF IsWalk
  <2> QED  BY <2>1, <2>2
<1> HIDE DEF T
<1>4. 0 .. n \subseteq T
  BY <1>2, <1>3, FiniteInduction
<1> QED  BY <1>1, <1>4 DEF T

(* Two walks that start alike and step alike end alike. *)
LEMMA SameWalk ==
  ASSUME NEW n \in Nat, NEW f, NEW g, f[0] = g[0],
         \A i \in 1 .. n : f[i - 1] = g[i - 1] => f[i] = g[i]
  PROVE  f[n] = g[n]
<1> DEFINE T == { i \in 0 .. n : f[i] = g[i] }
<1>1. 0 \in T /\ \A i \in 1 .. n : i - 1 \in T => i \in T
  OBVIOUS
<1> HIDE DEF T
<1>2. 0 .. n \subseteq T
  BY <1>1, FiniteInduction
<1> QED  BY <1>2 DEF T

=============================================================================

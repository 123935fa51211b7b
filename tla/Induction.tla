------------------------------- MODULE Induction -------------------------------
(***************************************************************************)
(* What the proofs need of the natural numbers, as facts about sets: a set *)
(* that holds 0, and the successor of what it holds, holds every number;   *)
(* from it, the last of some positions of a list, and the function a       *)
(* definition by recursion over a list's positions names.                  *)
(***************************************************************************)
EXTENDS Naturals, Sequences, FiniteSetsExt, WellFoundedInduction, TLAPS

\* Induction, of a set in place of a property: < is well-founded on the numbers.
LEMMA NatSetInduction ==
  ASSUME NEW T, 0 \in T, \A n \in Nat : n \in T => n + 1 \in T
  PROVE  Nat \subseteq T
<1> DEFINE Less == OpToRel(<, Nat)
<1>1. Less = {p \in Nat \X Nat : p[1] < p[2]}
  BY DEF OpToRel
<1>2. IsWellFoundedOn(Less, Nat)
  BY NatLessThanWellFounded
<1> HIDE DEF Less
<1>3. SUFFICES ASSUME Nat \ T # {} PROVE FALSE
  OBVIOUS
<1>4. PICK x \in Nat \ T : \A y \in Nat \ T : ~ (<<y, x>> \in Less)
  BY <1>2, <1>3, WFMin
<1>5. x # 0
  BY <1>4
<1>6. x - 1 \in Nat /\ (x - 1) + 1 = x
  BY <1>4, <1>5
<1>7. x - 1 \notin T
  BY <1>4, <1>6
<1>8. <<x - 1, x>> \in Less
  BY <1>1, <1>6
<1> QED
  BY <1>4, <1>6, <1>7, <1>8

\* Of some of the numbers up to n, one is the greatest.
LEMMA GreatestOfSome ==
  ASSUME NEW n \in Nat, NEW S \in SUBSET (1..n), S # {}
  PROVE  Max(S) \in S /\ \A i \in S : i <= Max(S)
<1> DEFINE T == {k \in Nat : (\E i \in S : i <= k) =>
                              \E m \in S : m <= k /\ \A i \in S : i <= k => i <= m}
<1>1. 0 \in T
  OBVIOUS
<1>2. ASSUME NEW k \in Nat, k \in T PROVE k + 1 \in T
  <2>1. CASE k + 1 \in S
    <3>1. k + 1 \in Nat /\ k + 1 <= k + 1
      OBVIOUS
    <3>2. \E m \in S : m <= k + 1 /\ \A i \in S : i <= k + 1 => i <= m
      BY <2>1, <3>1
    <3> QED
      BY <3>1, <3>2
  <2>2. CASE k + 1 \notin S
    <3>1. \A i \in S : i <= k + 1 <=> i <= k
      BY <2>2
    <3> QED
      BY <1>2, <3>1
  <2> QED
    BY <2>1, <2>2
<1>3. n \in T
  <2> HIDE DEF T
  <2> QED
    BY <1>1, <1>2, NatSetInduction
<1>4. \E m \in S : \A i \in S : m >= i
  <2>1. \A i \in S : i \in Nat /\ i <= n
    OBVIOUS
  <2>2. PICK m \in S : \A i \in S : i <= n => i <= m
    BY <1>3, <2>1
  <2> QED
    BY <2>1, <2>2
<1>5. Max(S) \in S /\ \A i \in S : Max(S) >= i
  BY <1>4 DEF Max
<1> QED
  BY <1>5

\* f holds, from d on, what op makes of the first n elements of w, one at a time.
Goes(f, d, op, w, n) == f[0] = d /\ \A i \in 1..n : f[i] = op[<<f[i - 1], w[i]>>]

\* There is a function that does.
LEMMA GoneThrough ==
  ASSUME NEW D, NEW d \in D, NEW K, NEW w \in Seq(K), NEW op,
         \A x \in D, y \in K : op[<<x, y>>] \in D
  PROVE  \E f \in [0..Len(w) -> D] : Goes(f, d, op, w, Len(w))
<1> DEFINE T == {n \in Nat : n <= Len(w) => \E f \in [0..n -> D] : Goes(f, d, op, w, n)}
<1>0. Len(w) \in Nat /\ \A i \in 1..Len(w) : w[i] \in K
  OBVIOUS
<1>1. 0 \in T
  <2> DEFINE f == [i \in 0..0 |-> d]
  <2>1. f \in [0..0 -> D] /\ Goes(f, d, op, w, 0)
    BY DEF Goes
  <2> QED
    BY <2>1
<1>2. ASSUME NEW n \in Nat, n \in T PROVE n + 1 \in T
  <2> SUFFICES ASSUME n + 1 <= Len(w) PROVE \E f \in [0..(n + 1) -> D] : Goes(f, d, op, w, n + 1)
    OBVIOUS
  <2>1. PICK f \in [0..n -> D] : Goes(f, d, op, w, n)
    BY <1>0, <1>2
  <2> DEFINE x == op[<<f[n], w[n + 1]>>]
             g == [i \in 0..(n + 1) |-> IF i = n + 1 THEN x ELSE f[i]]
  <2>2. w[n + 1] \in K /\ f[n] \in D
    BY <1>0
  <2>3. x \in D
    BY <2>2
  <2>4. g \in [0..(n + 1) -> D]
    <3> HIDE DEF x
    <3> QED
      BY <2>3
  <2>5. /\ \A i \in 0..n : g[i] = f[i]
        /\ g[n + 1] = op[<<f[n], w[n + 1]>>]
    OBVIOUS
  <2> HIDE DEF g
  <2>6. ASSUME NEW i \in 1..(n + 1) PROVE g[i] = op[<<g[i - 1], w[i]>>]
    <3>1. CASE i = n + 1
      <4>1. i - 1 = n /\ n \in 0..n
        BY <3>1
      <4>2. g[i] = op[<<f[n], w[n + 1]>>] /\ g[i - 1] = f[n]
        BY <2>5, <3>1, <4>1
      <4> QED
        BY <3>1, <4>2
    <3>2. CASE i \in 1..n
      <4>1. i \in 0..n /\ i - 1 \in 0..n
        BY <3>2
      <4> QED
        BY <2>1, <2>5, <3>2, <4>1 DEF Goes
    <3> QED
      BY <3>1, <3>2
  <2>7. g[0] = d
    BY <2>1, <2>5 DEF Goes
  <2> QED
    BY <2>4, <2>6, <2>7 DEF Goes
<1>3. Len(w) \in T
  <2> HIDE DEF T
  <2> QED
    BY <1>0, <1>1, <1>2, NatSetInduction
<1> QED
  BY <1>0, <1>3
=============================================================================

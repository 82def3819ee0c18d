----------------------------- MODULE Induction -----------------------------
(***************************************************************************)
(* Induction and recursion over the natural numbers, in a form without     *)
(* operator parameters: about sets of numbers and about functions.         *)
(*                                                                         *)
(* Both come from a fact of the library: finite sets are well-founded      *)
(* under strict inclusion.  The sets 0..n - 1 are finite, and a least one  *)
(* has a least n.                                                          *)
(***************************************************************************)
EXTENDS Integers, FiniteSets, FiniteSetTheorems, WellFoundedInduction, TLAPS

LEMMA LeastElement ==
  ASSUME NEW T \in SUBSET Nat, T # {}
  PROVE  \E x \in T : \A y \in T : x <= y
<1> DEFINE U == {0..(x - 1) : x \in T}
<1>1. IsWellFoundedOn(StrictSubsetOrdering(Nat), FiniteSubsetsOf(Nat))
  BY FS_StrictSubsetOrderingWellFounded
<1>2. U \subseteq FiniteSubsetsOf(Nat)
  <2>1. \A x \in T : IsFiniteSet(0..(x - 1))
    BY FS_Interval
  <2>2. \A x \in T : 0..(x - 1) \subseteq Nat
    OBVIOUS
  <2>3. QED
    BY <2>1, <2>2 DEF FiniteSubsetsOf
<1>3. U # {}
  OBVIOUS
<1>4. PICK u \in U : \A v \in U : ~(<<v, u>> \in StrictSubsetOrdering(Nat))
  <2> HIDE DEF U
  <2> QED
    BY <1>1, <1>2, <1>3, WFMin
<1>5. PICK x \in T : u = 0..(x - 1)
  BY <1>4
<1>6. \A y \in T : x <= y
  <2>1. SUFFICES ASSUME NEW y \in T, y < x
                 PROVE  FALSE
    OBVIOUS
  <2>2. 0..(y - 1) \subseteq 0..(x - 1) /\ y \in 0..(x - 1) /\ y \notin 0..(y - 1)
    BY <2>1
  <2>3. <<0..(y - 1), u>> \in StrictSubsetOrdering(Nat)
    BY <1>5, <2>2 DEF StrictSubsetOrdering
  <2>4. QED
    BY <1>4, <2>1, <2>3
<1>7. QED
  BY <1>6

LEMMA Induction ==
  ASSUME NEW T \in SUBSET Nat, 0 \in T, \A n \in T : n + 1 \in T
  PROVE  T = Nat
<1>1. SUFFICES ASSUME Nat \ T # {}
               PROVE  FALSE
  OBVIOUS
<1>2. PICK x \in Nat \ T : \A y \in Nat \ T : x <= y
  BY <1>1, LeastElement
<1>3. x - 1 \in T
  BY <1>2
<1>4. QED
  BY <1>2, <1>3

\* A function may be defined by what it is at 0 and by how it goes on.
Recursive(f, n, base, step) ==
  /\ f[0] = base
  /\ \A k \in 1..n : f[k] = step[<<k, f[k - 1]>>]

Recurs(f, base, step) ==
  f[0] = base /\ \A n \in Nat \ {0} : f[n] = step[<<n, f[n - 1]>>]

LEMMA Recursion ==
  ASSUME NEW V, NEW base \in V, NEW step \in [Nat \X V -> V]
  PROVE  \E f \in [Nat -> V] : Recurs(f, base, step)
<1>1. \A n \in Nat : \E g \in [0..n -> V] : Recursive(g, n, base, step)
  <2> DEFINE T == {n \in Nat : \E g \in [0..n -> V] : Recursive(g, n, base, step)}
  <2>1. 0 \in T
    <3>1. PICK g : g = [k \in 0..0 |-> base]
      OBVIOUS
    <3>2. g \in [0..0 -> V] /\ Recursive(g, 0, base, step)
      BY <3>1 DEF Recursive
    <3>3. \E h \in [0..0 -> V] : Recursive(h, 0, base, step)
      BY <3>2
    <3>4. QED
      BY <3>3
  <2>2. ASSUME NEW n \in T
        PROVE  n + 1 \in T
    <3>1. PICK g \in [0..n -> V] : Recursive(g, n, base, step)
      OBVIOUS
    <3>2. PICK h : h = [k \in 0..(n + 1) |-> IF k = n + 1 THEN step[<<n + 1, g[n]>>] ELSE g[k]]
      OBVIOUS
    <3>3. step[<<n + 1, g[n]>>] \in V
      OBVIOUS
    <3>4. h \in [0..(n + 1) -> V]
      BY <3>2, <3>3
    <3>5. h[0] = base /\ \A k \in 1..n : h[k] = step[<<k, h[k - 1]>>]
      BY <3>1, <3>2 DEF Recursive
    <3>6. h[n + 1] = step[<<n + 1, h[(n + 1) - 1]>>]
      <4>1. n \in Nat /\ n \in 0..(n + 1) /\ n + 1 \in 0..(n + 1) /\ (n + 1) - 1 = n /\ n # n + 1
        OBVIOUS
      <4>2. h[n] = g[n] /\ h[n + 1] = step[<<n + 1, g[n]>>]
        BY <3>2, <4>1
      <4>3. QED
        BY <4>1, <4>2
    <3>7. \A k \in 1..(n + 1) : k \in 1..n \/ k = n + 1
      OBVIOUS
    <3>8. Recursive(h, n + 1, base, step)
      BY <3>5, <3>6, <3>7 DEF Recursive
    <3>9. QED
      BY <3>4, <3>8
  <2>3. T = Nat
    <3>1. T \in SUBSET Nat
      OBVIOUS
    <3> HIDE DEF T
    <3> QED
      BY <2>1, <2>2, <3>1, Induction
  <2>4. QED
    BY <2>3
<1>2. ASSUME NEW m \in Nat, NEW n \in Nat, m <= n,
             NEW g, Recursive(g, m, base, step), NEW h, Recursive(h, n, base, step)
      PROVE  \A k \in 0..m : g[k] = h[k]
  <2> DEFINE T == {k \in Nat : k <= m => g[k] = h[k]}
  <2>1. 0 \in T
    BY <1>2 DEF Recursive
  <2>2. ASSUME NEW k \in T
        PROVE  k + 1 \in T
    <3>1. SUFFICES ASSUME k + 1 <= m
                   PROVE  g[k + 1] = h[k + 1]
      OBVIOUS
    <3>2. g[k] = h[k] /\ k + 1 \in 1..m /\ k + 1 \in 1..n /\ (k + 1) - 1 = k
      BY <1>2, <3>1
    <3>3. g[k + 1] = step[<<k + 1, g[k]>>] /\ h[k + 1] = step[<<k + 1, h[k]>>]
      BY <1>2, <3>2 DEF Recursive
    <3>4. QED
      BY <3>2, <3>3
  <2>3. T = Nat
    <3>1. T \in SUBSET Nat
      OBVIOUS
    <3> HIDE DEF T
    <3> QED
      BY <2>1, <2>2, <3>1, Induction
  <2>4. QED
    BY <2>3
<1> DEFINE part(n) == CHOOSE g \in [0..n -> V] : Recursive(g, n, base, step)
           f == [n \in Nat |-> part(n)[n]]
<1>3. \A n \in Nat : part(n) \in [0..n -> V] /\ Recursive(part(n), n, base, step)
  BY <1>1
<1> HIDE DEF part
<1>4. f \in [Nat -> V]
  BY <1>3
<1>5. f[0] = base
  BY <1>3 DEF Recursive
<1>6. ASSUME NEW n \in Nat \ {0}
      PROVE  f[n] = step[<<n, f[n - 1]>>]
  <2>1. n - 1 \in Nat /\ n - 1 <= n /\ n - 1 \in 0..(n - 1) /\ n \in 1..n
    OBVIOUS
  <2>2. part(n)[n - 1] = part(n - 1)[n - 1]
    BY <1>2, <1>3, <2>1
  <2>3. part(n)[n] = step[<<n, part(n)[n - 1]>>]
    BY <1>3, <2>1 DEF Recursive
  <2>4. QED
    BY <2>1, <2>2, <2>3
<1>7. Recurs(f, base, step)
  BY <1>5, <1>6 DEF Recurs
<1>8. QED
  BY <1>4, <1>7
=============================================================================

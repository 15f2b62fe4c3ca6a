---------------------------- MODULE NatRecursion ----------------------------
(***************************************************************************)
(* Induction and recursion on the natural numbers, stated with sets and    *)
(* functions, for the recursive functions of the models.                   *)
(***************************************************************************)
EXTENDS Naturals, WellFoundedInduction, TLAPS

\* A set that has 0 and the successor of each of its members is Nat.
LEMMA NatSetInduction ==
  ASSUME NEW T \in SUBSET Nat, 0 \in T, \A n \in T : n + 1 \in T
  PROVE  T = Nat
<1> SUFFICES ASSUME Nat \ T # {}
             PROVE  FALSE
  OBVIOUS
<1>1. PICK x \in Nat \ T : \A y \in Nat \ T : <<y, x>> \notin OpToRel(<, Nat)
  BY NatLessThanWellFounded, WFMin
<1>2. x # 0 /\ x - 1 \in Nat /\ x - 1 < x
  BY SMT
<1>3. <<x - 1, x>> \in OpToRel(<, Nat)
  BY <1>2 DEF OpToRel
<1>4. x - 1 \in T
  BY <1>1, <1>2, <1>3
<1> QED
  BY <1>2, <1>4

\* f is start at 0, and step of n and its previous value at every other n.
Iterates(f, start, step, N) ==
  f[0] = start /\ \A n \in 1..N : f[n] = step[<<n, f[n - 1]>>]

\* Up to any N, a start and a step have a function that iterates them.
LEMMA RecursionExists ==
  ASSUME NEW D, NEW start \in D, NEW step \in [Nat \X D -> D], NEW N \in Nat
  PROVE  \E f \in [0..N -> D] : Iterates(f, start, step, N)
<1> DEFINE T == {m \in Nat : \E f \in [0..m -> D] : Iterates(f, start, step, m)}
<1>1. 0 \in T
  <2>1. [i \in 0..0 |-> start] \in [0..0 -> D]
    OBVIOUS
  <2>2. Iterates([i \in 0..0 |-> start], start, step, 0)
    BY DEF Iterates
  <2> QED
    BY <2>1, <2>2
<1>2. ASSUME NEW m \in T
      PROVE  m + 1 \in T
  <2>1. PICK f \in [0..m -> D] : Iterates(f, start, step, m)
    OBVIOUS
  <2> DEFINE next == step[<<m + 1, f[m]>>]
             g == [i \in 0..(m + 1) |-> IF i = m + 1 THEN next ELSE f[i]]
  <2>2. next \in D
    OBVIOUS
  <2>3. /\ g[0] = start
        /\ \A n \in 1..m : g[n] = step[<<n, g[n - 1]>>]
        /\ g[m + 1] = next /\ g[m] = f[m]
    <3> HIDE DEF next
    <3> QED
      BY <2>1 DEF Iterates
  <2>4. Iterates(g, start, step, m + 1)
    <3>1. m + 1 - 1 = m
      OBVIOUS
    <3> HIDE DEF g, next
    <3>2. g[m + 1] = step[<<m + 1, g[m + 1 - 1]>>]
      BY <2>3, <3>1 DEF next
    <3>3. ASSUME NEW n \in 1..(m + 1)
          PROVE  g[n] = step[<<n, g[n - 1]>>]
      <4>1. n \in 1..m \/ n = m + 1
        OBVIOUS
      <4> QED
        BY <2>3, <3>2, <4>1
    <3> QED
      BY <2>3, <3>3 DEF Iterates
  <2>5. g \in [0..(m + 1) -> D]
    <3> HIDE DEF next
    <3> QED
      BY <2>2
  <2>6. \E h \in [0..(m + 1) -> D] : Iterates(h, start, step, m + 1)
    <3> HIDE DEF g
    <3> QED
      BY <2>4, <2>5
  <2> QED
    BY <2>6
<1>3. T \in SUBSET Nat
  OBVIOUS
<1>4. T = Nat
  <2> HIDE DEF T
  <2> QED
    BY <1>1, <1>2, <1>3, NatSetInduction
<1> QED
  BY <1>4

\* Two functions that iterate the same start and step agree.
LEMMA RecursionUnique ==
  ASSUME NEW start, NEW step, NEW f, NEW g, NEW M \in Nat, NEW N \in Nat,
         Iterates(f, start, step, M), Iterates(g, start, step, N)
  PROVE  \A n \in Nat : n <= M /\ n <= N => f[n] = g[n]
<1> DEFINE T == {n \in Nat : n <= M /\ n <= N => f[n] = g[n]}
<1>1. 0 \in T
  BY DEF Iterates
<1>2. ASSUME NEW n \in T
      PROVE  n + 1 \in T
  <2> SUFFICES ASSUME n + 1 <= M, n + 1 <= N
               PROVE  f[n + 1] = g[n + 1]
    OBVIOUS
  <2>1. n + 1 \in 1..M /\ n + 1 \in 1..N /\ n + 1 - 1 = n /\ f[n] = g[n]
    OBVIOUS
  <2>2. f[n + 1] = step[<<n + 1, f[n + 1 - 1]>>] /\ g[n + 1] = step[<<n + 1, g[n + 1 - 1]>>]
    BY <2>1 DEF Iterates
  <2> QED
    BY <2>1, <2>2, Zenon
<1>3. T \in SUBSET Nat
  OBVIOUS
<1>4. T = Nat
  <2> HIDE DEF T
  <2> QED
    BY <1>1, <1>2, <1>3, NatSetInduction
<1> QED
  BY <1>4

=============================================================================

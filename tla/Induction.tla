------------------------------ MODULE Induction ------------------------------
(***************************************************************************)
(* Induction and recursion over the natural numbers, for the proofs about  *)
(* chains and walks.  The library states them for an operator; here they   *)
(* are about sets and functions, and follow from the theorems on finite    *)
(* sets: a set of numbers without a least one could be mapped into itself  *)
(* one to one, but not onto.                                               *)
(***************************************************************************)
EXTENDS Integers, FiniteSets, FiniteSetTheorems, TLAPS

\* A non-empty set of natural numbers has a least element.
LEMMA LeastNumber ==
  ASSUME NEW T \in SUBSET Nat, T # {}
  PROVE  \E m \in T : \A k \in T : m <= k
PROOF
<1> SUFFICES ASSUME \A m \in T : \E k \in T : ~(m <= k) PROVE FALSE OBVIOUS
<1>1. PICK n \in T : TRUE OBVIOUS
<1> DEFINE U == {x \in 0 .. n : \E y \in T : y <= x}
           h == [x \in U |-> x - 1]
<1>2. IsFiniteSet(U)
  <2>1. IsFiniteSet(0 .. n) BY FS_Interval
  <2> QED BY <2>1, FS_Subset
<1>3. ASSUME NEW x \in U PROVE x - 1 \in U
  <2>1. PICK y \in T : y <= x OBVIOUS
  <2>2. PICK z \in T : ~(y <= z) BY <2>1
  <2> QED BY <2>1, <2>2
<1>4. h \in [U -> U] /\ \A a, b \in U : h[a] = h[b] => a = b BY <1>3
<1>5. h \in Injection(U, U)
  <2> HIDE DEF U, h
  <2> QED BY <1>4 DEF Injection, IsInjective
<1>6. h \in Surjection(U, U)
  <2> HIDE DEF U, h
  <2> QED BY <1>2, <1>5, FS_Injection
<1>7. n \in U OBVIOUS
<1>8. PICK x \in U : h[x] = n BY <1>6, <1>7 DEF Surjection
<1> QED BY <1>8

\* A set that holds 0, and with a number the next one, holds all of them.
LEMMA SetInduction ==
  ASSUME NEW S, 0 \in S, \A n \in Nat : n \in S => n + 1 \in S
  PROVE  Nat \subseteq S
PROOF
<1> SUFFICES ASSUME NEW j \in Nat, j \notin S PROVE FALSE OBVIOUS
<1> DEFINE T == {i \in Nat : i \notin S}
<1>1. PICK m \in T : \A k \in T : m <= k
  <2>1. T \in SUBSET Nat /\ T # {} OBVIOUS
  <2> HIDE DEF T
  <2> QED BY <2>1, LeastNumber
<1>2. m \in Nat /\ m # 0 /\ m - 1 \in Nat OBVIOUS
<1>3. m - 1 \in S BY <1>1, <1>2
<1> QED BY <1>2, <1>3

\* The same up to a bound.
LEMMA BoundedInduction ==
  ASSUME NEW N \in Nat, NEW S, 0 \in S,
         \A n \in 0 .. N : n < N /\ n \in S => n + 1 \in S
  PROVE  0 .. N \subseteq S
PROOF
<1> DEFINE U == {n \in Nat : n <= N => n \in S}
<1>1. 0 \in U /\ \A n \in Nat : n \in U => n + 1 \in U OBVIOUS
<1>2. Nat \subseteq U
  <2> HIDE DEF U
  <2> QED BY <1>1, SetInduction
<1> QED BY <1>2

\* A function that is to start at h, and to go on by step, exists.
LEMMA Iterated ==
  ASSUME NEW N \in Nat, NEW X, NEW h \in X, NEW step \in [X -> X]
  PROVE  \E f \in [0 .. N -> X] :
           f = [i \in 0 .. N |-> IF i = 0 THEN h ELSE step[f[i - 1]]]
PROOF
<1> DEFINE Good(n, f) == f = [i \in 0 .. n |-> IF i = 0 THEN h ELSE step[f[i - 1]]]
           S == {n \in Nat : \E f \in [0 .. n -> X] : Good(n, f)}
<1>1. 0 \in S
  <2> DEFINE f == [i \in 0 .. 0 |-> h]
  <2>1. f \in [0 .. 0 -> X] /\ Good(0, f) OBVIOUS
  <2> QED BY <2>1
<1>2. ASSUME NEW n \in Nat, n \in S PROVE n + 1 \in S
  <2>1. PICK f \in [0 .. n -> X] : Good(n, f) BY <1>2
  <2> DEFINE g == [i \in 0 .. n + 1 |-> IF i <= n THEN f[i] ELSE step[f[n]]]
  <2>2. g \in [0 .. n + 1 -> X] OBVIOUS
  <2>3. ASSUME NEW i \in 0 .. n + 1
        PROVE  g[i] = IF i = 0 THEN h ELSE step[g[i - 1]]
    BY <2>1
  <2>4. Good(n + 1, g) BY <2>2, <2>3
  <2>5. \E e \in [0 .. n + 1 -> X] : Good(n + 1, e)
    <3> HIDE DEF Good, g
    <3> QED BY <2>2, <2>4
  <2>6. n + 1 \in Nat OBVIOUS
  <2> HIDE DEF Good
  <2> QED BY <2>5, <2>6
<1>3. N \in S
  <2> HIDE DEF S
  <2> QED BY <1>1, <1>2, SetInduction
<1> QED BY <1>3
=============================================================================

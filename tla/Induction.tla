------------------------------ MODULE Induction ------------------------------
(***************************************************************************)
(* Induction over the numbers up to a bound, stated for sets and functions *)
(* rather than operators, and the existence of what a recursive function   *)
(* defines.                                                                *)
(***************************************************************************)
EXTENDS Integers, WellFoundedInduction, TLAPS

LEMMA LeastNumber ==
    ASSUME NEW T \in SUBSET Nat, T # {} PROVE \E n \in T : \A m \in T : n <= m
<1> DEFINE R == {p \in Nat \X Nat : p[1] < p[2]}
<1>1. IsWellFoundedOn(R, Nat)
  <2>1. R = OpToRel(<, Nat)
    BY Zenon DEF OpToRel
  <2> HIDE DEF R
  <2> QED BY <2>1, NatLessThanWellFounded, Zenon
<1>2. PICK x \in T : \A y \in T : <<y, x>> \notin R
  <2> HIDE DEF R
  <2> QED BY <1>1, WFMin
<1>3. ASSUME NEW y \in T, y < x PROVE FALSE
  <2>1. <<y, x>> \in Nat \X Nat /\ <<y, x>>[1] = y /\ <<y, x>>[2] = x
    OBVIOUS
  <2>2. <<y, x>> \in R
    BY <1>3, <2>1
  <2> QED BY <1>2, <2>2
<1> QED BY <1>3

\* What holds of 0, and of a number up to N if it holds of the one before, holds up to N.
LEMMA UpTo ==
    ASSUME NEW N \in Nat, NEW H, 0 \in H, \A n \in 1 .. N : n - 1 \in H => n \in H
    PROVE  0 .. N \subseteq H
<1> DEFINE T == (0 .. N) \ H
<1> SUFFICES ASSUME T # {} PROVE FALSE
  OBVIOUS
<1>1. T \in SUBSET Nat
  OBVIOUS
<1> HIDE DEF T
<1>2. PICK n \in T : \A m \in T : n <= m
  BY <1>1, LeastNumber
<1>3. n \in 1 .. N
  BY <1>2 DEF T
<1>4. n - 1 \in 0 .. N /\ ~(n <= n - 1)
  BY <1>3
<1>5. n - 1 \in H
  BY <1>2, <1>4 DEF T
<1> QED BY <1>2, <1>3, <1>5 DEF T

\* f is where N steps from start lead, one after the other.
iterates(f, start, step, N) == f[0] = start /\ \A n \in 1 .. N : f[n] = step[n][f[n - 1]]

LEMMA IteratesExist ==
    ASSUME NEW N \in Nat, NEW D, NEW start \in D, NEW step \in [1 .. N -> [D -> D]]
    PROVE  \E f \in [0 .. N -> D] : iterates(f, start, step, N)
<1> DEFINE H == {n \in 0 .. N : \E f \in [0 .. n -> D] : iterates(f, start, step, n)}
<1>1. 0 \in H
  <2> DEFINE f == [i \in 0 .. 0 |-> start]
  <2>1. f \in [0 .. 0 -> D] /\ f[0] = start /\ 1 .. 0 = {}
    OBVIOUS
  <2> HIDE DEF f
  <2> QED BY <2>1 DEF iterates
<1>2. ASSUME NEW n \in 1 .. N, n - 1 \in H PROVE n \in H
  <2>1. PICK f \in [0 .. n - 1 -> D] : iterates(f, start, step, n - 1)
    BY <1>2
  <2>2. n - 1 \in 0 .. n - 1 /\ f[n - 1] \in D /\ step[n] \in [D -> D] /\ 0 \in 0 .. n - 1 /\ 0 # n /\ 0 \in 0 .. n
    BY <1>2
  <2> DEFINE g == [i \in 0 .. n |-> IF i = n THEN step[n][f[n - 1]] ELSE f[i]]
  <2>3. g \in [0 .. n -> D]
    <3>1. \A i \in 0 .. n : i = n \/ i \in 0 .. n - 1
      BY <1>2
    <3> QED BY <2>2, <3>1
  <2>4. g[0] = start
    BY <2>1, <2>2 DEF iterates
  <2>5. ASSUME NEW i \in 1 .. n PROVE g[i] = step[i][g[i - 1]]
    <3>1. i \in 0 .. n /\ i - 1 \in 0 .. n /\ i - 1 # n /\ (i = n \/ i \in 1 .. n - 1)
      BY <1>2
    <3>2. g[i - 1] = f[i - 1] /\ g[i] = IF i = n THEN step[n][f[n - 1]] ELSE f[i]
      BY <3>1
    <3> HIDE DEF g
    <3> QED BY <2>1, <3>1, <3>2 DEF iterates
  <2> HIDE DEF g
  <2> QED BY <2>3, <2>4, <2>5 DEF iterates
<1>3. N \in 0 .. N
  OBVIOUS
<1> HIDE DEF H
<1>4. 0 .. N \subseteq H
  BY <1>1, <1>2, UpTo
<1> QED BY <1>3, <1>4 DEF H
=============================================================================

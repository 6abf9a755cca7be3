---------------------------- MODULE SetInduction ----------------------------
(***************************************************************************)
(* Induction over the natural numbers, with a set in place of a predicate. *)
(***************************************************************************)
EXTENDS Integers, TLAPS, FiniteSetTheorems, FunctionTheorems

(***************************************************************************)
(* A set with 0 and the successor of each of its numbers has them all.  If *)
(* it did not have n, to add one would map the numbers up to n that it     *)
(* has into those without 0, one to one, and there is one less of them.    *)
(***************************************************************************)
LEMMA Induction ==
  ASSUME NEW S, 0 \in S, \A n \in Nat : n \in S => n + 1 \in S
  PROVE  Nat \subseteq S
<1> SUFFICES ASSUME NEW n \in Nat, n \notin S PROVE FALSE
  OBVIOUS
<1> DEFINE A == (0..n) \cap S
           f == [i \in A |-> i + 1]
<1>1. IsFiniteSet(A) /\ 0 \in A /\ A \subseteq Nat
  <2>1. IsFiniteSet(0..n)
    BY FS_Interval
  <2> QED
    BY <2>1, FS_Subset
<1>2. f \in Injection(A, A \ {0})
  <2>1. \A i \in A : i + 1 \in A \ {0}
    OBVIOUS
  <2>2. \A i, j \in A : i # j => f[i] # f[j]
    BY <1>1
  <2> QED
    BY <2>1, <2>2, Fun_IsInj
<1> HIDE DEF A, f
<1>3. /\ IsFiniteSet(A \ {0})
      /\ Cardinality(A \ {0}) = Cardinality(A) - 1
      /\ Cardinality(A) \in Nat
  BY <1>1, FS_RemoveElement, FS_CardinalityType
<1>4. Cardinality(A) <= Cardinality(A \ {0})
  BY <1>1, <1>2, <1>3, FS_Injection
<1> QED
  BY <1>3, <1>4
=============================================================================

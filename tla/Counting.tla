------------------------------ MODULE Counting ------------------------------
(***************************************************************************)
(* Lemmas about counting the members of a finite set, as the words of the  *)
(* primitives do: how a count changes when one member moves.               *)
(***************************************************************************)
EXTENDS Integers, FiniteSets, FiniteSetTheorems, TLAPS

(* What x contributes to a count of the members of A.                      *)
In(x, A) == IF x \in A THEN 1 ELSE 0

(* The count of a part of a finite set is a natural number, it is at most  *)
(* that of the set, and it is zero only for the empty part.                *)
LEMMA CountIsNat ==
  ASSUME NEW S, IsFiniteSet(S), NEW A \in SUBSET S
  PROVE  /\ IsFiniteSet(A)
         /\ Cardinality(A) \in Nat
         /\ Cardinality(A) <= Cardinality(S)
         /\ Cardinality(S) \in Nat
         /\ Cardinality(A) = 0 <=> A = {}
  <1>1. IsFiniteSet(A) /\ Cardinality(A) <= Cardinality(S)
    BY FS_Subset
  <1>2. Cardinality(A) \in Nat /\ Cardinality(S) \in Nat
    BY <1>1, FS_CardinalityType
  <1>3. Cardinality(A) = 0 <=> A = {}
    BY <1>1, FS_EmptySet
  <1> QED
    BY <1>1, <1>2, <1>3

(* When only x may come or go, the count changes by what x contributes.    *)
LEMMA CountStep ==
  ASSUME NEW S, IsFiniteSet(S), NEW A \in SUBSET S, NEW B \in SUBSET S,
         NEW x, A \ {x} = B \ {x}
  PROVE  Cardinality(B) = Cardinality(A) + In(x, B) - In(x, A)
  <1>1. /\ Cardinality(A) \in Nat /\ IsFiniteSet(A)
        /\ Cardinality(B) \in Nat /\ IsFiniteSet(B)
    BY CountIsNat
  <1>2. Cardinality(A \ {x}) = IF x \in A THEN Cardinality(A) - 1 ELSE Cardinality(A)
    BY <1>1, FS_RemoveElement
  <1>3. Cardinality(B \ {x}) = IF x \in B THEN Cardinality(B) - 1 ELSE Cardinality(B)
    BY <1>1, FS_RemoveElement
  <1>4. Cardinality(A \ {x}) = Cardinality(B \ {x})
    OBVIOUS
  <1> QED
    BY <1>1, <1>2, <1>3, <1>4 DEF In

(* The count of two parts that have no member in common.                   *)
LEMMA CountDisjoint ==
  ASSUME NEW S, IsFiniteSet(S), NEW A \in SUBSET S, NEW B \in SUBSET S, A \cap B = {}
  PROVE  Cardinality(A \cup B) = Cardinality(A) + Cardinality(B)
  <1>1. IsFiniteSet(A) /\ IsFiniteSet(B) /\ Cardinality(A) \in Nat /\ Cardinality(B) \in Nat
    BY CountIsNat
  <1>2. Cardinality(A \cup B) = Cardinality(A) + Cardinality(B) - Cardinality(A \cap B)
    BY <1>1, FS_Union
  <1>3. Cardinality(A \cap B) = 0
    BY FS_EmptySet
  <1> QED
    BY <1>1, <1>2, <1>3

(* A part that leaves out a member is smaller than the set.                *)
LEMMA CountProper ==
  ASSUME NEW S, IsFiniteSet(S), NEW A \in SUBSET S, NEW x \in S, x \notin A
  PROVE  Cardinality(A) < Cardinality(S)
  <1>1. Cardinality(A) \in Nat /\ Cardinality(S) \in Nat /\ Cardinality(A) <= Cardinality(S)
    BY CountIsNat
  <1>2. Cardinality(S) = Cardinality(A) => S = A
    BY FS_Subset
  <1> QED
    BY <1>1, <1>2

(* The count of a part is 1 when x is all of it.                           *)
LEMMA CountOnly ==
  ASSUME NEW A, NEW x, A = {x}
  PROVE  Cardinality(A) = 1
  BY FS_Singleton

-----------------------------------------------------------------------------
(* The members of S that f puts in L.                                      *)
At(S, f, L) == Cardinality({x \in S : f[x] \in L})

(* Counts of the members at some places of a function (a program counter). *)
LEMMA AtIsNat ==
  ASSUME NEW S, IsFiniteSet(S), NEW f, NEW L
  PROVE  /\ At(S, f, L) \in Nat
         /\ Cardinality(S) \in Nat
         /\ At(S, f, L) <= Cardinality(S)
         /\ At(S, f, L) = 0 <=> \A x \in S : f[x] \notin L
         /\ \A x \in S : f[x] \notin L => At(S, f, L) < Cardinality(S)
         /\ \A x \in S : f[x] \in L => At(S, f, L) > 0
  <1> DEFINE A == {x \in S : f[x] \in L}
  <1>1. A \in SUBSET S
    OBVIOUS
  <1>2. /\ Cardinality(A) \in Nat /\ Cardinality(S) \in Nat
        /\ Cardinality(A) <= Cardinality(S)
        /\ Cardinality(A) = 0 <=> A = {}
    BY <1>1, CountIsNat
  <1>3. \A x \in S : x \notin A => Cardinality(A) < Cardinality(S)
    BY <1>1, CountProper
  <1> QED
    BY <1>2, <1>3 DEF At

(* f becomes h, and nobody moves but g.                                    *)
OthersStay(S, f, h, g) == \A x \in S \ {g} : h[x] = f[x]

(* g moves from f[g] to h[g].                                              *)
LEMMA AtMove ==
  ASSUME NEW S, IsFiniteSet(S), NEW f, NEW h, NEW g \in S, NEW L, OthersStay(S, f, h, g)
  PROVE  At(S, h, L) = At(S, f, L) + In(h[g], L) - In(f[g], L)
  <1> DEFINE A == {x \in S : f[x] \in L}
             B == {x \in S : h[x] \in L}
  <1>1. A \in SUBSET S /\ B \in SUBSET S
    OBVIOUS
  <1>2. A \ {g} = B \ {g}
    BY DEF OthersStay
  <1>3. Cardinality(B) = Cardinality(A) + In(g, B) - In(g, A)
    BY <1>1, <1>2, CountStep
  <1>4. (g \in B <=> h[g] \in L) /\ (g \in A <=> f[g] \in L)
    OBVIOUS
  <1> QED
    BY <1>3, <1>4 DEF At, In

(* The members at the places of two disjoint sets.                         *)
LEMMA AtDisjoint ==
  ASSUME NEW S, IsFiniteSet(S), NEW f, NEW L, NEW M, L \cap M = {}
  PROVE  At(S, f, L \cup M) = At(S, f, L) + At(S, f, M)
  <1> DEFINE A == {x \in S : f[x] \in L}
             B == {x \in S : f[x] \in M}
  <1>1. A \in SUBSET S /\ B \in SUBSET S /\ A \cap B = {}
    OBVIOUS
  <1>2. Cardinality(A \cup B) = Cardinality(A) + Cardinality(B)
    BY <1>1, CountDisjoint
  <1>3. A \cup B = {x \in S : f[x] \in L \cup M}
    OBVIOUS
  <1> QED
    BY <1>2, <1>3 DEF At

(* One member only is at the places of L.                                  *)
LEMMA AtOnly ==
  ASSUME NEW S, IsFiniteSet(S), NEW f, NEW L, NEW g \in S, f[g] \in L,
         \A x \in S : f[x] \in L => x = g
  PROVE  At(S, f, L) = 1
  <1>1. {x \in S : f[x] \in L} = {g}
    OBVIOUS
  <1> QED
    BY <1>1, CountOnly DEF At

=============================================================================

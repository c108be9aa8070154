------------------------------ MODULE SumsProofs -----------------------------
(***************************************************************************)
(* How the sums of module Sums add up, split and compare.                  *)
(***************************************************************************)
EXTENDS Sums, FiniteSetTheorems, FunctionTheorems, TLAPS

(***************************************************************************)
(* W gives every element of the finite set S a natural weight.             *)
(***************************************************************************)
Weighs(W, S) == IsFiniteSet(S) /\ \A x \in S : W[x] \in Nat

(***************************************************************************)
(* The units of one element are as many as its weight.                     *)
(***************************************************************************)
LEMMA UnitsOfOne ==
  ASSUME NEW x, NEW n \in Nat
  PROVE  IsFiniteSet({x} \X (1 .. n)) /\ Cardinality({x} \X (1 .. n)) = n
<1>1. IsFiniteSet({x}) /\ Cardinality({x}) = 1
  BY FS_Singleton
<1>2. IsFiniteSet(1 .. n) /\ Cardinality(1 .. n) = n
  BY FS_Interval
<1>3. /\ IsFiniteSet({x} \X (1 .. n))
      /\ Cardinality({x} \X (1 .. n)) = Cardinality({x}) * Cardinality(1 .. n)
  BY <1>1, <1>2, FS_Product, Zenon
<1> QED
  BY <1>1, <1>2, <1>3

(***************************************************************************)
(* A finite collection has finitely many units.                            *)
(***************************************************************************)
LEMMA UnitsFinite ==
  ASSUME NEW W, NEW S, Weighs(W, S)
  PROVE  IsFiniteSet(UnitsOf(W, S)) /\ Total(W, S) \in Nat
<1> DEFINE parts == {{x} \X (1 .. W[x]) : x \in S}
           f == [x \in S |-> {x} \X (1 .. W[x])]
<1>1. f \in Surjection(S, parts)
  BY DEF Surjection
<1>2. IsFiniteSet(parts)
  BY <1>1, FS_Surjection DEF Weighs
<1>3. \A x \in S : IsFiniteSet({x} \X (1 .. W[x]))
  BY UnitsOfOne, Zenon DEF Weighs
<1>4. IsFiniteSet(UNION parts)
  <2>1. \A T \in parts : IsFiniteSet(T)
    BY <1>3
  <2> QED
    BY <1>2, <2>1, FS_UNION
<1> QED
  BY <1>4, FS_CardinalityType DEF UnitsOf, Total

(***************************************************************************)
(* Sums over disjoint collections add up.                                  *)
(***************************************************************************)
LEMMA TotalUnion ==
  ASSUME NEW W, NEW S, NEW T, Weighs(W, S), Weighs(W, T), S \cap T = {}
  PROVE  Total(W, S \cup T) = Total(W, S) + Total(W, T)
<1>1. UnitsOf(W, S \cup T) = UnitsOf(W, S) \cup UnitsOf(W, T)
  BY DEF UnitsOf
<1>2. UnitsOf(W, S) \cap UnitsOf(W, T) = {}
  BY DEF UnitsOf
<1>3. /\ IsFiniteSet(UnitsOf(W, S)) /\ IsFiniteSet(UnitsOf(W, T))
      /\ Total(W, S) \in Nat /\ Total(W, T) \in Nat
  BY UnitsFinite, Zenon
<1>4. Cardinality(UnitsOf(W, S) \cup UnitsOf(W, T))
        = Cardinality(UnitsOf(W, S)) + Cardinality(UnitsOf(W, T))
            - Cardinality(UnitsOf(W, S) \cap UnitsOf(W, T))
  BY <1>3, FS_Union, Zenon
<1>5. Cardinality(UnitsOf(W, S) \cap UnitsOf(W, T)) = 0
  BY <1>2, FS_EmptySet
<1>6. Total(W, S \cup T) = Total(W, S) + Total(W, T) - 0
  BY <1>1, <1>4, <1>5 DEF Total
<1> QED
  BY <1>3, <1>6

(***************************************************************************)
(* What is taken out of a collection is missing from its sum.              *)
(***************************************************************************)
LEMMA TotalDifference ==
  ASSUME NEW W, NEW S, NEW T, Weighs(W, S), T \subseteq S
  PROVE  /\ Total(W, S \ T) = Total(W, S) - Total(W, T)
         /\ Total(W, S) \in Nat /\ Total(W, T) \in Nat /\ Total(W, S \ T) \in Nat
<1>1. Weighs(W, T) /\ Weighs(W, S \ T)
  BY FS_Subset, FS_Difference DEF Weighs
<1>2. S = (S \ T) \cup T /\ (S \ T) \cap T = {}
  OBVIOUS
<1>3. Total(W, S) = Total(W, S \ T) + Total(W, T)
  BY <1>1, <1>2, TotalUnion
<1>4. Total(W, S) \in Nat /\ Total(W, T) \in Nat /\ Total(W, S \ T) \in Nat
  BY <1>1, UnitsFinite
<1> QED
  BY <1>3, <1>4

(***************************************************************************)
(* The sum over nothing.                                                   *)
(***************************************************************************)
LEMMA TotalEmpty ==
  ASSUME NEW W
  PROVE  Total(W, {}) = 0
<1>1. UnitsOf(W, {}) = {}
  BY DEF UnitsOf
<1> QED
  BY <1>1, FS_EmptySet DEF Total

(***************************************************************************)
(* The sum over one element.                                               *)
(***************************************************************************)
LEMMA TotalSingle ==
  ASSUME NEW W, NEW x, W[x] \in Nat
  PROVE  Total(W, {x}) = W[x]
<1>1. UnitsOf(W, {x}) = {x} \X (1 .. W[x])
  BY DEF UnitsOf
<1> QED
  BY <1>1, UnitsOfOne DEF Total

(***************************************************************************)
(* Only the weights of the elements matter.                                *)
(***************************************************************************)
LEMMA TotalSame ==
  ASSUME NEW V, NEW W, NEW S, \A x \in S : V[x] = W[x]
  PROVE  Total(V, S) = Total(W, S)
<1>1. UnitsOf(V, S) = UnitsOf(W, S)
  BY DEF UnitsOf
<1> QED
  BY <1>1 DEF Total

(***************************************************************************)
(* Elements of weight zero do not count.                                   *)
(***************************************************************************)
LEMMA TotalZeros ==
  ASSUME NEW W, NEW S, NEW T \in SUBSET S, \A x \in S \ T : W[x] = 0
  PROVE  Total(W, S) = Total(W, T)
<1>1. \A x \in S \ T : 1 .. W[x] = {}
  OBVIOUS
<1>2. UnitsOf(W, S) = UnitsOf(W, T)
  BY <1>1 DEF UnitsOf
<1> QED
  BY <1>2 DEF Total

(***************************************************************************)
(* The sum of sums is the sum of the parts: the second part of every       *)
(* element is counted after its first.                                     *)
(***************************************************************************)
LEMMA TotalPlus ==
  ASSUME NEW U, NEW V, NEW W, NEW S, Weighs(U, S), Weighs(V, S),
         \A x \in S : W[x] = U[x] + V[x]
  PROVE  Total(W, S) = Total(U, S) + Total(V, S)
<1> DEFINE A == UnitsOf(U, S)
           B == UNION {{x} \X ((U[x] + 1) .. (U[x] + V[x])) : x \in S}
           C == UnitsOf(V, S)
           g == [z \in C |-> <<z[1], U[z[1]] + z[2]>>]
<1>1. \A x \in S : U[x] \in Nat /\ V[x] \in Nat
  BY DEF Weighs
<1>2. UnitsOf(W, S) = A \cup B /\ A \cap B = {}
  <2>1. \A x \in S : /\ 1 .. W[x] = (1 .. U[x]) \cup ((U[x] + 1) .. (U[x] + V[x]))
                     /\ (1 .. U[x]) \cap ((U[x] + 1) .. (U[x] + V[x])) = {}
    BY <1>1
  <2> QED
    BY <2>1 DEF UnitsOf
<1>3. g \in Bijection(C, B)
  <2>1. \A z : z \in C <=> \E x \in S : \E k \in 1 .. V[x] : z = <<x, k>>
    BY DEF UnitsOf
  <2>2. \A z : z \in B <=> \E x \in S :
                       \E k \in (U[x] + 1) .. (U[x] + V[x]) : z = <<x, k>>
    OBVIOUS
  <2>3. \A z \in C : g[z] \in B
    <3> SUFFICES ASSUME NEW x \in S, NEW k \in 1 .. V[x]
                 PROVE  <<x, U[x] + k>> \in B
      BY <2>1
    <3>1. U[x] + k \in (U[x] + 1) .. (U[x] + V[x])
      BY <1>1
    <3> QED
      BY <3>1
  <2>4. \A y, z \in C : g[y] = g[z] => y = z
    <3> SUFFICES ASSUME NEW x \in S, NEW k \in 1 .. V[x], NEW y \in S, NEW m \in 1 .. V[y],
                        <<x, U[x] + k>> = <<y, U[y] + m>>
                 PROVE  <<x, k>> = <<y, m>>
      BY <2>1
    <3> QED
      BY <1>1
  <2>5. \A z \in B : \E y \in C : g[y] = z
    <3> TAKE z \in B
    <3>1. PICK x \in S : \E k \in (U[x] + 1) .. (U[x] + V[x]) : z = <<x, k>>
      BY <2>2
    <3>2. PICK k \in (U[x] + 1) .. (U[x] + V[x]) : z = <<x, k>>
      BY <3>1
    <3>3. k - U[x] \in 1 .. V[x] /\ U[x] + (k - U[x]) = k
      BY <1>1
    <3>4. <<x, k - U[x]>> \in C
      BY <2>1, <3>3
    <3> QED
      BY <3>2, <3>3, <3>4
  <2> QED
    BY <2>3, <2>4, <2>5 DEF Bijection, Injection, Surjection, IsInjective
<1>4. IsFiniteSet(A) /\ IsFiniteSet(C) /\ Total(U, S) \in Nat /\ Total(V, S) \in Nat
  BY UnitsFinite, Zenon
<1>5. IsFiniteSet(B) /\ Cardinality(B) = Cardinality(C)
  <2>1. ExistsBijection(C, B)
    BY <1>3 DEF ExistsBijection
  <2> QED
    BY <1>4, <2>1, FS_Bijection
<1>6. Cardinality(A \cup B) = Cardinality(A) + Cardinality(B) - Cardinality(A \cap B)
  BY <1>4, <1>5, FS_Union, Zenon
<1>7. Cardinality(A \cap B) = 0
  BY <1>2, FS_EmptySet
<1>8. Total(W, S) = Total(U, S) + Total(V, S) - 0
  BY <1>2, <1>5, <1>6, <1>7 DEF Total
<1> QED
  BY <1>4, <1>8

(***************************************************************************)
(* A sum does not depend on the names of what is summed.                   *)
(***************************************************************************)
LEMMA TotalRenamed ==
  ASSUME NEW V, NEW W, NEW S, NEW T, NEW f \in Bijection(S, T), Weighs(W, S),
         \A x \in S : V[f[x]] = W[x]
  PROVE  Total(V, T) = Total(W, S)
<1> DEFINE A == UnitsOf(W, S)
           B == UnitsOf(V, T)
           g == [z \in A |-> <<f[z[1]], z[2]>>]
<1>1. /\ \A x \in S : f[x] \in T
      /\ \A x, y \in S : f[x] = f[y] => x = y
      /\ \A y \in T : \E x \in S : f[x] = y
  BY DEF Bijection, Injection, Surjection, IsInjective
<1>2. \A z : z \in A <=> \E x \in S : \E k \in 1 .. W[x] : z = <<x, k>>
  BY DEF UnitsOf
<1>3. \A z : z \in B <=> \E y \in T : \E k \in 1 .. V[y] : z = <<y, k>>
  BY DEF UnitsOf
<1>4. g \in Bijection(A, B)
  <2>1. \A z \in A : g[z] \in B
    <3> SUFFICES ASSUME NEW x \in S, NEW k \in 1 .. W[x] PROVE <<f[x], k>> \in B
      BY <1>2
    <3> QED
      BY <1>1, <1>3
  <2>2. \A y, z \in A : g[y] = g[z] => y = z
    <3> SUFFICES ASSUME NEW x \in S, NEW k \in 1 .. W[x], NEW y \in S, NEW m \in 1 .. W[y],
                        <<f[x], k>> = <<f[y], m>>
                 PROVE  <<x, k>> = <<y, m>>
      BY <1>2
    <3> QED
      BY <1>1
  <2>3. \A z \in B : \E y \in A : g[y] = z
    <3> TAKE z \in B
    <3>1. PICK y \in T : \E k \in 1 .. V[y] : z = <<y, k>>
      BY <1>3
    <3>2. PICK k \in 1 .. V[y] : z = <<y, k>>
      BY <3>1
    <3>3. PICK x \in S : f[x] = y
      BY <1>1
    <3>4. <<x, k>> \in A
      BY <1>2, <3>2, <3>3
    <3> QED
      BY <3>2, <3>3, <3>4
  <2> QED
    BY <2>1, <2>2, <2>3 DEF Bijection, Injection, Surjection, IsInjective
<1>5. IsFiniteSet(A)
  BY UnitsFinite
<1>6. Cardinality(B) = Cardinality(A)
  <2>1. ExistsBijection(A, B)
    BY <1>4 DEF ExistsBijection
  <2> QED
    BY <1>5, <2>1, FS_Bijection
<1> QED
  BY <1>6 DEF Total

(***************************************************************************)
(* Nothing adds up to zero but nothing.                                    *)
(***************************************************************************)
LEMMA TotalZero ==
  ASSUME NEW W, NEW S, Weighs(W, S), \A x \in S : W[x] > 0, Total(W, S) = 0
  PROVE  S = {}
<1> SUFFICES ASSUME NEW x \in S PROVE FALSE
  OBVIOUS
<1>1. W[x] \in Nat /\ 1 \in 1 .. W[x]
  BY DEF Weighs
<1>2. <<x, 1>> \in UnitsOf(W, S)
  BY <1>1 DEF UnitsOf
<1>3. IsFiniteSet(UnitsOf(W, S))
  BY UnitsFinite
<1> QED
  BY <1>2, <1>3, FS_EmptySet DEF Total

(***************************************************************************)
(* Larger weights, larger sum.                                             *)
(***************************************************************************)
LEMMA TotalMonotone ==
  ASSUME NEW V, NEW W, NEW S, Weighs(V, S), Weighs(W, S), \A x \in S : V[x] <= W[x]
  PROVE  Total(V, S) <= Total(W, S)
<1>1. \A x \in S : V[x] \in Nat /\ W[x] \in Nat
  BY DEF Weighs
<1>2. \A x \in S : 1 .. V[x] \subseteq 1 .. W[x]
  BY <1>1
<1>3. UnitsOf(V, S) \subseteq UnitsOf(W, S)
  BY <1>2 DEF UnitsOf
<1>4. IsFiniteSet(UnitsOf(W, S))
  BY UnitsFinite
<1> QED
  BY <1>3, <1>4, FS_Subset DEF Total

(* What f sends to t, and V as the sums of these groups. *)
Fibre(S, f, t) == {x \in S : f[x] = t}

Groups(V, T, W, S, f) ==
  /\ \A x \in S : f[x] \in T
  /\ \A t \in T : V[t] = Total(W, Fibre(S, f, t))

(***************************************************************************)
(* The sum of the sums of the groups, by f, of a finite collection is the  *)
(* sum of the collection, even when infinitely many groups are empty.      *)
(***************************************************************************)
LEMMA TotalByGroup ==
  ASSUME NEW V, NEW T, NEW W, NEW S, NEW f, Weighs(W, S), Groups(V, T, W, S, f)
  PROVE  Total(V, T) = Total(W, S)
<1> DEFINE Group(t) == UnitsOf(W, Fibre(S, f, t))
           A == UnitsOf(V, T)
           B == UnitsOf(W, S)
<1>1. \A t \in T : IsFiniteSet(Group(t)) /\ V[t] = Cardinality(Group(t))
  <2> TAKE t \in T
  <2>1. Weighs(W, Fibre(S, f, t))
    BY FS_Subset DEF Weighs, Fibre
  <2> QED
    BY <2>1, UnitsFinite DEF Total, Groups
<1>2. \A t \in T : \E b : b \in Bijection(1 .. V[t], Group(t))
  <2> HIDE DEF Group
  <2> QED
    BY <1>1, FS_NatBijection, FS_CountingElements DEF ExistsBijection
<1> DEFINE number == [t \in T |-> CHOOSE b : b \in Bijection(1 .. V[t], Group(t))]
           g == [z \in A |-> number[z[1]][z[2]]]
<1>3. \A t \in T : number[t] \in Bijection(1 .. V[t], Group(t))
  <2> HIDE DEF Group
  <2> QED
    BY <1>2
<1> HIDE DEF number
<1>4. \A t \in T : /\ \A k \in 1 .. V[t] : number[t][k] \in Group(t)
                   /\ \A k, m \in 1 .. V[t] : number[t][k] = number[t][m] => k = m
                   /\ \A u \in Group(t) : \E k \in 1 .. V[t] : number[t][k] = u
  <2> HIDE DEF Group
  <2> QED
    BY <1>3 DEF Bijection, Injection, Surjection, IsInjective
<1>5. \A z : z \in A <=> \E t \in T : \E k \in 1 .. V[t] : z = <<t, k>>
  BY DEF UnitsOf
<1>6. \A u : u \in B <=> \E x \in S : \E k \in 1 .. W[x] : u = <<x, k>>
  BY DEF UnitsOf
<1>7. \A t \in T : \A u \in Group(t) : u \in B /\ f[u[1]] = t
  BY DEF UnitsOf, Fibre
<1>8. \A u \in B : f[u[1]] \in T /\ u \in Group(f[u[1]])
  BY DEF UnitsOf, Fibre, Groups
<1> HIDE DEF Group, A, B
<1>9. g \in Bijection(A, B)
  <2>1. \A z \in A : g[z] \in B
    BY <1>4, <1>5, <1>7
  <2>2. \A y, z \in A : g[y] = g[z] => y = z
    <3> SUFFICES ASSUME NEW t \in T, NEW k \in 1 .. V[t], NEW v \in T, NEW m \in 1 .. V[v],
                        number[t][k] = number[v][m]
                 PROVE  <<t, k>> = <<v, m>>
      BY <1>5
    <3>1. t = v
      BY <1>4, <1>7
    <3> QED
      BY <1>4, <3>1
  <2>3. \A u \in B : \E z \in A : g[z] = u
    <3> TAKE u \in B
    <3>1. PICK t \in T : u \in Group(t)
      BY <1>8
    <3>2. PICK k \in 1 .. V[t] : number[t][k] = u
      BY <1>4, <3>1
    <3>3. <<t, k>> \in A
      BY <1>5
    <3> QED
      BY <3>2, <3>3
  <2> QED
    BY <2>1, <2>2, <2>3 DEF Bijection, Injection, Surjection, IsInjective
<1>10. IsFiniteSet(B)
  BY UnitsFinite DEF B
<1>11. Cardinality(A) = Cardinality(B)
  <2>1. ExistsBijection(A, B)
    BY <1>9 DEF ExistsBijection
  <2>2. ExistsBijection(B, A)
    BY <2>1, Fun_ExistsBijSymmetric
  <2> QED
    BY <1>10, <2>2, FS_Bijection
<1> QED
  BY <1>11 DEF Total, A, B
=============================================================================

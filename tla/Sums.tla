-------------------------------- MODULE Sums ---------------------------------
(***************************************************************************)
(* Sums over finite sets, in a form the provers can reason about.          *)
(***************************************************************************)
EXTENDS Integers, FiniteSets

(***************************************************************************)
(* The sum of the naturals W[x] over x \in S, as the number of units of a  *)
(* disjoint union.                                                         *)
(***************************************************************************)
UnitsOf(W, S) == UNION {{x} \X (1 .. W[x]) : x \in S}

Total(W, S) == Cardinality(UnitsOf(W, S))
=============================================================================

------------------------------- MODULE Ranks -------------------------------
(* Sets of numbers, in rising order. *)
EXTENDS Naturals, FiniteSets

\* The k-th of a set of numbers.
Nth(D, k) == CHOOSE d \in D : Cardinality({e \in D : e <= d}) = k
=============================================================================

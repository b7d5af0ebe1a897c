------------------------------- MODULE Ascending -------------------------------
(***************************************************************************)
(* The members of a finite set of integers in increasing order, by their    *)
(* rank in it: SetToSortSeq of the community modules, in a form that can be  *)
(* reasoned about.                                                           *)
(***************************************************************************)
EXTENDS Integers, FiniteSets

Rank(S, i) == Cardinality({j \in S : j < i})

Ascending(S) == [n \in 1 .. Cardinality(S) |-> CHOOSE i \in S : Rank(S, i) = n - 1]
===============================================================================

------------------------------ MODULE ListOrder ------------------------------
(***************************************************************************)
(* Sets of list positions visited in list order, the way a walk along a    *)
(* linked list (cur = cur->next) meets them.                               *)
(***************************************************************************)
EXTENDS Integers, FiniteSets

\* How many members of the set of positions S are at or before i
Rank(S, i) == Cardinality({j \in S : j <= i})

\* The positions in S, in list order
InOrder(S) == [n \in 1 .. Cardinality(S) |-> CHOOSE i \in S : Rank(S, i) = n]
=============================================================================

------------------------------ MODULE Sublists ------------------------------
(***************************************************************************)
(* A list with some of its entries left out, as filter().collect() and     *)
(* retain() leave it, and the members of a set in the order a BTreeMap      *)
(* keeps them in.  Defined by positions and not by recursion, so that       *)
(* proofs can speak of them.                                                *)
(***************************************************************************)
EXTENDS Integers, Sequences, FiniteSets

\* The n-th of the positions K, counted from the lowest.
Nth(K, n) == CHOOSE i \in K : Cardinality({j \in K : j <= i}) = n

\* What a list holds at the positions K, in its order.
Sublist(list, K) == [n \in 1..Cardinality(K) |-> list[Nth(K, n)]]

\* The members of a finite set, lowest first.
InOrder(S, Less(_, _)) == [n \in 1..Cardinality(S) |-> CHOOSE k \in S : Cardinality({j \in S : Less(j, k)}) = n - 1]
=============================================================================

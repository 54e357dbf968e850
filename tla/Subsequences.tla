---------------------------- MODULE Subsequences ----------------------------
(***************************************************************************)
(* The elements of a set of numbers in ascending order, and those of a     *)
(* sequence at a set of places in the order they have there: what the      *)
(* loops of the code that filter a slice, and its calls of sort, compute.  *)
(* They are given by rank, so that what is to be known of them follows     *)
(* from counting and not from how a loop goes.                             *)
(***************************************************************************)
EXTENDS Integers, Sequences, FiniteSets

(* The element of a finite set of numbers with k of them up to it.         *)
Rank(I, i) == Cardinality({j \in I : j <= i})
Nth(I, k)  == CHOOSE i \in I : Rank(I, i) = k

Ascending(I) == [k \in 1..Cardinality(I) |-> Nth(I, k)]

(* The elements of s at the places I.                                      *)
At(s, I) == [k \in 1..Cardinality(I) |-> s[Nth(I, k)]]
=============================================================================

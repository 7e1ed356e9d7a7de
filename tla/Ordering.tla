------------------------------- MODULE Ordering -------------------------------
(***************************************************************************)
(* What the code gets from std::sort, and from loops that skip elements.   *)
(* SortSeq and SelectSeq say the same, but have no definition that a proof *)
(* could expand.                                                           *)
(***************************************************************************)
EXTENDS Naturals, FiniteSets

\* The numbers of a finite set, in their order: each has as many below it as its place says.
Ascending(T) ==
  [k \in 1..Cardinality(T) |-> CHOOSE i \in T : Cardinality({j \in T : j < i}) = k - 1]

\* The elements of a sequence at some of its places, in the order they have there.
Selected(s, places) ==
  LET order == Ascending(places) IN [k \in 1..Cardinality(places) |-> s[order[k]]]
=============================================================================

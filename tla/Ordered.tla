------------------------------- MODULE Ordered -------------------------------
(***************************************************************************)
(* The elements of a finite set as a sequence, each before the next one:   *)
(* how the code walks a std::map, or a vector filled by nested loops.      *)
(***************************************************************************)
EXTENDS Naturals, FiniteSets

\* An order is the set of the pairs of an element and a later one.
InOrder(S, order) ==
  CHOOSE s \in [1 .. Cardinality(S) -> S] :
    \A m, n \in DOMAIN s : m < n => <<s[m], s[n]>> \in order

LessThan(S) == {e \in S \X S : e[1] < e[2]}

Ascending(S) == InOrder(S, LessThan(S))
=============================================================================

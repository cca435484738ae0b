------------------------------- MODULE Ordering -------------------------------
(****************************************************************************)
(* The members of a finite set, one after the other: what sorting a list of *)
(* different things comes to, and, with the indices of a list as the set,   *)
(* picking some of its entries without changing their order.                *)
(****************************************************************************)
EXTENDS Integers, FiniteSets

\* S as a sequence in which the place of a member is the number of those before
\* it; before is a strict total order, as a set of pairs.
InOrder(S, before) ==
    [k \in 1 .. Cardinality(S) |->
        CHOOSE x \in S : Cardinality({y \in S : <<y, x>> \in before}) = k - 1]

\* A set of integers, from the least one on.
Ascending(S) == InOrder(S, {pair \in S \X S : pair[1] < pair[2]})
=============================================================================

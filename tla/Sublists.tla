------------------------------ MODULE Sublists ------------------------------
(* What a loop that keeps some elements of a list leaves of it: the purge of *)
(* worker/pool.go, and the filter of the session list in store/session.js.   *)
EXTENDS Naturals, FiniteSets, Sequences

\* The elements of s at the positions I, in their order.
Sublist(s, I) ==
  [k \in 1..Cardinality(I) |-> s[CHOOSE i \in I : Cardinality({j \in I : j <= i}) = k]]
=============================================================================

------------------------------- MODULE Vectors -------------------------------
(***************************************************************************)
(* What the compiler's loops over a std::vector leave of it: the elements  *)
(* at some of its positions, in their order.                               *)
(***************************************************************************)
EXTENDS Naturals, Sequences, FiniteSets

\* The k-th number of a set of numbers, and all of them in order.
Nth(S, k) == CHOOSE i \in S : Cardinality({j \in S : j < i}) = k - 1
Ascending(S) == [k \in 1..Cardinality(S) |-> Nth(S, k)]

\* What erase_if leaves of s when it spares the positions S.
Kept(s, S) == [k \in 1..Cardinality(S) |-> s[Nth(S, k)]]
==============================================================================

------------------------------ MODULE Subsequences ------------------------------
(***************************************************************************)
(* The entries of a sequence at some of its positions, in their order.     *)
(* SelectSeq would say the same by recursion over the sequence, which      *)
(* cannot be reasoned about; positions can.                                *)
(***************************************************************************)
EXTENDS Naturals, Sequences, FiniteSets

\* How many of the numbers S are no larger than i, and the one that m of them are not.
Rank(S, i) == Cardinality({j \in S : j <= i})
Nth(S, m) == CHOOSE i \in S : Rank(S, i) = m

\* The entries of q at the positions S.
Selected(q, S) == [m \in 1 .. Cardinality(S) |-> q[Nth(S, m)]]

=============================================================================

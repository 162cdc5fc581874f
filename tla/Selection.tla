----------------------------- MODULE Selection -----------------------------
(***************************************************************************)
(* The elements of a sequence that belong to a set, in their order: the    *)
(* list comprehension "[o for o in orders if ...]".  It is SelectSeq,      *)
(* stated without recursion so that it can be reasoned about.              *)
(***************************************************************************)
EXTENDS Naturals, Sequences, FiniteSets

\* The n-th smallest index of I
Nth(I, n) == CHOOSE i \in I : Cardinality({j \in I : j <= i}) = n
\* The indices of s whose element is in S
Kept(s, S) == {i \in 1..Len(s) : s[i] \in S}

Select(s, S) ==
  [n \in 1..Cardinality(Kept(s, S)) |-> s[Nth(Kept(s, S), n)]]
=============================================================================

------------------------------ MODULE Ordering ------------------------------
(***************************************************************************)
(* Sorting, by what it results in.  An order is a set of pairs: <<x, y>>   *)
(* is in it if x comes before y.                                           *)
(***************************************************************************)
EXTENDS Integers, Sequences, FiniteSets

\* The members of the finite set S in the strict total order R: the k-th is the one
\* that k - 1 come before.
InOrder(S, R) ==
    [k \in 1..Cardinality(S) |->
        CHOOSE x \in S : Cardinality({y \in S : <<y, x>> \in R}) = k - 1]

\* The naturals of S, in their order.
Ascending(S) == InOrder(S, {x \in S \X S : x[1] < x[2]})

\* The sequence s with its elements in the order Before; those it does not tell apart
\* stay in the order they have in s.
Sorted(s, Before(_, _)) ==
    LET I == 1..Len(s)
        first == {x \in I \X I : \/ Before(s[x[1]], s[x[2]])
                                 \/ ~Before(s[x[2]], s[x[1]]) /\ x[1] < x[2]}
        pos == InOrder(I, first)
    IN  [k \in I |-> s[pos[k]]]

\* The sequence s without the elements outside L.
Filtered(s, L) ==
    LET I == {i \in 1..Len(s) : s[i] \in L}
        pos == Ascending(I)
    IN  [k \in 1..Cardinality(I) |-> s[pos[k]]]
=============================================================================

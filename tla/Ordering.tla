------------------------------ MODULE Ordering ------------------------------
(***************************************************************************)
(* What sorted, list.sort and a list comprehension with a condition return *)
(* in Python.                                                              *)
(***************************************************************************)
EXTENDS Naturals, FiniteSets, Sequences

\* A set listed from its smallest element on.
Listed(S, Before(_, _)) ==
    [i \in 1..Cardinality(S) |->
        CHOOSE x \in S : Cardinality({y \in S : Before(y, x)}) = i - 1]

\* The list sorted; elements of which none comes before the other stay in order.
Sorted(s, Before(_, _)) ==
    LET ahead(j) == {k \in DOMAIN s : \/ Before(s[k], s[j])
                                      \/ ~ Before(s[j], s[k]) /\ k < j}
    IN  [i \in DOMAIN s |-> s[CHOOSE j \in DOMAIN s : Cardinality(ahead(j)) = i - 1]]

\* The elements that pass the test, in their order.
Kept(s, Test(_)) ==
    LET places == {i \in DOMAIN s : Test(s[i])}
        earlier(i, j) == i < j
    IN  [i \in 1..Cardinality(places) |-> s[Listed(places, earlier)[i]]]
=============================================================================

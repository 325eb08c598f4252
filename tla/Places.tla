------------------------------- MODULE Places -------------------------------
(***************************************************************************)
(* Parts of a sequence, by the places of their elements.                   *)
(***************************************************************************)
EXTENDS Integers, FiniteSets

\* How many of the places are not behind k.
Rank(places, k) == Cardinality({l \in places : l <= k})

\* The places in increasing order.
Nth(places, n) == CHOOSE k \in places : Rank(places, k) = n

\* The elements at the places, in the order of the sequence.
Pick(seq, places) == [n \in 1..Cardinality(places) |-> seq[Nth(places, n)]]
=============================================================================

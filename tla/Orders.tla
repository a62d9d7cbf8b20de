-------------------------------- MODULE Orders --------------------------------
(***************************************************************************)
(* Sets as the code's comparisons sort them (slice::sort_by, ORDER BY):    *)
(* every element stands where the number of those before it puts it.       *)
(***************************************************************************)
EXTENDS Integers, FiniteSets, Sequences

\* S as a sequence: p \in R means that p[1] comes before p[2].
Listed(S, R) ==
  [n \in 1..Cardinality(S) |->
     CHOOSE x \in S : Cardinality({y \in S : <<y, x>> \in R}) = n - 1]

Sorted(S, Before(_, _)) == Listed(S, {p \in S \X S : Before(p[1], p[2])})

\* The order of the places of a list in which equals keep the one they have.
StableOrder(list, Before(_, _)) ==
  {p \in (DOMAIN list) \X (DOMAIN list) :
     \/ Before(list[p[1]], list[p[2]])
     \/ ~ Before(list[p[2]], list[p[1]]) /\ p[1] < p[2]}

\* sort_by, which is stable.
StableSort(list, Before(_, _)) ==
  LET order == Listed(DOMAIN list, StableOrder(list, Before))
  IN [i \in DOMAIN list |-> list[order[i]]]

\* The elements of a list at some of its places, in their order (retain).
Kept(list, places) ==
  LET order == Sorted(places, LAMBDA i, j : i < j)
  IN [n \in 1..Cardinality(places) |-> list[order[n]]]

\* The element at one place moved up to another (remove and insert).
Moved(list, from, to) ==
  [i \in DOMAIN list |->
     IF i = to THEN list[from] ELSE IF to < i /\ i <= from THEN list[i - 1] ELSE list[i]]

Least(S) == CHOOSE x \in S : \A y \in S : x <= y
=============================================================================

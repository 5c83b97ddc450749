------------------------------ MODULE Listings ------------------------------
(***************************************************************************)
(* What JavaScript's array methods (and Go's slices) do to a list, in      *)
(* closed form: a result is the list of some indexes of its argument, in   *)
(* an order.  Nothing here recurses, so that FiniteFacts can say what the  *)
(* lists are for arguments of any length.                                  *)
(***************************************************************************)
EXTENDS Integers, Sequences, FiniteSets

\* The members of the finite set S in the order R, the pairs <<x, y>> of a total order
\* with x = y or x before y.
Listing(S, R) ==
    [n \in 1..Cardinality(S) |-> CHOOSE x \in S : Cardinality({y \in S : <<y, x>> \in R}) = n]

Ascending(S) == {p \in S \X S : p[1] <= p[2]}

\* filter: the elements at the indexes T, in their order.
Filtered(s, T) == LET at == Listing(T, Ascending(T)) IN [n \in DOMAIN at |-> s[at[n]]]

\* sort: the elements in the order R of their indexes.
Arranged(s, R) == LET at == Listing(DOMAIN s, R) IN [n \in DOMAIN at |-> s[at[n]]]

\* The order of the indexes when a stable sort compares the numbers key.
ByKey(key) ==
    {p \in (DOMAIN key) \X (DOMAIN key) :
        key[p[1]] < key[p[2]] \/ (key[p[1]] = key[p[2]] /\ p[1] <= p[2])}

\* The places of a list of lists, and the order in which it is read.
Cells(ss) == UNION {{i} \X (DOMAIN ss[i]) : i \in DOMAIN ss}
Reading(cells) ==
    {p \in cells \X cells : p[1][1] < p[2][1] \/ (p[1][1] = p[2][1] /\ p[1][2] <= p[2][2])}

\* flat: one list of the elements of all.
Flattened(ss) ==
    LET at == Listing(Cells(ss), Reading(Cells(ss))) IN [n \in DOMAIN at |-> ss[at[n][1]][at[n][2]]]

Elements(s) == {s[k] : k \in DOMAIN s}
=============================================================================

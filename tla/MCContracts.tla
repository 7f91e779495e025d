------------------------------ MODULE MCContracts ------------------------------
(* Small instances of Contracts for TLC. *)
EXTENDS Contracts, TLC

CONSTANTS k1, k2, c1, c2

Bounded(a, b, p) == [min |-> a, max |-> b, price |-> p]
Open(a, p) == [min |-> a, max |-> NoMax, price |-> p]

\* Two tiers, a list with an end, and one the service refuses.
SomeLists == {{Bounded(0, 2, 3), Open(2, 1)}, {Bounded(0, 3, 1)}, {Open(1, 1)}}
Ends1 == {1}

Errors == {"abort"}
Sym == Permutations(Ids) \cup Permutations(Calls)
=============================================================================

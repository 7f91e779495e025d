--------------------------- MODULE MCPromptRegistry ---------------------------
(* Small instances of PromptRegistry for TLC. *)
EXTENDS PromptRegistry, TLC

CONSTANTS p1, p2, n1, n2, prod, latest, c1, c2

Errors == {"abort"}
Sym == Permutations(Ids) \cup Permutations(Names) \cup Permutations(Calls)
=============================================================================

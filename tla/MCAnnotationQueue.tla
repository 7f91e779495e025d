-------------------------- MODULE MCAnnotationQueue --------------------------
(* Small instances of AnnotationQueue for TLC. *)
EXTENDS AnnotationQueue, TLC

CONSTANTS u1, u2, i1, c1, c2, c3

TwoUsers   == {u1, u2}
OneItem    == {i1}
TwoCalls   == {c1, c2}
ThreeCalls == {c1, c2, c3}

\* Without release and update: the conditions of the lease theorems.
LeaseOps == {"add", "claim", "complete", "skip", "delete"}
ReviewOps == {"add", "claim", "complete", "release", "update"}

AllFailures == {"abort", "reply_lost", "score_error"}
NoFailure   == {}

Unset        == {0}
Two          == {2}

Sym == Permutations(Users) \cup Permutations(Items) \cup Permutations(Calls)
=============================================================================

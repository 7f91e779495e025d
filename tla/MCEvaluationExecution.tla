------------------------ MODULE MCEvaluationExecution ------------------------
(* Small instances of EvaluationExecution for TLC. *)
EXTENDS EvaluationExecution

CONSTANTS j1, j2, j3

Everything == Ambiguous \cup Fatal \cup Definite
=============================================================================

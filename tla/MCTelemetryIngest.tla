-------------------------- MODULE MCTelemetryIngest --------------------------
(***************************************************************************)
(* Instances of TelemetryIngest for TLC: a few spans and metric points, two*)
(* workers, and the environments the runs consider.                        *)
(***************************************************************************)
EXTENDS TelemetryIngest, TLC

CONSTANTS b1, b2, b3, s1, s2, sum1, gauge1, c1, c2

KindOfOneSpan == s1 :> "span"
KindOfSpans == (s1 :> "span") @@ (s2 :> "span")
KindOfMixed == KindOfSpans @@ (sum1 :> "metric_sum") @@ (gauge1 :> "metric_gauge")
KindOfMetrics == (sum1 :> "metric_sum") @@ (gauge1 :> "metric_gauge")

\* Every definite error but a replayed claim, at any time.
DefiniteEnv == Definite \ {"claim_replay"}
\* Everything.
AllEnv == Definite \cup Ambiguous
\* What rollback, the retry loop and the dead letter queue are there for.
RetryEnv == {"insert_error", "publish_error", "unreadable"}
DLQErrorEnv == {"insert_error", "dlq_error"}
InsertErrorEnv == {"insert_error"}

Symmetry == Permutations({b1, b2, b3}) \cup Permutations({c1, c2})
              \cup Permutations({s1, s2})
==============================================================================

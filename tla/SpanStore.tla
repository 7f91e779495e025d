------------------------------- MODULE SpanStore -------------------------------
(***************************************************************************)
(* What the ingestion pipeline promises of its spans, whatever goes wrong: *)
(* a span is in the hands of one batch at a time, only the batch that has  *)
(* it stores it, and a span that is stored is never handed out again.      *)
(* TelemetryIngest implements it.                                          *)
(***************************************************************************)
EXTENDS Naturals

CONSTANTS Spans, Batches

VARIABLES
    owners,  \* batches that may still store a span
    rows     \* how many times a span is stored

Init ==
    /\ owners = [s \in Spans |-> {}]
    /\ rows = [s \in Spans |-> 0]

\* A request is granted spans that nobody has and that are not stored.
Grant(b) ==
    \E S \in SUBSET Spans :
        /\ \A s \in S : owners[s] = {} /\ rows[s] = 0
        /\ owners' = [s \in Spans |-> IF s \in S THEN {b} ELSE owners[s]]
        /\ UNCHANGED rows

\* Some spans leave the pipeline: those in Kept are stored, once, and those in
\* Lost are given up, to be sent again or not at all.
Settle ==
    \E Kept, Lost \in SUBSET Spans :
        /\ \A s \in Kept : owners[s] # {} /\ rows[s] = 0
        /\ rows' = [s \in Spans |-> IF s \in Kept THEN 1 ELSE rows[s]]
        /\ owners' = [s \in Spans |-> IF s \in Kept \cup Lost THEN {} ELSE owners[s]]

Next == Settle \/ \E b \in Batches : Grant(b)

Spec == Init /\ [][Next]_<<owners, rows>>
=============================================================================

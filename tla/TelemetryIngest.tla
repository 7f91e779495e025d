--------------------------- MODULE TelemetryIngest ---------------------------
(***************************************************************************)
(* The telemetry ingestion pipeline of one project: the OTLP export        *)
(* handlers that claim spans in Redis and publish a batch to the project's *)
(* stream, and the workers of the "telemetry-workers" consumer group that  *)
(* read the stream, bulk-insert into ClickHouse with retries, and park a   *)
(* batch they cannot insert in the dead letter queue.                      *)
(*                                                                         *)
(* Every export request gets a fresh batch id (ulid.New), so a request, its*)
(* handler and its stream message share one identifier, a member of        *)
(* Batches.  Events stand for span dedup ids (trace_id:span_id), metric    *)
(* points and log records; KindOf gives the event type that routes an      *)
(* event to its table.  The Redis stream is kept as the set of undelivered *)
(* messages: no property depends on the order of delivery.                 *)
(*                                                                         *)
(* Env names the environment's events a behaviour may contain.  Those in   *)
(* Ambiguous leave the caller unable to tell what happened, repeat a Redis *)
(* command that had run, or undo what the deduplication relies on; slips   *)
(* counts them per event.                                                  *)
(***************************************************************************)
EXTENDS Naturals, FiniteSets

CONSTANTS
    Batches,     \* export requests, one batch id each
    Events,      \* telemetry events the clients export
    KindOf,      \* event type of every event, "span" for spans
    Consumers,   \* members of the consumer group
    NoBatch,     \* absence of a batch (a free claim, an idle worker)
    Env,         \* environment events that may happen
    MaxCopies,   \* bound: copies of one event in one request
    BatchSize,   \* messages one XREADGROUP returns at most
    MaxRetries,  \* retries of a batch after its first failed attempt
    MaxSlips     \* bound: ambiguous events per telemetry event

Ambiguous == {"publish_lost", "publish_replay", "release_replay", "insert_lost",
              "claim_ttl", "dlq_replay"}
Definite  == {"unreadable", "claim_error", "claim_replay", "publish_error", "release_error",
              "insert_error", "dlq_error", "ack_error",
              "server_crash", "worker_crash"}

ASSUME IngestAssumption ==
    /\ NoBatch \notin Batches
    /\ KindOf \in [Events -> STRING]
    /\ Env \subseteq (Ambiguous \cup Definite)
    /\ MaxCopies \in Nat /\ BatchSize \in Nat \ {0}
    /\ MaxRetries \in Nat /\ MaxSlips \in Nat

Spans  == {e \in Events : KindOf[e] = "span"}
Kinds  == {KindOf[e] : e \in Events}

VARIABLES
    pc,          \* where the handler of a request is, or how it answered
    payload,     \* the request: how many copies of every event it carries
    unreadable,  \* the request: events the workers cannot unmarshal
    claimedIDs,  \* spans ClaimEvents reported as claimed by the batch
    claims,      \* Redis keys dedup:span:<id>, the batch that holds each
    msg,         \* the batch's message in the project's stream
    wk,          \* the message a worker processes, how far it is
    buf,         \* messages a worker has read and not yet looked at
    dlq,         \* batches in telemetry:dlq:batches:<project>
    rows,        \* rows of every event in ClickHouse
    slips        \* history: ambiguous environment events that hit an event

vars == <<pc, payload, unreadable, claimedIDs, claims, msg, wk, buf, dlq, rows, slips>>
handlerVars == <<pc, payload, unreadable, claimedIDs>>
workerVars  == <<wk, buf, dlq>>

Idle == [at |-> "idle", batch |-> NoBatch, attempt |-> 0]

TypeOK ==
    /\ pc \in [Batches -> {"new", "claiming", "publishing", "rollback",
                           "accepted", "all_duplicates", "failed", "copy"}]
    /\ payload \in [Batches -> [Events -> Nat]]
    /\ unreadable \in [Batches -> SUBSET Events]
    /\ claimedIDs \in [Batches -> SUBSET Spans]
    /\ claims \in [Spans -> Batches \cup {NoBatch}]
    /\ msg \in [Batches -> {"none", "queued", "pending", "acked"}]
    /\ wk \in [Consumers -> [at : {"idle", "process", "dlq", "release", "ack"},
                             batch : Batches \cup {NoBatch},
                             attempt : 0 .. MaxRetries]]
    /\ buf \in [Consumers -> SUBSET Batches]
    /\ dlq \in SUBSET Batches
    /\ rows \in [Events -> Nat]
    /\ slips \in [Events -> Nat]

Init ==
    /\ pc = [b \in Batches |-> "new"]
    /\ payload = [b \in Batches |-> [e \in Events |-> 0]]
    /\ unreadable = [b \in Batches |-> {}]
    /\ claimedIDs = [b \in Batches |-> {}]
    /\ claims = [s \in Spans |-> NoBatch]
    /\ msg = [b \in Batches |-> "none"]
    /\ wk = [c \in Consumers |-> Idle]
    /\ buf = [c \in Consumers |-> {}]
    /\ dlq = {}
    /\ rows = [e \in Events |-> 0]
    /\ slips = [e \in Events |-> 0]

-----------------------------------------------------------------------------
(* What a batch carries.                                                   *)

Requested(b) == {e \in Events : payload[b][e] > 0}

\* Mutant: every occurrence of a claimed span is published.
CopiesEveryOccurrence(b, e) ==
    IF e \in Spans /\ e \notin claimedIDs[b] THEN 0 ELSE payload[b][e]

\* The events published for a batch: of a span only its first occurrence, and
\* only when the batch claimed it; of a metric or log event every copy.
CopiesOf(b, e) ==
    IF e \in Spans THEN (IF e \in claimedIDs[b] THEN 1 ELSE 0)
                   ELSE payload[b][e]

EventsOf(b) == {e \in Events : CopiesOf(b, e) > 0}
Readable(b) == EventsOf(b) \ unreadable[b]
KindsIn(b)  == {KindOf[e] : e \in Readable(b)}

\* Redis keys after DEL of a batch's dedup ids: the value is not compared.
Released(b) == [s \in Spans |-> IF s \in claimedIDs[b] THEN NoBatch
                                                       ELSE claims[s]]

CanSlip(S) == \A e \in S : slips[e] < MaxSlips
Slipped(S) == [e \in Events |-> IF e \in S THEN slips[e] + 1 ELSE slips[e]]

-----------------------------------------------------------------------------
(* The export handlers.                                                    *)

\* A client exports spans, or metrics, or logs: never spans with the others.
\* The worker will not be able to unmarshal those in bad: a negative token
\* count becomes a uint64 in the payload and a float64 in the worker's map.
Receive(b) ==
    /\ pc[b] = "new"
    /\ \E p \in [Events -> 0 .. MaxCopies], trace \in BOOLEAN, bad \in SUBSET Events :
         /\ \E e \in Events : p[e] > 0
         /\ \A e \in Events : p[e] > 0 => (e \in Spans <=> trace)
         /\ \A e \in bad : p[e] > 0 /\ "unreadable" \in Env
         /\ payload' = [payload EXCEPT ![b] = p]
         /\ unreadable' = [unreadable EXCEPT ![b] = bad]
         /\ pc' = [pc EXCEPT ![b] = IF trace THEN "claiming" ELSE "publishing"]
    /\ UNCHANGED <<claimedIDs, claims, msg, workerVars, rows, slips>>

\* Mutant: SET in place of SETNX, every requested span counts as claimed.
ClaimWithoutNX(b) ==
    /\ pc[b] = "claiming"
    /\ claimedIDs' = [claimedIDs EXCEPT ![b] = Requested(b)]
    /\ claims' = [s \in Spans |-> IF s \in Requested(b) THEN b ELSE claims[s]]
    /\ pc' = [pc EXCEPT ![b] = "publishing"]
    /\ UNCHANGED <<payload, unreadable, msg, workerVars, rows, slips>>

\* SETNX of every requested span; a batch left without a claim is answered as
\* all duplicates and is not published.
ClaimOK(b) ==
    /\ pc[b] = "claiming"
    /\ LET won == {s \in Spans : s \in Requested(b) /\ claims[s] = NoBatch} IN
         /\ claimedIDs' = [claimedIDs EXCEPT ![b] = won]
         /\ claims' = [s \in Spans |-> IF s \in won THEN b ELSE claims[s]]
         /\ pc' = [pc EXCEPT ![b] = IF won = {} THEN "all_duplicates"
                                                ELSE "publishing"]
    /\ UNCHANGED <<payload, unreadable, msg, workerVars, rows, slips>>

\* The pipeline fails after any part of it ran: 500, and no key is released.
ClaimError(b) ==
    /\ "claim_error" \in Env
    /\ pc[b] = "claiming"
    /\ \E ran \in SUBSET {s \in Spans : s \in Requested(b) /\ claims[s] = NoBatch} :
         claims' = [s \in Spans |-> IF s \in ran THEN b ELSE claims[s]]
    /\ pc' = [pc EXCEPT ![b] = "failed"]
    /\ UNCHANGED <<payload, unreadable, claimedIDs, msg, workerVars, rows, slips>>

\* The pipeline ran, all or part of it, its reply is lost, and the Redis client
\* is about to run it again: SETNX will find the keys this run set and report
\* them as duplicates.
ClaimReplay(b) ==
    /\ "claim_replay" \in Env
    /\ pc[b] = "claiming"
    /\ \E ran \in SUBSET {s \in Spans : s \in Requested(b) /\ claims[s] = NoBatch} :
         claims' = [s \in Spans |-> IF s \in ran THEN b ELSE claims[s]]
    /\ UNCHANGED <<handlerVars, msg, workerVars, rows, slips>>

\* XADD added the message, its reply is lost, and the Redis client is about to
\* send it again.  The copy has the identifier of a request that is then not
\* made: it is a message of its own.
PublishReplay(b) ==
    /\ "publish_replay" \in Env
    /\ pc[b] = "publishing"
    /\ CanSlip(EventsOf(b))
    /\ \E d \in Batches :
         /\ pc[d] = "new"
         /\ pc' = [pc EXCEPT ![d] = "copy"]
         /\ payload' = [payload EXCEPT ![d] = payload[b]]
         /\ unreadable' = [unreadable EXCEPT ![d] = unreadable[b]]
         /\ claimedIDs' = [claimedIDs EXCEPT ![d] = claimedIDs[b]]
         /\ msg' = [msg EXCEPT ![d] = "queued"]
    /\ slips' = Slipped(EventsOf(b))
    /\ UNCHANGED <<claims, workerVars, rows>>

Publish(b) ==
    /\ pc[b] = "publishing"
    /\ msg' = [msg EXCEPT ![b] = "queued"]
    /\ pc' = [pc EXCEPT ![b] = "accepted"]
    /\ UNCHANGED <<payload, unreadable, claimedIDs, claims, workerVars, rows, slips>>

\* Mutant: no rollback after a failed publish.
NoRollback(b) == "failed"

AfterPublishError(b) == IF claimedIDs[b] = {} THEN "failed" ELSE "rollback"

\* XADD failed and added nothing.
PublishError(b) ==
    /\ "publish_error" \in Env
    /\ pc[b] = "publishing"
    /\ pc' = [pc EXCEPT ![b] = AfterPublishError(b)]
    /\ UNCHANGED <<payload, unreadable, claimedIDs, claims, msg, workerVars, rows, slips>>

\* XADD added the message and its reply was lost.
PublishLost(b) ==
    /\ "publish_lost" \in Env
    /\ pc[b] = "publishing"
    /\ CanSlip(EventsOf(b))
    /\ msg' = [msg EXCEPT ![b] = "queued"]
    /\ pc' = [pc EXCEPT ![b] = AfterPublishError(b)]
    /\ slips' = Slipped(EventsOf(b))
    /\ UNCHANGED <<payload, unreadable, claimedIDs, claims, workerVars, rows>>

Rollback(b) ==
    /\ pc[b] = "rollback"
    /\ \/ claims' = Released(b)
       \/ "release_error" \in Env /\ UNCHANGED claims
    /\ pc' = [pc EXCEPT ![b] = "failed"]
    /\ UNCHANGED <<payload, unreadable, claimedIDs, msg, workerVars, rows, slips>>

\* DEL ran, its reply is lost, and the Redis client is about to send it again:
\* the keys may be other requests' by then.
RollbackReplay(b) ==
    /\ "release_replay" \in Env
    /\ pc[b] = "rollback"
    /\ CanSlip(claimedIDs[b])
    /\ claims' = Released(b)
    /\ slips' = Slipped(claimedIDs[b])
    /\ UNCHANGED <<handlerVars, msg, workerVars, rows>>

\* The server process dies while it handles the request.
ServerCrash(b) ==
    /\ "server_crash" \in Env
    /\ pc[b] \in {"claiming", "publishing", "rollback"}
    /\ pc' = [pc EXCEPT ![b] = "failed"]
    /\ UNCHANGED <<payload, unreadable, claimedIDs, claims, msg, workerVars, rows, slips>>

\* 24 hours after ClaimEvents the key of a span is gone.
ClaimExpires(s) ==
    /\ "claim_ttl" \in Env
    /\ claims[s] # NoBatch
    /\ CanSlip({s})
    /\ claims' = [claims EXCEPT ![s] = NoBatch]
    /\ slips' = Slipped({s})
    /\ UNCHANGED <<handlerVars, msg, workerVars, rows>>

-----------------------------------------------------------------------------
(* The stream workers.                                                     *)

\* Mutant: a read that also returns what another consumer was given.
ReadAgain(c) ==
    /\ wk[c].at = "idle" /\ buf[c] = {}
    /\ \E S \in SUBSET {b \in Batches : msg[b] \in {"queued", "pending"}} :
         /\ S # {}
         /\ Cardinality(S) <= BatchSize
         /\ buf' = [buf EXCEPT ![c] = S]
         /\ msg' = [b \in Batches |-> IF b \in S THEN "pending" ELSE msg[b]]
    /\ UNCHANGED <<handlerVars, claims, wk, dlq, rows, slips>>

\* XREADGROUP with ">": only messages no consumer of the group was given.
Read(c) ==
    /\ wk[c].at = "idle" /\ buf[c] = {}
    /\ \E S \in SUBSET {b \in Batches : msg[b] = "queued"} :
         /\ S # {}
         /\ Cardinality(S) <= BatchSize
         /\ buf' = [buf EXCEPT ![c] = S]
         /\ msg' = [b \in Batches |-> IF b \in S THEN "pending" ELSE msg[b]]
    /\ UNCHANGED <<handlerVars, claims, wk, dlq, rows, slips>>

Take(c) ==
    /\ wk[c].at = "idle"
    /\ \E b \in buf[c] :
         /\ wk' = [wk EXCEPT ![c] = [at |-> "process", batch |-> b, attempt |-> 0]]
         /\ buf' = [buf EXCEPT ![c] = @ \ {b}]
    /\ UNCHANGED <<handlerVars, claims, msg, dlq, rows, slips>>

\* The bulk inserts of one processBatch: one per event type, of the events of
\* that type that could be unmarshalled, which fails or succeeds as a whole.
\* applied are the types whose rows were written, ok those whose insert
\* returned no error.
InsertOutcome(b, applied, ok) ==
    /\ ok \subseteq applied
    /\ ok # KindsIn(b) => Env \cap {"insert_error", "insert_lost"} # {}
    /\ applied # ok => "insert_lost" \in Env
    /\ "insert_error" \notin Env => applied = KindsIn(b)

OfKinds(b, S) == {e \in Readable(b) : KindOf[e] \in S}

\* An event that could not be unmarshalled is counted, logged and skipped.
Stored(b, applied) ==
    [e \in Events |-> IF e \in OfKinds(b, applied) THEN rows[e] + CopiesOf(b, e)
                                                   ELSE rows[e]]

\* Mutant: processBatch reports success whatever failed.
BatchAlwaysOK(b, ok) == TRUE

\* Mutant: what could not be unmarshalled does not count as failed.
SkippedIsFine(b, ok) == ok # {} \/ KindsIn(b) = {}

\* processBatch: an error only when nothing was inserted and something failed,
\* an event that could not be unmarshalled included.
BatchOK(b, ok) == ok # {} \/ EventsOf(b) = {}

\* Mutant: one retry too many.
OneRetryMore(c, done) ==
    IF done THEN [wk EXCEPT ![c].at = "ack"]
    ELSE IF wk[c].attempt <= MaxRetries THEN [wk EXCEPT ![c].attempt = @ + 1]
    ELSE [wk EXCEPT ![c].at = "dlq"]

\* Mutant: the claims of a stored batch are released.
ReleaseStored(c, done) ==
    IF done THEN [wk EXCEPT ![c].at = "release"]
    ELSE IF wk[c].attempt < MaxRetries THEN [wk EXCEPT ![c].attempt = @ + 1]
    ELSE [wk EXCEPT ![c].at = "dlq"]

\* Mutant: after the last attempt the count starts again.
RetryForever(c, done) ==
    IF done THEN [wk EXCEPT ![c].at = "ack"]
    ELSE IF wk[c].attempt < MaxRetries THEN [wk EXCEPT ![c].attempt = @ + 1]
    ELSE [wk EXCEPT ![c].attempt = 0]

\* Success is acknowledged; a failed attempt is repeated MaxRetries times.
AfterAttempt(c, done) ==
    IF done THEN [wk EXCEPT ![c].at = "ack"]
    ELSE IF wk[c].attempt < MaxRetries THEN [wk EXCEPT ![c].attempt = @ + 1]
    ELSE [wk EXCEPT ![c].at = "dlq"]

\* One round of the retry loop of processMessage.
Attempt(c) ==
    /\ wk[c].at = "process"
    /\ LET b == wk[c].batch IN
       \E applied \in SUBSET KindsIn(b) : \E ok \in SUBSET KindsIn(b) :
         /\ InsertOutcome(b, applied, ok)
         /\ CanSlip(OfKinds(b, applied \ ok))
         /\ rows' = Stored(b, applied)
         /\ slips' = Slipped(OfKinds(b, applied \ ok))
         /\ wk' = AfterAttempt(c, BatchOK(b, ok))
    /\ UNCHANGED <<handlerVars, claims, msg, buf, dlq>>

\* Mutant: no release after the move to the dead letter queue.
MoveToDLQKeepingClaims(c) ==
    /\ wk[c].at = "dlq"
    /\ dlq' = dlq \cup {wk[c].batch}
    /\ wk' = [wk EXCEPT ![c].at = "ack"]
    /\ UNCHANGED <<handlerVars, claims, msg, buf, rows, slips>>

MoveToDLQ(c) ==
    /\ wk[c].at = "dlq"
    /\ LET b == wk[c].batch IN
         /\ dlq' = dlq \cup {b}
         /\ wk' = [wk EXCEPT ![c].at = IF claimedIDs[b] = {} THEN "ack"
                                                             ELSE "release"]
    /\ UNCHANGED <<handlerVars, claims, msg, buf, rows, slips>>

\* The XADD to the dead letter queue returned an error: the claims are kept
\* and the message is left in the group's pending list.
MoveToDLQError(c) ==
    /\ "dlq_error" \in Env
    /\ wk[c].at = "dlq"
    /\ dlq' \in {dlq, dlq \cup {wk[c].batch}}
    /\ wk' = [wk EXCEPT ![c] = Idle]
    /\ UNCHANGED <<handlerVars, claims, msg, buf, rows, slips>>

ReleaseClaims(c) ==
    /\ wk[c].at = "release"
    /\ \/ claims' = Released(wk[c].batch)
       \/ "release_error" \in Env /\ UNCHANGED claims
    /\ wk' = [wk EXCEPT ![c].at = "ack"]
    /\ UNCHANGED <<handlerVars, msg, buf, dlq, rows, slips>>

\* The DEL of the release is sent again, as in RollbackReplay.
ReleaseReplay(c) ==
    /\ "release_replay" \in Env
    /\ wk[c].at = "release"
    /\ CanSlip(claimedIDs[wk[c].batch])
    /\ claims' = Released(wk[c].batch)
    /\ slips' = Slipped(claimedIDs[wk[c].batch])
    /\ UNCHANGED <<handlerVars, msg, workerVars, rows>>

\* XACK; when it fails the worker only logs it and goes on.
Ack(c) ==
    /\ wk[c].at = "ack"
    /\ \/ msg' = [msg EXCEPT ![wk[c].batch] = "acked"]
       \/ "ack_error" \in Env /\ UNCHANGED msg
    /\ wk' = [wk EXCEPT ![c] = Idle]
    /\ UNCHANGED <<handlerVars, claims, buf, dlq, rows, slips>>

\* The worker process dies, possibly between two bulk inserts, and comes back
\* under a new consumer id: what the old one had read is not read again.
WorkerCrash(c) ==
    /\ "worker_crash" \in Env
    /\ wk[c].at # "idle" \/ buf[c] # {}
    /\ \/ /\ wk[c].at = "process"
          /\ \E applied \in SUBSET KindsIn(wk[c].batch) :
               rows' = Stored(wk[c].batch, applied)
       \/ wk[c].at # "process" /\ UNCHANGED rows
    /\ wk' = [wk EXCEPT ![c] = Idle]
    /\ buf' = [buf EXCEPT ![c] = {}]
    /\ UNCHANGED <<handlerVars, claims, msg, dlq, slips>>

\* RetryDLQMessage: one attempt, and XDEL (whose failure is only logged) when
\* it succeeds.  The claims are not taken again.
RetryDLQMessage(b) ==
    /\ "dlq_replay" \in Env
    /\ b \in dlq
    /\ \E applied \in SUBSET KindsIn(b) : \E ok \in SUBSET KindsIn(b) :
         /\ InsertOutcome(b, applied, ok)
         /\ CanSlip(OfKinds(b, applied))
         /\ rows' = Stored(b, applied)
         /\ slips' = Slipped(OfKinds(b, applied))
         /\ IF BatchOK(b, ok) THEN dlq' \in {dlq, dlq \ {b}} ELSE dlq' = dlq
    /\ UNCHANGED <<handlerVars, claims, msg, wk, buf>>

-----------------------------------------------------------------------------

HandlerStep(b) ==
    \/ ClaimOK(b) \/ ClaimError(b) \/ ClaimReplay(b)
    \/ PublishReplay(b) \/ Publish(b) \/ PublishError(b) \/ PublishLost(b)
    \/ Rollback(b) \/ RollbackReplay(b)

WorkerStep(c) ==
    \/ Read(c) \/ Take(c) \/ Attempt(c)
    \/ MoveToDLQ(c) \/ MoveToDLQError(c)
    \/ ReleaseClaims(c) \/ ReleaseReplay(c) \/ Ack(c)

Next ==
    \/ \E b \in Batches : Receive(b) \/ HandlerStep(b) \/ ServerCrash(b)
                          \/ RetryDLQMessage(b)
    \/ \E s \in Spans : ClaimExpires(s)
    \/ \E c \in Consumers : WorkerStep(c) \/ WorkerCrash(c)

Spec == Init /\ [][Next]_vars

\* A handler that runs finishes its request, and consumeLoop of a worker that
\* runs goes round for ever.
Fairness ==
    /\ \A b \in Batches : WF_vars(HandlerStep(b))
    /\ \A c \in Consumers : WF_vars(WorkerStep(c))

FairSpec == Spec /\ Fairness
-----------------------------------------------------------------------------
(* Properties.                                                             *)

\* Somebody may still insert span s for batch b, or release its key.
Holds(b, s) ==
    /\ s \in claimedIDs[b]
    /\ \/ pc[b] \in {"publishing", "rollback"}
       \/ msg[b] = "queued"
       \/ \E c \in Consumers :
            \/ b \in buf[c]
            \/ wk[c].batch = b /\ wk[c].at \in {"process", "dlq", "release"}

\* No span is stored twice, however the requests that carry it interleave
\* with each other, with the workers' retries, with the rollback of a failed
\* publish and with the release that follows the dead letter queue.  Holds
\* when no ambiguous event happens.
StoredOnce == \A s \in Spans : rows[s] <= 1

\* Whoever may still insert a span, or release its key, owns its key, and the
\* span is not stored: this is why ReleaseEvents can delete keys without
\* comparing the batch id they hold.  Holds when no ambiguous event happens.
HoldersOwnClaims ==
    \A b \in Batches : \A s \in Spans :
        Holds(b, s) => claims[s] = b /\ rows[s] = 0

\* A worker that is not idle works for a batch; it has it to itself, and the
\* message is in the group's pending list (Places).
AtWork(c) == wk[c].at # "idle"

Custody ==
    /\ \A c \in Consumers : AtWork(c) => wk[c].batch \in Batches
    /\ \A c \in Consumers : ~AtWork(c) => wk[c].batch = NoBatch

\* A message is with its handler, in the stream, or with one worker.
Places ==
    /\ \A b \in Batches :
         /\ pc[b] \in {"new", "claiming"} => claimedIDs[b] = {}
         /\ pc[b] \in {"new", "claiming", "publishing", "rollback"} => msg[b] = "none"
    /\ \A b \in Batches, c \in Consumers :
         b \in buf[c] \/ wk[c].batch = b => msg[b] = "pending"
    /\ \A b \in Batches, c, d \in Consumers :
         /\ b \in buf[c] => wk[d].batch # b
         /\ b \in buf[c] /\ b \in buf[d] => c = d
         /\ wk[c].batch = b /\ wk[d].batch = b => c = d

\* The key of a stored span stays taken, so the span is not claimed again.
StoredIsClaimed == \A s \in Spans : rows[s] > 0 => claims[s] # NoBatch

\* The inductive invariant: what makes StoredOnce hold, step by step.
IInv == /\ TypeOK /\ Custody /\ Places
        /\ HoldersOwnClaims /\ StoredIsClaimed /\ StoredOnce

\* Every ambiguous event (a lost reply of an insert, a lost reply of XADD or of
\* DEL, whether the client gives up or sends the command again, a key that
\* expired, a replay of a dead letter) costs at most one more row of a span:
\* duplicates do not breed although ReleaseEvents deletes other batches' keys.
DuplicatesAccounted == \A s \in Spans : rows[s] <= 1 + slips[s]

\* What the code loses without an error: a span that could not be unmarshalled
\* beside one that was inserted.  The message is acknowledged, the batch is not
\* a dead letter, and the span's key is kept.
Skipped(b, s) ==
    /\ s \in claimedIDs[b] \cap unreadable[b]
    /\ \E t \in claimedIDs[b] \ unreadable[b] : rows[t] > 0

\* A key that turns resends away stands for a span that is stored, or whose
\* batch is still in the hands of its handler or in the stream, or that the
\* workers skipped.  Holds where claims and releases do not fail and the
\* server does not die.
ClaimsBacked ==
    \A s \in Spans : \A b \in Batches :
        claims[s] = b => \/ rows[s] > 0 \/ Skipped(b, s)
                         \/ pc[b] \in {"publishing", "rollback"}
                         \/ msg[b] \in {"queued", "pending"}

\* An "all_duplicates" answer turns no span away without a reason: the span is
\* stored, on its way, kept in the dead letter queue, was skipped by a worker,
\* or was refused with an error to a client that sent it too (whether its key
\* then lets it in again is what ClaimsBacked is about).  Holds in every
\* environment without a replayed claim, which answers for keys the request
\* itself has taken.
DuplicateAnswerTrue ==
    \A b \in Batches : pc[b] = "all_duplicates" =>
        \A s \in Requested(b) :
            \/ rows[s] > 0
            \/ \E o \in Batches :
                 /\ s \in Requested(o)
                 /\ \/ pc[o] = "failed"
                    \/ /\ s \in claimedIDs[o]
                       /\ \/ pc[o] \in {"publishing", "rollback"}
                          \/ msg[o] \in {"queued", "pending"}
                          \/ o \in dlq
                          \/ Skipped(o, s)

\* A trace batch is acknowledged only when it is in the dead letter queue, or
\* all its spans are in ClickHouse but those that could not be unmarshalled
\* beside one that is: a batch none of whose spans can be read is a dead
\* letter.  Through retries, crashes, lost replies and replays.
AckedSpansSafe ==
    \A b \in Batches : msg[b] = "acked" =>
        b \in dlq \/ \A s \in claimedIDs[b] : rows[s] > 0 \/ Skipped(b, s)

\* The key of a stored span is never deleted by the pipeline.
StoredKeepsClaim ==
    [][\A s \in Spans :
        claims[s] # NoBatch /\ claims'[s] = NoBatch => rows[s] = 0]_vars

\* The retry loop ends: a queued batch reaches ClickHouse or the dead letter
\* queue and is acknowledged.
QueuedSettles ==
    \A b \in Batches : msg[b] = "queued" ~> msg[b] = "acked"

\* Once a batch is in the dead letter queue its clients can send its spans
\* again: it does not keep their keys.
DeadLetterFreesClaims ==
    \A b \in Batches : b \in dlq ~> \A s \in Spans : claims[s] # b

\* Who may still store a span, as the abstract store sees it.
Owners == [s \in Spans |-> {b \in Batches : Holds(b, s)}]

Store == INSTANCE SpanStore WITH
    owners <- Owners,
    rows <- [s \in Spans |-> rows[s]]

\* The pipeline implements SpanStore: a span is lent to one batch at a time,
\* from the answer of SETNX to the insert or the release that ends it, and is
\* never lent again once stored.  Holds when no ambiguous event happens.
ImplementsSpanStore == Store!Spec

\* telemetry_stream_consumer.go:404 "Success (err == nil): Data in ClickHouse
\* -> Safe to ack" and :405 "Data preserved in DLQ -> Safe to ack", for every
\* event of the batch.
AckedIsPreserved ==
    \A b \in Batches : msg[b] = "acked" =>
        b \in dlq \/ \A e \in EventsOf(b) : rows[e] > 0

\* telemetry_stream_consumer.go:417 "Leave message pending for retry": a
\* message left pending is processed again and in the end acknowledged.
PendingIsRetried ==
    \A b \in Batches : msg[b] = "pending" ~> msg[b] = "acked"
=============================================================================

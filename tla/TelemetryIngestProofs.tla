------------------------ MODULE TelemetryIngestProofs ------------------------
(***************************************************************************)
(* Proofs about TelemetryIngest for every number of requests, events and   *)
(* workers.  In every environment: types, that an acknowledged batch of    *)
(* spans is safe, and that a span has no more rows than one and the        *)
(* ambiguous events that hit it.  Where no claim is replayed: that an      *)
(* "all_duplicates" answer hides no loss.  Where nothing orphans a key:    *)
(* that every key is backed.  Where no ambiguous event happens: that no    *)
(* span is stored twice and no key of a stored span deleted.               *)
(***************************************************************************)
EXTENDS TelemetryIngest, FiniteSetTheorems, TLAPS

\* What a batch publishes is a number of copies of every event.
LEMMA CopiesType ==
    ASSUME TypeOK, NEW b \in Batches, NEW e \in Events
    PROVE  CopiesOf(b, e) \in Nat
BY DEF CopiesOf, TypeOK

LEMMA StoredType ==
    ASSUME TypeOK, NEW b \in Batches, NEW S
    PROVE  Stored(b, S) \in [Events -> Nat]
<1>1. ASSUME NEW e \in Events
      PROVE  (IF e \in OfKinds(b, S) THEN rows[e] + CopiesOf(b, e) ELSE rows[e]) \in Nat
  BY <1>1, CopiesType DEF TypeOK
<1>2. QED  BY <1>1 DEF Stored

LEMMA SlippedType ==
    ASSUME TypeOK, NEW S
    PROVE  Slipped(S) \in [Events -> Nat]
BY DEF Slipped, TypeOK

LEMMA ReleasedType ==
    ASSUME TypeOK, NEW b
    PROVE  Released(b) \in [Spans -> Batches \cup {NoBatch}]
BY DEF Released, TypeOK

WorkerRec == [at : {"idle", "process", "dlq", "release", "ack"},
              batch : Batches \cup {NoBatch}, attempt : 0 .. MaxRetries]

\* A worker at work that only changes its place, or counts an attempt, keeps
\* its batch.
LEMMA WorkerMoves ==
    ASSUME TypeOK, Custody, NEW c \in Consumers, AtWork(c),
           NEW at \in {"process", "dlq", "release", "ack"},
           NEW n \in 0 .. MaxRetries,
           \/ wk' = [wk EXCEPT ![c].at = at]
           \/ wk[c].at = at /\ wk' = [wk EXCEPT ![c].attempt = n]
    PROVE  wk' \in [Consumers -> WorkerRec] /\ Custody'
<1>1. wk \in [Consumers -> WorkerRec] /\ wk[c] \in WorkerRec
  BY DEF TypeOK, WorkerRec
<1>2. PICK w \in WorkerRec : /\ wk' = [wk EXCEPT ![c] = w]
                             /\ w.at = at /\ w.batch = wk[c].batch
  <2>1. CASE wk' = [wk EXCEPT ![c].at = at]
    <3> DEFINE w == [wk[c] EXCEPT !.at = at]
    <3>1. w \in WorkerRec /\ w.at = at /\ w.batch = wk[c].batch
      BY <1>1 DEF WorkerRec
    <3>2. wk' = [wk EXCEPT ![c] = w]
      BY <2>1
    <3> HIDE DEF w
    <3> QED
      BY <3>1, <3>2
  <2>2. CASE wk[c].at = at /\ wk' = [wk EXCEPT ![c].attempt = n]
    <3> DEFINE w == [wk[c] EXCEPT !.attempt = n]
    <3>1. w \in WorkerRec /\ w.at = at /\ w.batch = wk[c].batch
      BY <1>1, <2>2 DEF WorkerRec
    <3>2. wk' = [wk EXCEPT ![c] = w]
      BY <2>2
    <3> HIDE DEF w
    <3> QED
      BY <3>1, <3>2
  <2> QED
    BY <2>1, <2>2
<1>3. wk' \in [Consumers -> WorkerRec]
  BY <1>1, <1>2
<1>4. /\ wk'[c].at # "idle" /\ wk'[c].batch = wk[c].batch
      /\ \A d \in Consumers \ {c} : wk'[d] = wk[d]
  BY <1>1, <1>2
<1> QED
  BY <1>3, <1>4 DEF Custody, AtWork

LEMMA TypeStep ==
    ASSUME TypeOK, Custody, [Next]_vars
    PROVE  TypeOK' /\ Custody'
<1> USE IngestAssumption
<1>1. ASSUME NEW b \in Batches, Receive(b) PROVE TypeOK' /\ Custody'
  <2>1. PICK p \in [Events -> 0 .. MaxCopies], trace \in BOOLEAN, bad \in SUBSET Events :
             /\ payload' = [payload EXCEPT ![b] = p]
             /\ unreadable' = [unreadable EXCEPT ![b] = bad]
             /\ pc' = [pc EXCEPT ![b] = IF trace THEN "claiming" ELSE "publishing"]
    BY <1>1, Zenon DEF Receive
  <2>2. p \in [Events -> Nat]
    OBVIOUS
  <2>3. QED
    BY <1>1, <2>1, <2>2 DEF TypeOK, Custody, AtWork, Receive, workerVars
<1>2. ASSUME NEW b \in Batches, HandlerStep(b) PROVE TypeOK' /\ Custody'
  <2>1. CASE ClaimOK(b)
    BY <2>1 DEF TypeOK, Custody, AtWork, ClaimOK, workerVars
  <2>2. CASE ClaimError(b)
    BY <2>2 DEF TypeOK, Custody, AtWork, ClaimError, workerVars
  <2>3. CASE ClaimReplay(b)
    BY <2>3 DEF TypeOK, Custody, AtWork, ClaimReplay, handlerVars, workerVars
  <2>4. CASE Publish(b)
    BY <2>4 DEF TypeOK, Custody, AtWork, Publish, workerVars
  <2>5. CASE PublishError(b)
    BY <2>5 DEF TypeOK, Custody, AtWork, PublishError, AfterPublishError, workerVars
  <2>6. CASE PublishLost(b)
    BY <2>6, SlippedType
    DEF TypeOK, Custody, AtWork, PublishLost, AfterPublishError, workerVars
  <2>7. CASE Rollback(b)
    BY <2>7, ReleasedType DEF TypeOK, Custody, AtWork, Rollback, workerVars
  <2>9. CASE RollbackReplay(b)
    BY <2>9, ReleasedType, SlippedType
    DEF TypeOK, Custody, AtWork, RollbackReplay, handlerVars, workerVars
  <2>10. CASE PublishReplay(b)
    BY <2>10, SlippedType DEF TypeOK, Custody, AtWork, PublishReplay, workerVars
  <2>8. QED
    BY <1>2, <2>1, <2>2, <2>3, <2>4, <2>5, <2>6, <2>7, <2>9, <2>10 DEF HandlerStep
<1>3. ASSUME NEW b \in Batches, ServerCrash(b) PROVE TypeOK' /\ Custody'
  BY <1>3 DEF TypeOK, Custody, AtWork, ServerCrash, workerVars
<1>4. ASSUME NEW b \in Batches, RetryDLQMessage(b) PROVE TypeOK' /\ Custody'
  <2>1. PICK applied, ok \in SUBSET KindsIn(b) :
             /\ rows' = Stored(b, applied)
             /\ slips' = Slipped(OfKinds(b, applied))
             /\ IF BatchOK(b, ok) THEN dlq' \in {dlq, dlq \ {b}} ELSE dlq' = dlq
    BY <1>4 DEF RetryDLQMessage
  <2>2. /\ rows' \in [Events -> Nat]
        /\ slips' \in [Events -> Nat]
        /\ dlq' \in SUBSET Batches
    BY <2>1, StoredType, SlippedType DEF TypeOK
  <2>3. QED
    BY <1>4, <2>2 DEF TypeOK, Custody, AtWork, RetryDLQMessage, handlerVars
<1>5. ASSUME NEW s \in Spans, ClaimExpires(s) PROVE TypeOK' /\ Custody'
  BY <1>5, SlippedType
  DEF TypeOK, Custody, AtWork, ClaimExpires, handlerVars, workerVars
<1>6. ASSUME NEW c \in Consumers, WorkerStep(c) PROVE TypeOK' /\ Custody'
  <2>1. CASE Read(c)
    BY <2>1 DEF TypeOK, Custody, AtWork, Read, handlerVars
  <2>2. CASE Take(c)
    BY <2>2 DEF TypeOK, Custody, AtWork, Take, handlerVars
  <2>3. CASE Attempt(c)
    <3> DEFINE b == wk[c].batch
    <3>1. b \in Batches
      BY <2>3 DEF Attempt, Custody, AtWork
    <3>2. PICK applied, ok \in SUBSET KindsIn(b) :
               /\ rows' = Stored(b, applied)
               /\ slips' = Slipped(OfKinds(b, applied \ ok))
               /\ \/ wk' = [wk EXCEPT ![c].at = "ack"]
                  \/ /\ wk[c].attempt < MaxRetries
                     /\ wk' = [wk EXCEPT ![c].attempt = @ + 1]
                  \/ wk' = [wk EXCEPT ![c].at = "dlq"]
      BY <2>3, Zenon DEF Attempt, AfterAttempt
    <3>3. rows' \in [Events -> Nat] /\ slips' \in [Events -> Nat]
      BY <3>1, <3>2, StoredType, SlippedType
    <3>4. /\ AtWork(c) /\ wk[c].at = "process" /\ wk[c].attempt \in 0 .. MaxRetries
          /\ wk[c].attempt < MaxRetries => wk[c].attempt + 1 \in 0 .. MaxRetries
      BY <2>3 DEF TypeOK, Attempt, AtWork
    <3> HIDE DEF b
    <3>5. wk' \in [Consumers -> WorkerRec] /\ Custody'
      BY <3>2, <3>4, WorkerMoves
    <3>6. QED
      BY <2>3, <3>3, <3>5, Zenon DEF TypeOK, WorkerRec, Attempt, handlerVars
  <2>4. CASE MoveToDLQ(c)
    <3>1. AtWork(c) /\ dlq' = dlq \cup {wk[c].batch}
      BY <2>4 DEF MoveToDLQ, AtWork
    <3>2. dlq' \in SUBSET Batches
      BY <3>1 DEF Custody, TypeOK
    <3>3. \E at \in {"ack", "release"} : wk' = [wk EXCEPT ![c].at = at]
      BY <2>4 DEF MoveToDLQ
    <3>4. PICK at \in {"ack", "release"} : wk' = [wk EXCEPT ![c].at = at]
      BY <3>3
    <3>5. 0 \in 0 .. MaxRetries /\ at \in {"process", "dlq", "release", "ack"}
      OBVIOUS
    <3>6. wk' \in [Consumers -> WorkerRec] /\ Custody'
      BY <3>1, <3>4, <3>5, WorkerMoves, Zenon
    <3>7. QED
      BY <2>4, <3>2, <3>6, Zenon DEF TypeOK, WorkerRec, MoveToDLQ, handlerVars
  <2>5. CASE MoveToDLQError(c)
    BY <2>5 DEF TypeOK, Custody, AtWork, MoveToDLQError, Idle, handlerVars
  <2>6. CASE ReleaseClaims(c)
    <3>1. claims' \in [Spans -> Batches \cup {NoBatch}]
      <4>1. Released(wk[c].batch) \in [Spans -> Batches \cup {NoBatch}]
        BY ReleasedType
      <4>2. QED
        BY <2>6, <4>1 DEF ReleaseClaims, TypeOK
    <3>2. /\ AtWork(c) /\ wk' = [wk EXCEPT ![c].at = "ack"]
          /\ 0 \in 0 .. MaxRetries /\ "ack" \in {"process", "dlq", "release", "ack"}
      BY <2>6 DEF ReleaseClaims, AtWork
    <3>3. wk' \in [Consumers -> WorkerRec] /\ Custody'
      BY <3>2, WorkerMoves, Zenon
    <3>4. QED
      BY <2>6, <3>1, <3>3, Zenon DEF TypeOK, WorkerRec, ReleaseClaims, handlerVars
  <2>7. CASE Ack(c)
    BY <2>7 DEF TypeOK, Custody, AtWork, Ack, Idle, handlerVars
  <2>9. CASE ReleaseReplay(c)
    BY <2>9, ReleasedType, SlippedType
    DEF TypeOK, Custody, AtWork, ReleaseReplay, handlerVars, workerVars
  <2>8. QED
    BY <1>6, <2>1, <2>2, <2>3, <2>4, <2>5, <2>6, <2>7, <2>9 DEF WorkerStep
<1>7. ASSUME NEW c \in Consumers, WorkerCrash(c) PROVE TypeOK' /\ Custody'
  <2>1. rows' \in [Events -> Nat]
    BY <1>7, StoredType DEF WorkerCrash, TypeOK, Custody, AtWork
  <2>2. QED
    BY <1>7, <2>1 DEF TypeOK, Custody, AtWork, WorkerCrash, Idle, handlerVars
<1>8. CASE UNCHANGED vars
  BY <1>8 DEF TypeOK, Custody, AtWork, vars
<1>9. QED
  BY <1>1, <1>2, <1>3, <1>4, <1>5, <1>6, <1>7, <1>8 DEF Next

\* Every variable keeps its type, in every environment; what a worker has in
\* hand is always a batch (Redis keys never name anything but a batch).
THEOREM TypeCorrect == Spec => []TypeOK
<1>1. Init => TypeOK /\ Custody
  BY IngestAssumption DEF Init, TypeOK, Custody, AtWork, Idle
<1>2. TypeOK /\ Custody /\ [Next]_vars => TypeOK' /\ Custody'
  BY TypeStep
<1>3. QED
  BY <1>1, <1>2, PTL DEF Spec
-----------------------------------------------------------------------------
(* What holds in every environment, ambiguous events included: where a     *)
(* message can be, what a batch of spans carries, and that a batch a worker*)
(* is done with is stored or in the dead letter queue.                     *)

\* A message is with its handler, in the stream, or with one worker; only a
\* lost reply of XADD lets its handler undo what the stream has.
Whereabouts ==
    /\ \A b \in Batches :
         /\ pc[b] \in {"new", "claiming"} => claimedIDs[b] = {}
         /\ pc[b] \in {"new", "claiming", "publishing"} => msg[b] = "none"
    /\ \A b \in Batches, c \in Consumers :
         b \in buf[c] \/ wk[c].batch = b => msg[b] = "pending"
    /\ \A b \in Batches, c, d \in Consumers :
         /\ b \in buf[c] => wk[d].batch # b
         /\ b \in buf[c] /\ b \in buf[d] => c = d
         /\ wk[c].batch = b /\ wk[d].batch = b => c = d

LEMMA WhereaboutsStep ==
    ASSUME TypeOK, Custody, Whereabouts, [Next]_vars
    PROVE  Whereabouts'
<1> USE IngestAssumption DEF TypeOK, Custody, AtWork
<1>1. ASSUME NEW b \in Batches, Receive(b) PROVE Whereabouts'
  BY <1>1 DEF Whereabouts, Receive, workerVars
<1>2. ASSUME NEW b \in Batches, HandlerStep(b) PROVE Whereabouts'
  <2>1. CASE ClaimOK(b)
    BY <2>1 DEF Whereabouts, ClaimOK, workerVars
  <2>2. CASE ClaimError(b)
    BY <2>2 DEF Whereabouts, ClaimError, workerVars
  <2>3. CASE ClaimReplay(b)
    BY <2>3 DEF Whereabouts, ClaimReplay, handlerVars, workerVars
  <2>4. CASE Publish(b)
    BY <2>4 DEF Whereabouts, Publish, workerVars
  <2>5. CASE PublishError(b)
    BY <2>5 DEF Whereabouts, PublishError, AfterPublishError, workerVars
  <2>6. CASE PublishLost(b)
    BY <2>6 DEF Whereabouts, PublishLost, AfterPublishError, workerVars
  <2>7. CASE Rollback(b)
    BY <2>7 DEF Whereabouts, Rollback, workerVars
  <2>9. CASE RollbackReplay(b)
    BY <2>9 DEF Whereabouts, RollbackReplay, handlerVars, workerVars
  <2>10. CASE PublishReplay(b)
    BY <2>10 DEF Whereabouts, PublishReplay, workerVars
  <2>8. QED
    BY <1>2, <2>1, <2>2, <2>3, <2>4, <2>5, <2>6, <2>7, <2>9, <2>10 DEF HandlerStep
<1>3. ASSUME NEW b \in Batches, ServerCrash(b) PROVE Whereabouts'
  BY <1>3 DEF Whereabouts, ServerCrash, workerVars
<1>4. ASSUME NEW b \in Batches, RetryDLQMessage(b) PROVE Whereabouts'
  BY <1>4 DEF Whereabouts, RetryDLQMessage, handlerVars
<1>5. ASSUME NEW s \in Spans, ClaimExpires(s) PROVE Whereabouts'
  BY <1>5 DEF Whereabouts, ClaimExpires, handlerVars, workerVars
<1>6. ASSUME NEW c \in Consumers, WorkerStep(c) PROVE Whereabouts'
  <2>1. CASE Read(c)
    BY <2>1 DEF Whereabouts, Read, handlerVars
  <2>2. CASE Take(c)
    BY <2>2 DEF Whereabouts, Take, handlerVars
  <2>3. CASE Attempt(c)
    <3>1. \A d \in Consumers : wk'[d].batch = wk[d].batch
      BY <2>3 DEF Attempt, AfterAttempt
    <3>2. QED
      BY <2>3, <3>1 DEF Whereabouts, Attempt, handlerVars
  <2>4. CASE MoveToDLQ(c)
    BY <2>4 DEF Whereabouts, MoveToDLQ, handlerVars
  <2>5. CASE MoveToDLQError(c)
    BY <2>5 DEF Whereabouts, MoveToDLQError, Idle, handlerVars
  <2>6. CASE ReleaseClaims(c)
    BY <2>6 DEF Whereabouts, ReleaseClaims, handlerVars
  <2>7. CASE Ack(c)
    BY <2>7 DEF Whereabouts, Ack, Idle, handlerVars
  <2>9. CASE ReleaseReplay(c)
    BY <2>9 DEF Whereabouts, ReleaseReplay, handlerVars, workerVars
  <2>8. QED
    BY <1>6, <2>1, <2>2, <2>3, <2>4, <2>5, <2>6, <2>7, <2>9 DEF WorkerStep
<1>7. ASSUME NEW c \in Consumers, WorkerCrash(c) PROVE Whereabouts'
  BY <1>7 DEF Whereabouts, WorkerCrash, Idle, handlerVars
<1>8. CASE UNCHANGED vars
  BY <1>8 DEF Whereabouts, vars
<1>9. QED
  BY <1>1, <1>2, <1>3, <1>4, <1>5, <1>6, <1>7, <1>8 DEF Next

\* A batch claims spans it was asked to store, and a request with spans has
\* nothing else.
Traces ==
    \A b \in Batches :
        /\ claimedIDs[b] \subseteq Requested(b)
        /\ pc[b] = "claiming" \/ claimedIDs[b] # {} => Requested(b) \subseteq Spans

LEMMA TracesStep ==
    ASSUME TypeOK, Whereabouts, Traces, [Next]_vars
    PROVE  Traces'
<1>1. ASSUME NEW b \in Batches, Receive(b) PROVE Traces'
  <2>1. PICK p \in [Events -> 0 .. MaxCopies], trace \in BOOLEAN :
             /\ \A e \in Events : p[e] > 0 => (e \in Spans <=> trace)
             /\ payload' = [payload EXCEPT ![b] = p]
             /\ pc' = [pc EXCEPT ![b] = IF trace THEN "claiming" ELSE "publishing"]
    BY <1>1, Zenon DEF Receive
  <2>2. claimedIDs' = claimedIDs /\ claimedIDs[b] = {}
    BY <1>1 DEF Receive, Whereabouts
  <2>3. \A o \in Batches : o # b => pc'[o] = pc[o] /\ payload'[o] = payload[o]
    BY <2>1 DEF TypeOK
  <2>4. pc'[b] = "claiming" => \A e \in Events : payload'[b][e] > 0 => e \in Spans
    BY <2>1 DEF TypeOK
  <2>5. \A o \in Batches : o # b => Requested(o)' = Requested(o)
    BY <2>3 DEF Requested
  <2>6. pc'[b] = "claiming" => Requested(b)' \subseteq Spans
    BY <2>4 DEF Requested
  <2> QED
    BY <2>2, <2>3, <2>5, <2>6 DEF Traces
<1>2. ASSUME NEW b \in Batches, ClaimOK(b) PROVE Traces'
  <2>1. /\ claimedIDs' = [claimedIDs EXCEPT ![b] =
                            {s \in Spans : s \in Requested(b) /\ claims[s] = NoBatch}]
        /\ pc'[b] # "claiming" /\ \A o \in Batches : o # b => pc'[o] = pc[o]
        /\ \A o \in Batches : Requested(o)' = Requested(o)
    BY <1>2 DEF ClaimOK, TypeOK, Requested
  <2>2. claimedIDs'[b] \subseteq Requested(b) /\ Requested(b) \subseteq Spans
    BY <1>2, <2>1 DEF TypeOK, ClaimOK, Traces
  <2>3. \A o \in Batches : o # b => claimedIDs'[o] = claimedIDs[o]
    BY <2>1 DEF TypeOK
  <2> QED
    BY <2>1, <2>2, <2>3 DEF Traces
<1>3. ASSUME UNCHANGED <<payload, claimedIDs>>,
             \A b \in Batches : pc'[b] = "claiming" => pc[b] = "claiming"
      PROVE  Traces'
  BY <1>3 DEF Traces, Requested
<1>11. ASSUME NEW b \in Batches, PublishReplay(b) PROVE Traces'
  <2>1. PICK d \in Batches :
          /\ pc' = [pc EXCEPT ![d] = "copy"]
          /\ payload' = [payload EXCEPT ![d] = payload[b]]
          /\ claimedIDs' = [claimedIDs EXCEPT ![d] = claimedIDs[b]]
          /\ pc[b] = "publishing"
    BY <1>11 DEF PublishReplay
  <2>2. \A o \in Batches : pc'[o] = "claiming" => pc[o] = "claiming" /\ o # d
    BY <2>1 DEF TypeOK
  <2>3. /\ \A o \in Batches : o # d => claimedIDs'[o] = claimedIDs[o] /\ payload'[o] = payload[o]
        /\ claimedIDs'[d] = claimedIDs[b] /\ payload'[d] = payload[b]
    BY <2>1 DEF TypeOK
  <2>4. Requested(d)' = Requested(b) /\ \A o \in Batches : o # d => Requested(o)' = Requested(o)
    BY <2>3 DEF Requested
  <2> QED
    BY <2>2, <2>3, <2>4 DEF Traces
<1>4. ASSUME NEW b \in Batches, HandlerStep(b), ~ClaimOK(b), ~PublishReplay(b) PROVE Traces'
  <2>1. UNCHANGED <<payload, claimedIDs>>
    BY <1>4 DEF HandlerStep, ClaimError, ClaimReplay, PublishReplay, Publish, PublishError,
                PublishLost, Rollback, RollbackReplay, handlerVars
  <2>2. \A o \in Batches : pc'[o] = "claiming" => pc[o] = "claiming"
    BY <1>4 DEF HandlerStep, ClaimError, ClaimReplay, PublishReplay, Publish, PublishError,
                PublishLost, Rollback, RollbackReplay, AfterPublishError, handlerVars, TypeOK
  <2> QED
    BY <2>1, <2>2, <1>3
<1>5. ASSUME NEW b \in Batches, ServerCrash(b) PROVE Traces'
  <2>1. \A o \in Batches : pc'[o] = "claiming" => pc[o] = "claiming"
    BY <1>5 DEF ServerCrash, TypeOK
  <2> QED
    BY <1>3, <1>5, <2>1 DEF ServerCrash
<1>6. ASSUME UNCHANGED handlerVars PROVE Traces'
  BY <1>3, <1>6 DEF handlerVars
<1>7. ASSUME NEW b \in Batches, RetryDLQMessage(b) PROVE Traces'
  BY <1>6, <1>7 DEF RetryDLQMessage
<1>8. ASSUME NEW s \in Spans, ClaimExpires(s) PROVE Traces'
  BY <1>6, <1>8 DEF ClaimExpires
<1>9. ASSUME NEW c \in Consumers, WorkerStep(c) \/ WorkerCrash(c) PROVE Traces'
  BY <1>6, <1>9 DEF WorkerStep, WorkerCrash, Read, Take, Attempt, MoveToDLQ,
                    MoveToDLQError, ReleaseClaims, ReleaseReplay, Ack
<1>10. CASE UNCHANGED vars
  BY <1>6, <1>10 DEF vars, handlerVars
<1> QED
  BY <1>1, <1>2, <1>4, <1>5, <1>7, <1>8, <1>9, <1>10, <1>11 DEF Next

LEMMA StoredGrows ==
    ASSUME TypeOK, NEW b \in Batches, NEW S
    PROVE  \A e \in Events : Stored(b, S)[e] >= rows[e]
BY CopiesType DEF Stored, TypeOK

\* No step deletes rows.
LEMMA RowsGrow ==
    ASSUME TypeOK, Custody, [Next]_vars
    PROVE  \A e \in Events : rows'[e] >= rows[e]
<1>1. ASSUME UNCHANGED rows PROVE \A e \in Events : rows'[e] >= rows[e]
  BY <1>1 DEF TypeOK
<1>2. ASSUME NEW c \in Consumers, wk[c].at = "process",
             NEW S, rows' = Stored(wk[c].batch, S)
      PROVE  \A e \in Events : rows'[e] >= rows[e]
  BY <1>2, StoredGrows DEF Custody, AtWork
<1>3. ASSUME NEW c \in Consumers, Attempt(c) \/ WorkerCrash(c)
      PROVE  \A e \in Events : rows'[e] >= rows[e]
  BY <1>1, <1>2, <1>3 DEF Attempt, WorkerCrash
<1>4. ASSUME NEW b \in Batches, RetryDLQMessage(b)
      PROVE  \A e \in Events : rows'[e] >= rows[e]
  BY <1>4, StoredGrows DEF RetryDLQMessage
<1>5. ASSUME NEW b \in Batches, Receive(b) \/ HandlerStep(b) \/ ServerCrash(b)
      PROVE  UNCHANGED rows
  BY <1>5 DEF Receive, HandlerStep, ClaimOK, ClaimError, ClaimReplay, PublishReplay, Publish,
              PublishError, PublishLost, Rollback, RollbackReplay, ServerCrash, handlerVars
<1>6. ASSUME NEW c \in Consumers, WorkerStep(c), ~Attempt(c)
      PROVE  UNCHANGED rows
  BY <1>6 DEF WorkerStep, Read, Take, MoveToDLQ, MoveToDLQError, ReleaseClaims, ReleaseReplay, Ack
<1>7. ASSUME NEW s \in Spans, ClaimExpires(s) PROVE UNCHANGED rows
  BY <1>7 DEF ClaimExpires
<1> QED
  BY <1>1, <1>3, <1>4, <1>5, <1>6, <1>7 DEF Next, vars

\* processBatch reports success of a batch of spans only when their one bulk
\* insert succeeded, of those that could be unmarshalled, of which there is one.
LEMMA OKStoresSpans ==
    ASSUME TypeOK, Traces, NEW b \in Batches, NEW applied, NEW ok,
           ok \subseteq KindsIn(b), ok \subseteq applied, BatchOK(b, ok),
           rows' = Stored(b, applied)
    PROVE  /\ \A s \in claimedIDs[b] \ unreadable[b] : rows'[s] > 0
           /\ claimedIDs[b] # {} => claimedIDs[b] \ unreadable[b] # {}
<1>1. \A s \in claimedIDs[b] :
        /\ s \in Events /\ s \in Spans /\ KindOf[s] = "span" /\ CopiesOf(b, s) = 1
        /\ s \in EventsOf(b)
  BY DEF TypeOK, Spans, CopiesOf, EventsOf
<1> SUFFICES ASSUME claimedIDs[b] # {}
             PROVE  /\ \A s \in claimedIDs[b] \ unreadable[b] : rows'[s] > 0
                    /\ claimedIDs[b] \ unreadable[b] # {}
  OBVIOUS
<1>2. \A e \in EventsOf(b) : e \in claimedIDs[b] /\ KindOf[e] = "span"
  <2> SUFFICES ASSUME NEW e \in Events, CopiesOf(b, e) > 0
               PROVE  e \in Spans /\ e \in claimedIDs[b]
    BY DEF EventsOf, Spans
  <2>1. CASE e \notin Spans
    BY <2>1 DEF CopiesOf, Traces, Requested
  <2>2. CASE e \in Spans
    BY <2>2 DEF CopiesOf
  <2> QED
    BY <2>1, <2>2
<1>3. EventsOf(b) # {} /\ KindsIn(b) \subseteq {"span"}
  BY <1>1, <1>2 DEF KindsIn, Readable
<1>4. "span" \in applied /\ KindsIn(b) # {}
  BY <1>3 DEF BatchOK
<1>5. claimedIDs[b] \ unreadable[b] # {}
  BY <1>2, <1>4 DEF KindsIn, Readable
<1>6. ASSUME NEW s \in claimedIDs[b] \ unreadable[b] PROVE rows'[s] > 0
  <2>1. s \in OfKinds(b, applied)
    BY <1>1, <1>4 DEF OfKinds, Readable
  <2>2. rows'[s] = rows[s] + 1 /\ rows[s] \in Nat
    BY <1>1, <2>1 DEF Stored, TypeOK
  <2> QED
    BY <2>2
<1> QED
  BY <1>5, <1>6

\* The batch is kept as a dead letter, or every span it claimed is stored or was
\* skipped beside one that is.
Safe(b) == b \in dlq \/ \A s \in claimedIDs[b] : rows[s] > 0 \/ Skipped(b, s)

\* What processBatch reports as done is safe.
LEMMA OKIsSafe ==
    ASSUME TypeOK, Traces, NEW b \in Batches, NEW applied, NEW ok,
           ok \subseteq KindsIn(b), ok \subseteq applied, BatchOK(b, ok),
           rows' = Stored(b, applied), UNCHANGED <<claimedIDs, unreadable>>
    PROVE  \A s \in claimedIDs[b] : rows'[s] > 0 \/ Skipped(b, s)'
<1>1. /\ \A s \in claimedIDs[b] \ unreadable[b] : rows'[s] > 0
      /\ claimedIDs[b] # {} => claimedIDs[b] \ unreadable[b] # {}
  BY OKStoresSpans
<1> QED
  BY <1>1 DEF Skipped

\* What was skipped beside a stored span stays so: rows are never deleted.
LEMMA SkippedStays ==
    ASSUME TypeOK, Custody, [Next]_vars, NEW b \in Batches, NEW s \in Spans,
           Skipped(b, s), claimedIDs'[b] = claimedIDs[b], unreadable'[b] = unreadable[b]
    PROVE  Skipped(b, s)'
<1>1. PICK t \in claimedIDs[b] \ unreadable[b] : rows[t] > 0
  BY DEF Skipped
<1>2. t \in Events /\ rows[t] \in Nat /\ rows'[t] \in Nat
  BY <1>1, TypeStep DEF TypeOK, Spans
<1>3. rows'[t] > 0
  BY <1>1, <1>2, RowsGrow
<1> QED
  BY <1>1, <1>3 DEF Skipped

Settled ==
    /\ \A b \in Batches : msg[b] = "acked" => Safe(b)
    /\ \A c \in Consumers : wk[c].at \in {"release", "ack"} => Safe(wk[c].batch)

\* What every environment keeps true.
JInv == TypeOK /\ Custody /\ Whereabouts /\ Traces /\ Settled

\* Once a batch is safe it stays so: rows are never deleted, and a replayed
\* dead letter is only deleted when its spans are stored.
LEMMA SafeKept ==
    ASSUME JInv, [Next]_vars, NEW b \in Batches, Safe(b), pc[b] \notin {"new", "claiming"}
    PROVE  Safe(b)'
<1>1. \A s \in claimedIDs[b] : rows[s] > 0 => rows'[s] > 0
  <2>1. \A e \in Events : rows'[e] >= rows[e] /\ rows[e] \in Nat
    BY RowsGrow DEF JInv, TypeOK
  <2>2. claimedIDs[b] \subseteq Events
    BY DEF JInv, TypeOK, Spans
  <2>3. \A e \in Events : rows[e] > 0 => rows'[e] > 0
    <3> SUFFICES ASSUME NEW e \in Events, rows[e] > 0 PROVE rows'[e] > 0
      OBVIOUS
    <3>1. rows'[e] \in Nat
      BY TypeStep DEF JInv, TypeOK
    <3> QED
      BY <2>1, <3>1
  <2> QED
    BY <2>2, <2>3
<1>2. ASSUME claimedIDs'[b] = claimedIDs[b], unreadable'[b] = unreadable[b],
             b \in dlq => b \in dlq'
      PROVE  Safe(b)'
  <2>1. \A s \in claimedIDs[b] : s \in Spans /\ (Skipped(b, s) => Skipped(b, s)')
    BY <1>2, SkippedStays DEF JInv, TypeOK
  <2> QED
    BY <1>1, <1>2, <2>1 DEF Safe
<1>3. ASSUME NEW o \in Batches, Receive(o) \/ HandlerStep(o) \/ ServerCrash(o)
      PROVE  Safe(b)'
  <2>1. UNCHANGED dlq
    BY <1>3 DEF Receive, HandlerStep, ClaimOK, ClaimError, ClaimReplay, PublishReplay,
         Publish, PublishError, PublishLost, Rollback, RollbackReplay, ServerCrash, workerVars
  <2>2. claimedIDs'[b] = claimedIDs[b] /\ unreadable'[b] = unreadable[b]
    <3>1. CASE PublishReplay(o)
      BY <3>1 DEF PublishReplay, JInv, TypeOK
    <3>2. CASE ~PublishReplay(o)
      BY <1>3, <3>2 DEF Receive, HandlerStep, ClaimOK, ClaimError, ClaimReplay, Publish,
         PublishError, PublishLost, Rollback, RollbackReplay, ServerCrash, handlerVars,
         JInv, TypeOK
    <3> QED
      BY <3>1, <3>2
  <2> QED
    BY <1>2, <2>1, <2>2
<1>4. ASSUME NEW o \in Batches, RetryDLQMessage(o) PROVE Safe(b)'
  <2>1. PICK applied, ok \in SUBSET KindsIn(o) :
             /\ InsertOutcome(o, applied, ok)
             /\ rows' = Stored(o, applied)
             /\ IF BatchOK(o, ok) THEN dlq' \in {dlq, dlq \ {o}} ELSE dlq' = dlq
    BY <1>4 DEF RetryDLQMessage
  <2>2. UNCHANGED <<claimedIDs, unreadable>>
    BY <1>4 DEF RetryDLQMessage, handlerVars
  <2>3. CASE BatchOK(o, ok) /\ b = o
    <3>1. \A s \in claimedIDs[b] : rows'[s] > 0 \/ Skipped(b, s)'
      BY <2>1, <2>2, <2>3, OKIsSafe DEF InsertOutcome, JInv
    <3> QED
      BY <2>2, <3>1 DEF Safe
  <2>4. CASE ~(BatchOK(o, ok) /\ b = o)
    BY <1>2, <2>1, <2>2, <2>4
  <2> QED
    BY <2>3, <2>4
<1>5. ASSUME NEW s \in Spans, ClaimExpires(s) PROVE Safe(b)'
  BY <1>2, <1>5 DEF ClaimExpires, handlerVars, workerVars
<1>6. ASSUME NEW c \in Consumers, WorkerStep(c) \/ WorkerCrash(c) PROVE Safe(b)'
  <2>1. UNCHANGED handlerVars /\ dlq \subseteq dlq'
    BY <1>6 DEF WorkerStep, WorkerCrash, Read, Take, Attempt, MoveToDLQ,
       MoveToDLQError, ReleaseClaims, ReleaseReplay, Ack, workerVars
  <2> QED
    BY <1>2, <2>1 DEF handlerVars
<1>7. CASE UNCHANGED vars
  BY <1>2, <1>7 DEF vars, workerVars, handlerVars
<1> QED
  BY <1>3, <1>4, <1>5, <1>6, <1>7 DEF Next

LEMMA SettledStep ==
    ASSUME JInv, [Next]_vars
    PROVE  Settled'
<1> USE IngestAssumption
<1>t. TypeOK /\ Custody /\ Whereabouts /\ Traces /\ Settled
  BY DEF JInv
<1>1. ASSUME NEW b \in Batches, msg[b] = "acked" PROVE Safe(b)'
  <2>1. Safe(b) /\ pc[b] \notin {"new", "claiming"}
    BY <1>1, <1>t DEF Settled, Whereabouts
  <2> QED
    BY <2>1, SafeKept
<1>2. ASSUME NEW c \in Consumers, wk[c].at \in {"release", "ack"}
      PROVE  \E b \in Batches : wk[c].batch = b /\ Safe(b)'
  <2>1. PICK b \in Batches : wk[c].batch = b
    BY <1>2, <1>t DEF Custody, AtWork
  <2>2. Safe(b) /\ pc[b] \notin {"new", "claiming"}
    BY <1>2, <1>t, <2>1 DEF Settled, Whereabouts
  <2> QED
    BY <2>1, <2>2, SafeKept
\* Who is acknowledged, or about to be, after the step is safe after it.
<1>3. ASSUME \A b \in Batches : msg'[b] = "acked" => Safe(b)',
             \A c \in Consumers : wk'[c].at \in {"release", "ack"} =>
                 \E b \in Batches : wk'[c].batch = b /\ Safe(b)'
      PROVE  Settled'
  BY <1>3 DEF Settled, Safe
\* A step of somebody else.
<1>4. ASSUME \A b \in Batches : msg'[b] = "acked" => msg[b] = "acked",
             \A c \in Consumers : wk'[c].at \in {"release", "ack"} =>
                 wk[c].at \in {"release", "ack"} /\ wk'[c].batch = wk[c].batch
      PROVE  Settled'
  BY <1>1, <1>2, <1>3, <1>4
<1>5. ASSUME NEW b \in Batches, Receive(b) \/ HandlerStep(b) \/ ServerCrash(b)
      PROVE  Settled'
  <2>1. wk' = wk
    BY <1>5 DEF Receive, HandlerStep, ClaimOK, ClaimError, ClaimReplay, PublishReplay, Publish,
         PublishError, PublishLost, Rollback, RollbackReplay, ServerCrash, handlerVars, workerVars
  <2>2. \A o \in Batches : msg'[o] = "acked" => msg[o] = "acked"
    BY <1>5, <1>t DEF Receive, HandlerStep, ClaimOK, ClaimError, ClaimReplay, PublishReplay, Publish,
         PublishError, PublishLost, Rollback, RollbackReplay, ServerCrash, handlerVars, TypeOK
  <2> QED
    BY <1>4, <2>1, <2>2
<1>6. ASSUME NEW b \in Batches, RetryDLQMessage(b) PROVE Settled'
  BY <1>4, <1>6 DEF RetryDLQMessage
<1>7. ASSUME NEW s \in Spans, ClaimExpires(s) PROVE Settled'
  BY <1>4, <1>7 DEF ClaimExpires, workerVars
<1>8. ASSUME NEW c \in Consumers, Attempt(c) PROVE Settled'
  <2>1. PICK o \in Batches : o = wk[c].batch
    BY <1>8, <1>t DEF Attempt, Custody, AtWork
  <2>2. PICK applied, ok \in SUBSET KindsIn(o) :
             /\ InsertOutcome(o, applied, ok)
             /\ rows' = Stored(o, applied)
             /\ wk' = AfterAttempt(c, BatchOK(o, ok))
    BY <1>8, <2>1 DEF Attempt
  <2>3. UNCHANGED <<msg, dlq, claimedIDs, unreadable>>
    BY <1>8 DEF Attempt, handlerVars
  <2>4. /\ \A d \in Consumers : d # c => wk'[d] = wk[d]
        /\ wk'[c].batch = o
        /\ wk'[c].at \in {"release", "ack"} => BatchOK(o, ok)
    BY <1>8, <1>t, <2>1, <2>2 DEF Attempt, AfterAttempt, TypeOK
  <2>5. BatchOK(o, ok) => Safe(o)'
    <3>1. BatchOK(o, ok) => \A s \in claimedIDs[o] : rows'[s] > 0 \/ Skipped(o, s)'
      BY <1>t, <2>2, <2>3, OKIsSafe DEF InsertOutcome
    <3> QED
      BY <2>3, <3>1 DEF Safe
  <2> QED
    BY <1>1, <1>2, <1>3, <2>3, <2>4, <2>5
<1>9. ASSUME NEW c \in Consumers, MoveToDLQ(c) PROVE Settled'
  <2>1. PICK o \in Batches : o = wk[c].batch
    BY <1>9, <1>t DEF MoveToDLQ, Custody, AtWork
  <2>2. o \in dlq' /\ UNCHANGED msg
    BY <1>9, <2>1 DEF MoveToDLQ
  <2>3. wk'[c].batch = o /\ \A d \in Consumers : d # c => wk'[d] = wk[d]
    BY <1>9, <1>t, <2>1 DEF MoveToDLQ, TypeOK
  <2>4. Safe(o)'
    BY <2>2 DEF Safe
  <2> QED
    BY <1>1, <1>2, <1>3, <2>2, <2>3, <2>4
<1>10. ASSUME NEW c \in Consumers, Ack(c) PROVE Settled'
  <2>1. PICK o \in Batches : o = wk[c].batch /\ Safe(o)'
    BY <1>2, <1>10 DEF Ack
  <2>2. /\ wk'[c].at = "idle" /\ \A d \in Consumers : d # c => wk'[d] = wk[d]
        /\ \A b \in Batches : msg'[b] = "acked" => b = o \/ msg[b] = "acked"
    BY <1>10, <1>t, <2>1 DEF Ack, TypeOK, Idle
  <2> QED
    BY <1>1, <1>2, <1>3, <2>1, <2>2
<1>11. ASSUME NEW c \in Consumers, Read(c) \/ Take(c) \/ MoveToDLQError(c)
                                   \/ ReleaseClaims(c) \/ ReleaseReplay(c)
                                   \/ WorkerCrash(c)
       PROVE  Settled'
  <2>1. \A b \in Batches : msg'[b] = "acked" => msg[b] = "acked"
    BY <1>11 DEF Read, Take, MoveToDLQError, ReleaseClaims, ReleaseReplay, WorkerCrash
  <2>2. \A d \in Consumers : wk'[d].at \in {"release", "ack"} =>
          wk[d].at \in {"release", "ack"} /\ wk'[d].batch = wk[d].batch
    <3>1. /\ \A d \in Consumers : d # c => wk'[d] = wk[d]
          /\ wk'[c] = wk[c] \/ wk'[c].at \in {"process", "idle"}
             \/ ReleaseClaims(c)
      BY <1>11, <1>t DEF Read, Take, MoveToDLQError, WorkerCrash, ReleaseClaims,
         ReleaseReplay, workerVars, TypeOK, Idle
    <3>2. CASE ReleaseClaims(c)
      BY <1>t, <3>2 DEF ReleaseClaims, TypeOK
    <3> QED
      BY <3>1, <3>2
  <2> QED
    BY <1>4, <2>1, <2>2
<1>12. CASE UNCHANGED vars
  BY <1>4, <1>12 DEF vars, workerVars
<1> QED
  BY <1>5, <1>6, <1>7, <1>8, <1>9, <1>10, <1>11, <1>12 DEF Next, WorkerStep

LEMMA JInvInductive ==
    /\ Init => JInv
    /\ JInv /\ [Next]_vars => JInv'
<1>1. Init => JInv
  <2> SUFFICES ASSUME Init PROVE JInv
    OBVIOUS
  <2>1. TypeOK /\ Custody
    BY IngestAssumption DEF Init, TypeOK, Custody, AtWork, Idle
  <2>2. Whereabouts /\ Traces /\ Settled
    BY IngestAssumption DEF Init, Whereabouts, Traces, Settled, Idle
  <2> QED
    BY <2>1, <2>2 DEF JInv
<1>2. JInv /\ [Next]_vars => JInv'
  BY TypeStep, WhereaboutsStep, TracesStep, SettledStep DEF JInv
<1> QED
  BY <1>1, <1>2

\* A trace batch is acknowledged only when it is a dead letter, or every span it
\* claimed has a row but those that could not be unmarshalled beside one that
\* has: in every environment, lost replies, repeated commands, expired keys,
\* crashes and replays of dead letters included.
THEOREM AcknowledgedIsSafe == Spec => []AckedSpansSafe
<1>1. JInv => AckedSpansSafe
  BY DEF JInv, Settled, Safe, AckedSpansSafe
<1> QED
  BY <1>1, JInvInductive, PTL DEF Spec

-----------------------------------------------------------------------------
(* Why an "all_duplicates" answer hides no loss: a key in Redis stands for *)
(* a request that was refused, or for a batch that is on its way, kept as a*)
(* dead letter or stored; and what accounts for a span goes on doing so.   *)

\* A request goes one way only, and its message goes on where it ends.
Proceeds(b) ==
    /\ pc[b] \in {"failed", "all_duplicates"} => pc'[b] = pc[b]
    /\ pc[b] # "new" => payload'[b] = payload[b] /\ unreadable'[b] = unreadable[b]
    /\ pc[b] \notin {"new", "claiming"} => claimedIDs'[b] = claimedIDs[b]
    /\ pc[b] \in {"publishing", "rollback"} =>
         pc'[b] \in {"publishing", "rollback", "failed"} \/ msg'[b] = "queued"
    /\ msg[b] \in {"queued", "pending"} => msg'[b] \in {"queued", "pending", "acked"}

LEMMA Onward ==
    ASSUME JInv, [Next]_vars, NEW b \in Batches
    PROVE  Proceeds(b)
<1>t. TypeOK /\ Custody /\ Whereabouts
  BY DEF JInv
<1>1. ASSUME NEW o \in Batches, Receive(o) \/ HandlerStep(o) \/ ServerCrash(o)
      PROVE  Proceeds(b)
  <2>3. CASE PublishReplay(o)
    BY <1>t, <2>3 DEF Proceeds, PublishReplay, TypeOK
  <2>1. CASE o = b /\ ~PublishReplay(o)
    BY <1>1, <1>t, <2>1
    DEF Proceeds, Receive, HandlerStep, ClaimOK, ClaimError, ClaimReplay, PublishReplay, Publish,
        PublishError, PublishLost, AfterPublishError, Rollback, RollbackReplay, ServerCrash, handlerVars, TypeOK
  <2>2. CASE o # b /\ ~PublishReplay(o)
    <3>1. /\ pc'[b] = pc[b] /\ payload'[b] = payload[b] /\ unreadable'[b] = unreadable[b]
          /\ claimedIDs'[b] = claimedIDs[b] /\ msg'[b] = msg[b]
      BY <1>1, <1>t, <2>2
      DEF Receive, HandlerStep, ClaimOK, ClaimError, ClaimReplay, PublishReplay, Publish,
          PublishError, PublishLost, Rollback, RollbackReplay, ServerCrash, handlerVars, TypeOK
    <3> QED
      BY <3>1 DEF Proceeds
  <2> QED
    BY <2>1, <2>2, <2>3
<1>2. ASSUME UNCHANGED handlerVars,
             msg'[b] = msg[b] \/ msg'[b] \in {"pending", "acked"}
      PROVE  Proceeds(b)
  BY <1>2 DEF Proceeds, handlerVars
<1>3. ASSUME NEW c \in Consumers, WorkerStep(c) \/ WorkerCrash(c)
      PROVE  Proceeds(b)
  BY <1>2, <1>3, <1>t DEF WorkerStep, WorkerCrash, Read, Take, Attempt, MoveToDLQ,
     MoveToDLQError, ReleaseClaims, ReleaseReplay, Ack, TypeOK
<1>4. ASSUME NEW o \in Batches, RetryDLQMessage(o) PROVE Proceeds(b)
  BY <1>2, <1>4 DEF RetryDLQMessage
<1>5. ASSUME NEW s \in Spans, ClaimExpires(s) PROVE Proceeds(b)
  BY <1>2, <1>5 DEF ClaimExpires
<1>6. CASE UNCHANGED vars
  BY <1>2, <1>6 DEF vars, handlerVars
<1> QED
  BY <1>1, <1>3, <1>4, <1>5, <1>6 DEF Next

\* Batch b accounts for span s.
Accounts(b, s) ==
    /\ s \in Requested(b)
    /\ \/ pc[b] = "failed"
       \/ /\ s \in claimedIDs[b]
          /\ \/ pc[b] \in {"publishing", "rollback"}
             \/ msg[b] \in {"queued", "pending"}
             \/ b \in dlq
             \/ Skipped(b, s)

Accounted(s) == rows[s] > 0 \/ \E b \in Batches : Accounts(b, s)

LEMMA AccountsOn ==
    ASSUME JInv, [Next]_vars, Settled',
           NEW b \in Batches, NEW s \in Spans, Accounts(b, s)
    PROVE  Accounts(b, s)' \/ rows'[s] > 0
<1>1. Proceeds(b)
  BY Onward
<1>2. pc[b] # "new" /\ (s \in claimedIDs[b] => pc[b] # "claiming")
  BY DEF Accounts, JInv, Whereabouts
<1>3. Requested(b)' = Requested(b)
  BY <1>1, <1>2 DEF Proceeds, Requested
<1>4. CASE pc[b] = "failed"
  BY <1>1, <1>3, <1>4 DEF Proceeds, Accounts
<1>6. CASE s \in claimedIDs[b] /\ Skipped(b, s)
  <2>1. claimedIDs'[b] = claimedIDs[b] /\ unreadable'[b] = unreadable[b]
    BY <1>1, <1>2, <1>6 DEF Proceeds
  <2> QED
    BY <1>3, <1>6, <2>1, SkippedStays DEF JInv, Accounts
<1>5. CASE s \in claimedIDs[b] /\ ~Skipped(b, s)
  <2>1. s \in claimedIDs'[b]
    BY <1>1, <1>2, <1>5 DEF Proceeds
  <2>2. Safe(b)' => Accounts(b, s)' \/ rows'[s] > 0
    BY <1>3, <2>1 DEF Safe, Accounts
  <2>3. CASE b \in dlq
    <3>1. Safe(b)'
      BY <1>2, <1>5, <2>3, SafeKept DEF Safe
    <3> QED
      BY <2>2, <3>1
  <2>4. CASE msg'[b] = "acked"
    <3>1. Safe(b)'
      BY <2>4 DEF Settled
    <3> QED
      BY <2>2, <3>1
  <2>5. CASE b \notin dlq /\ msg'[b] # "acked"
    BY <1>1, <1>3, <1>5, <2>1, <2>5 DEF Proceeds, Accounts
  <2> QED
    BY <2>3, <2>4, <2>5
<1> QED
  BY <1>4, <1>5, <1>6 DEF Accounts

LEMMA AccountedOn ==
    ASSUME JInv, [Next]_vars, NEW s \in Spans, Accounted(s)
    PROVE  Accounted(s)'
<1>1. Settled'
  BY SettledStep
<1>2. rows[s] > 0 => rows'[s] > 0
  <2>1. s \in Events /\ rows[s] \in Nat /\ rows'[s] \in Nat
    BY TypeStep DEF JInv, TypeOK, Spans
  <2> QED
    BY <2>1, RowsGrow DEF JInv
<1>3. ASSUME NEW b \in Batches, Accounts(b, s) PROVE Accounted(s)'
  BY <1>1, <1>3, AccountsOn DEF Accounted
<1> QED
  BY <1>2, <1>3 DEF Accounted

\* Every key in Redis is accounted for, and so is every span of a request that
\* was told all of them are duplicates.
KeysAccounted == \A s \in Spans : claims[s] # NoBatch => Accounted(s)

AnswersAccounted ==
    \A b \in Batches : pc[b] = "all_duplicates" =>
        \A s \in Requested(b) : s \in Spans /\ Accounted(s)

LEMMA AccountedStep ==
    ASSUME JInv, KeysAccounted, AnswersAccounted, [Next]_vars,
           "claim_replay" \notin Env
    PROVE  KeysAccounted' /\ AnswersAccounted'
<1> USE IngestAssumption
<1>t. TypeOK /\ Custody /\ Whereabouts /\ Traces
  BY DEF JInv
<1>1. ASSUME NEW s \in Spans, Accounted(s) PROVE Accounted(s)'
  BY <1>1, AccountedOn
<1>2. ASSUME NEW b \in Batches, pc[b] = "all_duplicates"
      PROVE  \A s \in Requested(b)' : s \in Spans /\ Accounted(s)'
  <2>1. Requested(b)' = Requested(b)
    BY <1>2, Onward DEF Proceeds, Requested
  <2> QED
    BY <1>1, <1>2, <2>1 DEF AnswersAccounted
\* A step that sets no key and gives no such answer.
<1>3. ASSUME \A s \in Spans : claims'[s] # NoBatch => claims[s] # NoBatch,
             \A b \in Batches : pc'[b] = "all_duplicates" => pc[b] = "all_duplicates"
      PROVE  KeysAccounted' /\ AnswersAccounted'
  BY <1>1, <1>2, <1>3 DEF KeysAccounted, AnswersAccounted
<1>4. ASSUME NEW b \in Batches, ClaimOK(b) PROVE KeysAccounted' /\ AnswersAccounted'
  <2>1. PICK won : /\ won = {s \in Spans : s \in Requested(b) /\ claims[s] = NoBatch}
                   /\ claimedIDs' = [claimedIDs EXCEPT ![b] = won]
                   /\ claims' = [s \in Spans |-> IF s \in won THEN b ELSE claims[s]]
                   /\ pc' = [pc EXCEPT ![b] = IF won = {} THEN "all_duplicates"
                                                          ELSE "publishing"]
    BY <1>4 DEF ClaimOK
  <2>2. Requested(b)' = Requested(b) /\ Requested(b) \subseteq Spans
    BY <1>4, <1>t DEF ClaimOK, Traces, Requested
  <2>3. ASSUME NEW s \in won PROVE Accounted(s)'
    <3>1. claimedIDs'[b] = won /\ pc'[b] = "publishing"
      BY <1>t, <2>1, <2>3 DEF TypeOK
    <3>2. s \in Requested(b)'
      BY <2>1, <2>2, <2>3
    <3> QED
      BY <2>3, <3>1, <3>2 DEF Accounted, Accounts
  <2>4. KeysAccounted'
    BY <1>1, <2>1, <2>3 DEF KeysAccounted
  <2>5. \A o \in Batches : o # b /\ pc'[o] = "all_duplicates" => pc[o] = "all_duplicates"
    BY <1>t, <2>1 DEF TypeOK
  <2>6. pc'[b] = "all_duplicates" => \A s \in Requested(b) : claims[s] # NoBatch
    BY <1>t, <2>1, <2>2 DEF TypeOK
  <2>7. AnswersAccounted'
    BY <1>1, <1>2, <2>2, <2>5, <2>6 DEF AnswersAccounted, KeysAccounted
  <2> QED
    BY <2>4, <2>7
<1>5. ASSUME NEW b \in Batches, ClaimError(b) PROVE KeysAccounted' /\ AnswersAccounted'
  <2>1. PICK ran \in SUBSET {s \in Spans : s \in Requested(b) /\ claims[s] = NoBatch} :
             claims' = [s \in Spans |-> IF s \in ran THEN b ELSE claims[s]]
    BY <1>5 DEF ClaimError
  <2>2. /\ Requested(b)' = Requested(b) /\ pc'[b] = "failed"
        /\ \A o \in Batches : pc'[o] = "all_duplicates" => pc[o] = "all_duplicates"
    BY <1>5, <1>t DEF ClaimError, Requested, TypeOK
  <2>3. ASSUME NEW s \in ran PROVE Accounted(s)'
    BY <2>2 DEF Accounted, Accounts
  <2>4. KeysAccounted'
    BY <1>1, <2>1, <2>3 DEF KeysAccounted
  <2> QED
    BY <1>2, <2>2, <2>4 DEF AnswersAccounted
<1>6. ASSUME NEW b \in Batches,
             \/ Receive(b) \/ PublishReplay(b) \/ Publish(b) \/ PublishError(b)
             \/ PublishLost(b) \/ Rollback(b) \/ RollbackReplay(b) \/ ServerCrash(b)
      PROVE  KeysAccounted' /\ AnswersAccounted'
  <2>1. \A o \in Batches : pc'[o] = "all_duplicates" => pc[o] = "all_duplicates"
    BY <1>6, <1>t DEF Receive, PublishReplay, Publish, PublishError, PublishLost,
       AfterPublishError, Rollback, RollbackReplay, ServerCrash, handlerVars, TypeOK
  <2>2. \A s \in Spans : claims'[s] # NoBatch => claims[s] # NoBatch
    BY <1>6 DEF Receive, PublishReplay, Publish, PublishError, PublishLost, Rollback, RollbackReplay, Released, ServerCrash, handlerVars
  <2> QED
    BY <1>3, <2>1, <2>2
<1>7. ASSUME UNCHANGED handlerVars,
             \A s \in Spans : claims'[s] # NoBatch => claims[s] # NoBatch
      PROVE  KeysAccounted' /\ AnswersAccounted'
  BY <1>3, <1>7 DEF handlerVars
<1>8. ASSUME NEW b \in Batches, RetryDLQMessage(b)
      PROVE  KeysAccounted' /\ AnswersAccounted'
  BY <1>7, <1>8 DEF RetryDLQMessage
<1>9. ASSUME NEW s \in Spans, ClaimExpires(s)
      PROVE  KeysAccounted' /\ AnswersAccounted'
  BY <1>7, <1>9, <1>t DEF ClaimExpires, TypeOK
<1>10. ASSUME NEW c \in Consumers, WorkerStep(c) \/ WorkerCrash(c)
       PROVE  KeysAccounted' /\ AnswersAccounted'
  BY <1>7, <1>10 DEF WorkerStep, WorkerCrash, Read, Take, Attempt, MoveToDLQ,
     MoveToDLQError, ReleaseClaims, ReleaseReplay, Released, Ack
<1>11. CASE UNCHANGED vars
  BY <1>7, <1>11 DEF vars, handlerVars
<1>12. \A b \in Batches : ~ClaimReplay(b)
  BY DEF ClaimReplay
<1> QED
  BY <1>4, <1>5, <1>6, <1>8, <1>9, <1>10, <1>11, <1>12 DEF Next, HandlerStep

\* An "all_duplicates" answer hides no loss, in every environment in which the
\* Redis client does not run a claim again after its reply was lost.
THEOREM DuplicateAnswersTrue ==
    ASSUME "claim_replay" \notin Env
    PROVE  Spec => []DuplicateAnswerTrue
<1>1. Init => KeysAccounted /\ AnswersAccounted
  BY DEF Init, KeysAccounted, AnswersAccounted
<1>2. JInv /\ KeysAccounted /\ AnswersAccounted /\ [Next]_vars =>
        KeysAccounted' /\ AnswersAccounted'
  BY AccountedStep
<1>3. AnswersAccounted => DuplicateAnswerTrue
  BY DEF AnswersAccounted, DuplicateAnswerTrue, Accounted, Accounts
<1> QED
  BY <1>1, <1>2, <1>3, JInvInductive, PTL DEF Spec

-----------------------------------------------------------------------------
(* A failed or replayed claim, a failed release and the death of the server*)
(* leave keys behind that nobody releases.  Without them, every key stands *)
(* for a span that is stored or on its way.                                *)

Orphaning == {"claim_error", "claim_replay", "release_error", "server_crash"}

\* Who holds a key knows that he does, so that he can release it, and does
\* before a batch that was not stored is acknowledged.
KnownKeys ==
    /\ \A s \in Spans, b \in Batches : claims[s] = b => s \in claimedIDs[b]
    /\ \A c \in Consumers : wk[c].at = "ack" =>
         \A s \in Spans : claims[s] = wk[c].batch =>
             rows[s] > 0 \/ Skipped(wk[c].batch, s)

\* What backed a key before the step backs it after.
StaysBacked(s, b) ==
    /\ pc[b] \in {"publishing", "rollback"} =>
         pc'[b] \in {"publishing", "rollback"} \/ msg'[b] = "queued"
    /\ msg[b] \in {"queued", "pending"} =>
         msg'[b] \in {"queued", "pending"} \/ rows[s] > 0 \/ Skipped(b, s)

LEMMA BackedStep ==
    ASSUME JInv, KnownKeys, ClaimsBacked, [Next]_vars, Env \cap Orphaning = {}
    PROVE  KnownKeys' /\ ClaimsBacked'
<1> USE IngestAssumption
<1>t. TypeOK /\ Custody /\ Whereabouts /\ Traces
  BY DEF JInv
<1>1. \A b \in Batches : Proceeds(b)
  BY Onward
<1>2. \A s \in Spans : rows[s] > 0 => rows'[s] > 0
  <2>1. \A s \in Spans : s \in Events /\ rows[s] \in Nat /\ rows'[s] \in Nat
    BY TypeStep, <1>t DEF TypeOK, Spans
  <2> QED
    BY <1>t, <2>1, RowsGrow
<1>k. \A s \in Spans, b \in Batches : Skipped(b, s) => Skipped(b, s)'
  <2> SUFFICES ASSUME NEW s \in Spans, NEW b \in Batches, Skipped(b, s)
               PROVE  Skipped(b, s)'
    OBVIOUS
  <2>1. pc[b] \notin {"new", "claiming"}
    BY <1>t DEF Skipped, Whereabouts
  <2>2. claimedIDs'[b] = claimedIDs[b] /\ unreadable'[b] = unreadable[b]
    BY <1>1, <2>1 DEF Proceeds
  <2> QED
    BY <1>t, <2>2, SkippedStays
\* A key that was there before the step.
<1>3. ASSUME NEW s \in Spans, NEW b \in Batches, claims[s] = b, StaysBacked(s, b)
      PROVE  /\ s \in claimedIDs'[b]
             /\ \/ rows'[s] > 0 \/ Skipped(b, s)'
                \/ pc'[b] \in {"publishing", "rollback"}
                \/ msg'[b] \in {"queued", "pending"}
  <2>1. s \in claimedIDs[b] /\ pc[b] \notin {"new", "claiming"}
    BY <1>3, <1>t DEF KnownKeys, Whereabouts
  <2>2. s \in claimedIDs'[b]
    BY <1>1, <2>1 DEF Proceeds
  <2> QED
    BY <1>2, <1>3, <1>k, <2>2 DEF ClaimsBacked, StaysBacked
\* Nobody but the worker's own batch is about to be acknowledged.
<1>4. ASSUME \A s \in Spans, b \in Batches : claims'[s] = b => claims[s] = b,
             NEW c \in Consumers, wk[c].at = "ack", wk'[c].batch = wk[c].batch
      PROVE  \A s \in Spans : claims'[s] = wk'[c].batch =>
                 rows'[s] > 0 \/ Skipped(wk[c].batch, s)'
  <2>1. PICK o \in Batches : o = wk[c].batch
    BY <1>4, <1>t DEF Custody, AtWork
  <2>2. \A s \in Spans : claims'[s] = o => rows'[s] > 0 \/ Skipped(o, s)'
    BY <1>2, <1>4, <1>k, <2>1 DEF KnownKeys
  <2> QED
    BY <1>4, <2>1, <2>2
<1>5. ASSUME \A s \in Spans, b \in Batches : claims'[s] = b => claims[s] = b,
             \A s \in Spans, b \in Batches : claims'[s] = b => StaysBacked(s, b),
             \A c \in Consumers : wk'[c].at = "ack" =>
                 \/ wk[c].at = "ack" /\ wk'[c].batch = wk[c].batch
                 \/ \A s \in Spans : claims'[s] = wk'[c].batch =>
                        rows'[s] > 0 \/ Skipped(wk[c].batch, s)'
      PROVE  KnownKeys' /\ ClaimsBacked'
  BY <1>3, <1>4, <1>5 DEF KnownKeys, ClaimsBacked
<1>6. ASSUME NEW b \in Batches, ClaimOK(b) PROVE KnownKeys' /\ ClaimsBacked'
  <2>1. PICK won : /\ won = {s \in Spans : s \in Requested(b) /\ claims[s] = NoBatch}
                   /\ claimedIDs' = [claimedIDs EXCEPT ![b] = won]
                   /\ claims' = [s \in Spans |-> IF s \in won THEN b ELSE claims[s]]
                   /\ pc' = [pc EXCEPT ![b] = IF won = {} THEN "all_duplicates"
                                                          ELSE "publishing"]
    BY <1>6 DEF ClaimOK
  <2>2. UNCHANGED <<msg, wk, rows>> /\ pc[b] = "claiming" /\ msg[b] = "none"
    BY <1>6, <1>t DEF ClaimOK, workerVars, Whereabouts
  <2>3. \A s \in Spans, o \in Batches : claims[s] = o => o # b /\ StaysBacked(s, o)
    BY <1>t, <2>1, <2>2 DEF KnownKeys, Whereabouts, StaysBacked, TypeOK
  <2>4. claimedIDs'[b] = won /\ (won # {} => pc'[b] = "publishing")
    BY <1>t, <2>1 DEF TypeOK
  <2>5. ASSUME NEW s \in Spans, NEW o \in Batches, claims'[s] = o
        PROVE  /\ s \in claimedIDs'[o]
               /\ \/ rows'[s] > 0 \/ Skipped(o, s)'
                  \/ pc'[o] \in {"publishing", "rollback"}
                  \/ msg'[o] \in {"queued", "pending"}
    <3>1. CASE s \in won
      BY <2>1, <2>4, <2>5, <3>1
    <3>2. CASE s \notin won
      BY <1>3, <2>1, <2>3, <2>5, <3>2
    <3> QED
      BY <3>1, <3>2
  <2>6. ASSUME NEW c \in Consumers, wk'[c].at = "ack", NEW s \in Spans,
               claims'[s] = wk'[c].batch
        PROVE  rows'[s] > 0 \/ Skipped(wk[c].batch, s)'
    <3>1. wk[c].at = "ack" /\ wk[c].batch # b /\ claims'[s] = wk[c].batch
      BY <1>t, <2>2, <2>6 DEF Whereabouts
    <3>2. claims[s] = wk[c].batch
      BY <2>1, <3>1
    <3>3. PICK o \in Batches : o = wk[c].batch
      BY <1>t, <3>1 DEF Custody, AtWork
    <3>4. rows'[s] > 0 \/ Skipped(o, s)'
      BY <1>2, <1>k, <3>1, <3>2, <3>3 DEF KnownKeys
    <3> QED
      BY <2>2, <3>3, <3>4
  <2> QED
    BY <2>5, <2>6 DEF KnownKeys, ClaimsBacked
<1>7. ASSUME NEW b \in Batches,
             \/ Receive(b) \/ Publish(b) \/ PublishError(b) \/ PublishLost(b)
             \/ PublishReplay(b)
      PROVE  KnownKeys' /\ ClaimsBacked'
  <2>1. claims' = claims /\ wk' = wk
    BY <1>7 DEF Receive, PublishReplay, Publish, PublishError, PublishLost, workerVars
  <2>2. \A s \in Spans, o \in Batches : claims[s] = o => StaysBacked(s, o)
    <3>1. CASE PublishReplay(b)
      BY <1>t, <3>1 DEF PublishReplay, Whereabouts, StaysBacked, TypeOK
    <3>2. CASE ~PublishReplay(b)
      BY <1>7, <1>t, <3>2 DEF Receive, Publish, PublishError, PublishLost,
         AfterPublishError, Whereabouts, KnownKeys, StaysBacked, TypeOK
    <3> QED
      BY <3>1, <3>2
  <2> QED
    BY <1>5, <2>1, <2>2
<1>8. ASSUME NEW b \in Batches, Rollback(b) PROVE KnownKeys' /\ ClaimsBacked'
  <2>1. claims' = Released(b) /\ wk' = wk /\ msg' = msg
    BY <1>8 DEF Rollback, Orphaning, workerVars
  <2>2. \A s \in Spans, o \in Batches : claims'[s] = o => claims[s] = o /\ o # b
    BY <2>1 DEF Released, KnownKeys
  <2>3. \A s \in Spans, o \in Batches : o # b => StaysBacked(s, o)
    BY <1>8, <1>t, <2>1 DEF Rollback, StaysBacked, TypeOK
  <2> QED
    BY <1>5, <2>1, <2>2, <2>3
<1>9. ASSUME UNCHANGED handlerVars,
             \A s \in Spans, b \in Batches : claims'[s] = b => claims[s] = b,
             \A b \in Batches : msg[b] \in {"queued", "pending"} =>
                 msg'[b] \in {"queued", "pending"},
             \A c \in Consumers : wk'[c].at = "ack" =>
                 \/ wk[c].at = "ack" /\ wk'[c].batch = wk[c].batch
                 \/ \A s \in Spans : claims'[s] = wk'[c].batch =>
                        rows'[s] > 0 \/ Skipped(wk[c].batch, s)'
      PROVE  KnownKeys' /\ ClaimsBacked'
  <2>1. \A s \in Spans, b \in Batches : StaysBacked(s, b)
    BY <1>9 DEF StaysBacked, handlerVars
  <2> QED
    BY <1>5, <1>9, <2>1
<1>20. ASSUME NEW b \in Batches, RollbackReplay(b) PROVE KnownKeys' /\ ClaimsBacked'
  BY <1>9, <1>20 DEF RollbackReplay, Released, workerVars
<1>21. ASSUME NEW c \in Consumers, ReleaseReplay(c) PROVE KnownKeys' /\ ClaimsBacked'
  BY <1>9, <1>21 DEF ReleaseReplay, Released, workerVars
<1>10. ASSUME NEW b \in Batches, RetryDLQMessage(b) PROVE KnownKeys' /\ ClaimsBacked'
  BY <1>9, <1>10 DEF RetryDLQMessage
<1>11. ASSUME NEW s \in Spans, ClaimExpires(s) PROVE KnownKeys' /\ ClaimsBacked'
  BY <1>9, <1>11, <1>t DEF ClaimExpires, TypeOK, workerVars
<1>12. ASSUME NEW c \in Consumers,
              Read(c) \/ Take(c) \/ MoveToDLQError(c) \/ WorkerCrash(c)
       PROVE  KnownKeys' /\ ClaimsBacked'
  <2>1. UNCHANGED handlerVars /\ claims' = claims
    BY <1>12 DEF Read, Take, MoveToDLQError, WorkerCrash
  <2>2. \A b \in Batches : msg[b] \in {"queued", "pending"} =>
          msg'[b] \in {"queued", "pending"}
    BY <1>12 DEF Read, Take, MoveToDLQError, WorkerCrash
  <2>3. \A d \in Consumers : wk'[d].at = "ack" =>
          wk[d].at = "ack" /\ wk'[d].batch = wk[d].batch
    <3>1. CASE Take(c)
      <4>1. PICK b \in buf[c] :
                 wk' = [wk EXCEPT ![c] = [at |-> "process", batch |-> b, attempt |-> 0]]
        BY <3>1 DEF Take
      <4>2. DOMAIN wk = Consumers
        BY <1>t DEF TypeOK
      <4>3. wk'[c].at = "process" /\ \A d \in Consumers : d # c => wk'[d] = wk[d]
        BY <4>1, <4>2
      <4> QED
        BY <4>3
    <3>2. CASE Read(c)
      BY <3>2 DEF Read
    <3>3. CASE MoveToDLQError(c) \/ WorkerCrash(c)
      <4>1. wk' = [wk EXCEPT ![c] = Idle]
        BY <3>3 DEF MoveToDLQError, WorkerCrash
      <4>2. DOMAIN wk = Consumers /\ Idle.at = "idle"
        BY <1>t DEF TypeOK, Idle
      <4>3. wk'[c].at = "idle" /\ \A d \in Consumers : d # c => wk'[d] = wk[d]
        BY <4>1, <4>2
      <4> QED
        BY <4>3
    <3> QED
      BY <1>12, <3>1, <3>2, <3>3
  <2> QED
    BY <1>9, <2>1, <2>2, <2>3
<1>13. ASSUME NEW c \in Consumers, UNCHANGED <<handlerVars, claims, msg>>,
              \A d \in Consumers : d # c => wk'[d] = wk[d],
              wk'[c].at = "ack" =>
                  \A s \in Spans : claims[s] = wk'[c].batch =>
                      rows'[s] > 0 \/ Skipped(wk[c].batch, s)'
       PROVE  KnownKeys' /\ ClaimsBacked'
  BY <1>9, <1>13
<1>14. ASSUME NEW c \in Consumers, Attempt(c) PROVE KnownKeys' /\ ClaimsBacked'
  <2>1. PICK o \in Batches : o = wk[c].batch
    BY <1>14, <1>t DEF Attempt, Custody, AtWork
  <2>2. PICK applied, ok \in SUBSET KindsIn(o) :
             /\ InsertOutcome(o, applied, ok)
             /\ rows' = Stored(o, applied)
             /\ wk' = AfterAttempt(c, BatchOK(o, ok))
    BY <1>14, <2>1 DEF Attempt
  <2>3. /\ \A d \in Consumers : d # c => wk'[d] = wk[d]
        /\ wk'[c].batch = o
        /\ wk'[c].at = "ack" => BatchOK(o, ok)
    BY <1>14, <1>t, <2>1, <2>2 DEF Attempt, AfterAttempt, TypeOK
  <2>6. UNCHANGED <<handlerVars, claims, msg>>
    BY <1>14 DEF Attempt
  <2>4. BatchOK(o, ok) => \A s \in claimedIDs[o] : rows'[s] > 0 \/ Skipped(o, s)'
    BY <1>t, <2>2, <2>6, OKIsSafe DEF InsertOutcome, handlerVars
  <2>7. wk'[c].at = "ack" =>
          \A s \in Spans : claims[s] = o => rows'[s] > 0 \/ Skipped(o, s)'
    BY <2>3, <2>4 DEF KnownKeys
  <2>5. wk'[c].at = "ack" => \A s \in Spans : claims[s] = wk'[c].batch =>
          rows'[s] > 0 \/ Skipped(wk[c].batch, s)'
    BY <2>3, <2>7
  <2> QED
    BY <1>13, <2>3, <2>5, <2>6
<1>15. ASSUME NEW c \in Consumers, MoveToDLQ(c) PROVE KnownKeys' /\ ClaimsBacked'
  <2>1. PICK o \in Batches : o = wk[c].batch
    BY <1>15, <1>t DEF MoveToDLQ, Custody, AtWork
  <2>2. /\ wk'[c].batch = o /\ \A d \in Consumers : d # c => wk'[d] = wk[d]
        /\ wk'[c].at = "ack" => claimedIDs[o] = {}
    BY <1>15, <1>t, <2>1 DEF MoveToDLQ, TypeOK
  <2>3. UNCHANGED <<handlerVars, claims, msg>>
    BY <1>15 DEF MoveToDLQ
  <2>4. wk'[c].at = "ack" => \A s \in Spans : claims[s] # o
    BY <2>2 DEF KnownKeys
  <2> QED
    BY <1>13, <2>2, <2>3, <2>4
<1>16. ASSUME NEW c \in Consumers, ReleaseClaims(c) PROVE KnownKeys' /\ ClaimsBacked'
  <2>1. PICK o \in Batches : o = wk[c].batch
    BY <1>16, <1>t DEF ReleaseClaims, Custody, AtWork
  <2>2. /\ claims' = Released(o) /\ UNCHANGED <<handlerVars, msg>>
        /\ wk'[c].batch = o /\ \A d \in Consumers : d # c => wk'[d] = wk[d]
    BY <1>16, <1>t, <2>1 DEF ReleaseClaims, Orphaning, TypeOK
  <2>3. \A s \in Spans, b \in Batches : claims'[s] = b => claims[s] = b /\ b # o
    BY <2>2 DEF Released, KnownKeys
  <2> QED
    BY <1>9, <2>2, <2>3
<1>17. ASSUME NEW c \in Consumers, Ack(c) PROVE KnownKeys' /\ ClaimsBacked'
  <2>1. PICK o \in Batches : o = wk[c].batch /\ wk[c].at = "ack"
    BY <1>17, <1>t DEF Ack, Custody, AtWork
  <2>2. /\ claims' = claims /\ UNCHANGED handlerVars
        /\ \A b \in Batches : b # o => msg'[b] = msg[b]
        /\ wk'[c].at = "idle" /\ \A d \in Consumers : d # c => wk'[d] = wk[d]
    BY <1>17, <1>t, <2>1 DEF Ack, Idle, TypeOK
  <2>3. \A s \in Spans, b \in Batches : claims[s] = b => StaysBacked(s, b)
    BY <2>1, <2>2 DEF StaysBacked, KnownKeys, handlerVars
  <2> QED
    BY <1>5, <2>2, <2>3
<1>18. CASE UNCHANGED vars
  BY <1>9, <1>18 DEF vars, workerVars, handlerVars
<1>19. \A b \in Batches : ~ClaimError(b) /\ ~ClaimReplay(b) /\ ~ServerCrash(b)
  BY DEF ClaimError, ClaimReplay, ServerCrash, Orphaning
<1> QED
  BY <1>6, <1>7, <1>8, <1>10, <1>11, <1>12, <1>14, <1>15, <1>16, <1>17, <1>18, <1>19,
     <1>20, <1>21
  DEF Next, HandlerStep, WorkerStep

\* Where claims, releases and the server do not fail, a key that turns resends
\* away stands for a span that is stored or on its way, or that a worker
\* skipped beside one that is stored, whatever else happens.
THEOREM EveryClaimBacked ==
    ASSUME Env \cap Orphaning = {}
    PROVE  Spec => []ClaimsBacked
<1>1. Init => KnownKeys /\ ClaimsBacked
  BY IngestAssumption DEF Init, KnownKeys, ClaimsBacked, Idle
<1>2. JInv /\ KnownKeys /\ ClaimsBacked /\ [Next]_vars => KnownKeys' /\ ClaimsBacked'
  BY BackedStep
<1> QED
  BY <1>1, <1>2, JInvInductive, PTL DEF Spec

-----------------------------------------------------------------------------
(* Every ambiguous event costs at most one more row: rows of a span, the   *)
(* batches that may still insert it, the handlers that may still delete its*)
(* key, and the key itself while it is free, never add up to more than one *)
(* and the ambiguous events that hit the span.                             *)

\* Somebody may still insert span s for batch b, or release its key after the
\* dead letter queue took the batch.
Lends(b, s) ==
    /\ s \in claimedIDs[b]
    /\ \/ pc[b] = "publishing"
       \/ msg[b] = "queued"
       \/ \E c \in Consumers :
            \/ b \in buf[c]
            \/ wk[c].batch = b /\ wk[c].at \in {"process", "dlq", "release"}

Undoes(b, s) == s \in claimedIDs[b] /\ pc[b] = "rollback"

InHand(s)  == {b \in Batches : Lends(b, s)}
Undoing(s) == {b \in Batches : Undoes(b, s)}
Free(s)    == IF claims[s] = NoBatch THEN 1 ELSE 0

Balanced(s) ==
    /\ IsFiniteSet(InHand(s)) /\ IsFiniteSet(Undoing(s))
    /\ rows[s] + Cardinality(InHand(s)) + Cardinality(Undoing(s)) + Free(s)
         <= 1 + slips[s]

Counts(x, S) == IF x \in S THEN 1 ELSE 0

\* A set that gained one element at most counts one more at most.
LEMMA OneElement ==
    ASSUME NEW A, IsFiniteSet(A), NEW B, NEW x, \A y \in B : y # x => y \in A
    PROVE  /\ IsFiniteSet(B) /\ Cardinality(A) \in Nat /\ Cardinality(B) \in Nat
           /\ Cardinality(B) - Counts(x, B) <= Cardinality(A) - Counts(x, A)
<1>1. IsFiniteSet(A \cup {x}) /\ B \in SUBSET (A \cup {x})
  BY FS_AddElement
<1>2. IsFiniteSet(B)
  BY <1>1, FS_Subset
<1>3. /\ IsFiniteSet(A \ {x}) /\ IsFiniteSet(B \ {x})
      /\ Cardinality(A) \in Nat /\ Cardinality(B) \in Nat
      /\ Cardinality(A \ {x}) = Cardinality(A) - Counts(x, A)
      /\ Cardinality(B \ {x}) = Cardinality(B) - Counts(x, B)
  BY <1>2, FS_RemoveElement, FS_CardinalityType DEF Counts
<1>4. B \ {x} \in SUBSET (A \ {x})
  OBVIOUS
<1>5. Cardinality(B \ {x}) <= Cardinality(A \ {x})
  BY <1>3, <1>4, FS_Subset
<1> QED
  BY <1>2, <1>3, <1>5

\* One batch's part in the sum, and what does not belong to a batch.
Part(b, s) == Counts(b, InHand(s)) + Counts(b, Undoing(s))
Rest(s)    == rows[s] + Free(s) - slips[s]

LEMMA BalanceOfOne ==
    ASSUME TypeOK, TypeOK', NEW s \in Spans, Balanced(s), NEW o,
           \A b \in Batches : b # o => /\ Lends(b, s)' => Lends(b, s)
                                       /\ Undoes(b, s)' => Undoes(b, s),
           Part(o, s)' + Rest(s)' <= Part(o, s) + Rest(s)
    PROVE  Balanced(s)'
<1>1. /\ \A b \in InHand(s)' : b # o => b \in InHand(s)
      /\ \A b \in Undoing(s)' : b # o => b \in Undoing(s)
  BY DEF InHand, Undoing
<1>2. /\ rows[s] \in Nat /\ slips[s] \in Nat /\ rows'[s] \in Nat /\ slips'[s] \in Nat
      /\ Free(s) \in Nat /\ Free(s)' \in Nat
  BY DEF TypeOK, Spans, Free
<1> DEFINE H == InHand(s)
           I == InHand(s)'
           U == Undoing(s)
           V == Undoing(s)'
<1>3. IsFiniteSet(H) /\ IsFiniteSet(U)
  BY DEF Balanced
<1> HIDE DEF H, I, U, V
<1>4. /\ IsFiniteSet(I) /\ Cardinality(H) \in Nat /\ Cardinality(I) \in Nat
      /\ Cardinality(I) - Counts(o, I) <= Cardinality(H) - Counts(o, H)
  <2>1. \A b \in I : b # o => b \in H
    BY <1>1 DEF H, I
  <2> QED
    BY <1>3, <2>1, OneElement
<1>5. /\ IsFiniteSet(V) /\ Cardinality(U) \in Nat /\ Cardinality(V) \in Nat
      /\ Cardinality(V) - Counts(o, V) <= Cardinality(U) - Counts(o, U)
  <2>1. \A b \in V : b # o => b \in U
    BY <1>1 DEF U, V
  <2> QED
    BY <1>3, <2>1, OneElement
<1>6. Counts(o, I) + Counts(o, V) + (rows'[s] + Free(s)' - slips'[s])
        <= Counts(o, H) + Counts(o, U) + (rows[s] + Free(s) - slips[s])
  BY DEF Part, Rest, Counts, H, I, U, V
<1>7. rows[s] + Cardinality(H) + Cardinality(U) + Free(s) <= 1 + slips[s]
  BY DEF Balanced, H, U
<1>8. /\ Counts(o, I) \in 0 .. 1 /\ Counts(o, V) \in 0 .. 1
      /\ Counts(o, H) \in 0 .. 1 /\ Counts(o, U) \in 0 .. 1
  BY DEF Counts
<1>9. rows'[s] + Cardinality(I) + Cardinality(V) + Free(s)' <= 1 + slips'[s]
  BY <1>2, <1>4, <1>5, <1>6, <1>7, <1>8
<1> QED
  BY <1>4, <1>5, <1>9 DEF Balanced, I, V

\* A step after which nobody has a part he did not have before.
LEMMA BalanceQuiet ==
    ASSUME TypeOK, TypeOK', NEW s \in Spans, Balanced(s),
           \A b \in Batches : /\ Lends(b, s)' => Lends(b, s)
                              /\ Undoes(b, s)' => Undoes(b, s),
           Rest(s)' <= Rest(s)
    PROVE  Balanced(s)'
<1>1. NoBatch \notin InHand(s)' /\ NoBatch \notin Undoing(s)'
  BY IngestAssumption DEF InHand, Undoing
<1>2. Part(NoBatch, s)' <= Part(NoBatch, s) /\ Part(NoBatch, s)' = 0
  BY <1>1 DEF Part, Counts
<1>3. Part(NoBatch, s) \in Nat /\ Rest(s) \in Int /\ Rest(s)' \in Int
  BY DEF Part, Counts, Rest, Free, TypeOK, Spans
<1>4. Part(NoBatch, s)' + Rest(s)' <= Part(NoBatch, s) + Rest(s)
  BY <1>2, <1>3
<1> QED
  BY <1>4, BalanceOfOne

LEMMA PartOf ==
    ASSUME NEW b \in Batches, NEW s
    PROVE  /\ Part(b, s) = (IF Lends(b, s) THEN 1 ELSE 0)
                            + (IF Undoes(b, s) THEN 1 ELSE 0)
           /\ Part(b, s)' = (IF Lends(b, s)' THEN 1 ELSE 0)
                             + (IF Undoes(b, s)' THEN 1 ELSE 0)
BY DEF Part, Counts, InHand, Undoing

LEMMA BalanceHandlerStep ==
    ASSUME JInv, TypeOK', NEW s \in Spans, Balanced(s),
           NEW b \in Batches, Receive(b) \/ HandlerStep(b) \/ ServerCrash(b),
           ~PublishReplay(b)
    PROVE  Balanced(s)'
<1> USE IngestAssumption
<1>t. TypeOK /\ Custody /\ Whereabouts /\ Traces
  BY DEF JInv
<1>n. s \in Events /\ rows[s] \in Nat /\ slips[s] \in Nat
  BY <1>t DEF TypeOK, Spans
\* The other batches keep their places.
<1>1. \A o \in Batches : o # b => /\ Lends(o, s)' => Lends(o, s)
                                  /\ Undoes(o, s)' => Undoes(o, s)
  <2>1. wk' = wk /\ buf' = buf
    BY DEF Receive, HandlerStep, ClaimOK, ClaimError, ClaimReplay, Publish,
       PublishError, PublishLost, Rollback, RollbackReplay, ServerCrash, handlerVars, workerVars
  <2>2. \A o \in Batches : o # b =>
          pc'[o] = pc[o] /\ claimedIDs'[o] = claimedIDs[o] /\ msg'[o] = msg[o]
    BY <1>t DEF Receive, HandlerStep, ClaimOK, ClaimError, ClaimReplay, Publish,
       PublishError, PublishLost, Rollback, RollbackReplay, ServerCrash, handlerVars, TypeOK
  <2> QED
    BY <2>1, <2>2 DEF Lends, Undoes
\* It is enough that the batch gains no part that nothing pays for.
<1>2. ASSUME /\ Lends(b, s)' => Lends(b, s)
             /\ Undoes(b, s)' => Undoes(b, s),
             rows' = rows, slips' = slips, claims[s] # NoBatch => claims'[s] # NoBatch
      PROVE  Balanced(s)'
  <2>1. Rest(s)' <= Rest(s)
    BY <1>2, <1>n DEF Rest, Free
  <2>2. \A o \in Batches : /\ Lends(o, s)' => Lends(o, s)
                           /\ Undoes(o, s)' => Undoes(o, s)
    BY <1>1, <1>2
  <2> QED
    BY <1>t, <2>1, <2>2, BalanceQuiet
<1>3. ASSUME Part(b, s)' + Rest(s)' <= Part(b, s) + Rest(s)
      PROVE  Balanced(s)'
  BY <1>1, <1>3, <1>t, BalanceOfOne
<1>4. CASE Receive(b)
  <2>1. claimedIDs'[b] = {} /\ UNCHANGED <<rows, slips, claims>>
    BY <1>4, <1>t DEF Receive, Whereabouts
  <2>2. ~Lends(b, s)' /\ ~Undoes(b, s)'
    BY <2>1 DEF Lends, Undoes
  <2> QED
    BY <1>2, <2>1, <2>2
<1>5. CASE ClaimOK(b)
  <2>1. PICK won : /\ won = {r \in Spans : r \in Requested(b) /\ claims[r] = NoBatch}
                   /\ claimedIDs' = [claimedIDs EXCEPT ![b] = won]
                   /\ claims' = [r \in Spans |-> IF r \in won THEN b ELSE claims[r]]
                   /\ pc' = [pc EXCEPT ![b] = IF won = {} THEN "all_duplicates"
                                                          ELSE "publishing"]
                   /\ rows' = rows /\ slips' = slips
    BY <1>5 DEF ClaimOK
  <2>2. ~Lends(b, s) /\ ~Undoes(b, s) /\ ~Undoes(b, s)'
    <3>1. claimedIDs[b] = {}
      BY <1>5, <1>t DEF ClaimOK, Whereabouts
    <3>2. pc'[b] # "rollback"
      BY <1>t, <2>1 DEF TypeOK
    <3> QED
      BY <3>1, <3>2 DEF Lends, Undoes
  <2>3. CASE s \in won
    <3>1. Free(s) = 1 /\ Free(s)' = 0
      BY <2>1, <2>3 DEF Free
    <3>2. Part(b, s) = 0 /\ Part(b, s)' <= 1 /\ Part(b, s)' \in Nat
      BY <2>2, PartOf
    <3> QED
      BY <1>3, <1>n, <2>1, <3>1, <3>2 DEF Rest
  <2>4. CASE s \notin won
    <3>1. ~Lends(b, s)' /\ claims'[s] = claims[s]
      BY <1>t, <2>1, <2>4 DEF Lends, TypeOK
    <3> QED
      BY <1>2, <2>1, <2>2, <3>1
  <2> QED
    BY <2>3, <2>4
<1>6. CASE ClaimError(b) \/ ClaimReplay(b)
  <2>1. /\ claimedIDs'[b] = {} /\ UNCHANGED <<rows, slips>>
        /\ claims[s] # NoBatch => claims'[s] # NoBatch
    BY <1>6, <1>t DEF ClaimError, ClaimReplay, Whereabouts, handlerVars
  <2>2. ~Lends(b, s)' /\ ~Undoes(b, s)'
    BY <2>1 DEF Lends, Undoes
  <2> QED
    BY <1>2, <2>1, <2>2
<1>7. CASE Publish(b)
  <2>1. /\ Lends(b, s)' => Lends(b, s)
        /\ Undoes(b, s)' => Undoes(b, s)
    BY <1>7, <1>t DEF Publish, Lends, Undoes, TypeOK
  <2> QED
    BY <1>2, <1>7, <2>1 DEF Publish
\* Whoever publishes is in no queue yet.
<1>8. pc[b] = "publishing" => /\ Lends(b, s) <=> s \in claimedIDs[b]
                              /\ ~Undoes(b, s)
                              /\ msg[b] = "none"
                              /\ \A c \in Consumers : b \notin buf[c] /\ wk[c].batch # b
  BY <1>t DEF Lends, Undoes, Whereabouts
<1>9. CASE PublishError(b)
  <2>1. /\ pc'[b] \in {"failed", "rollback"} /\ claimedIDs' = claimedIDs
        /\ UNCHANGED <<msg, wk, buf, rows, slips, claims>>
    BY <1>9, <1>t DEF PublishError, AfterPublishError, TypeOK, workerVars
  <2>2. ~Lends(b, s)' /\ (Undoes(b, s)' => Lends(b, s)) /\ ~Undoes(b, s)
    BY <1>8, <1>9, <2>1 DEF Lends, Undoes, PublishError
  <2>3. Part(b, s)' <= Part(b, s) /\ Rest(s)' = Rest(s)
    BY <2>1, <2>2, PartOf DEF Rest, Free
  <2>4. Part(b, s) \in Nat /\ Part(b, s)' \in Nat /\ Rest(s) \in Int
    BY <1>n DEF Part, Counts, Rest, Free
  <2> QED
    BY <1>3, <2>3, <2>4
<1>10. CASE PublishLost(b)
  <2>1. /\ claimedIDs' = claimedIDs /\ UNCHANGED <<rows, claims>>
        /\ slips' = Slipped(EventsOf(b)) /\ pc[b] = "publishing"
    BY <1>10 DEF PublishLost
  <2>2. CASE s \in claimedIDs[b]
    <3>1. s \in EventsOf(b)
      BY <1>n, <2>2 DEF EventsOf, CopiesOf
    <3>2. slips'[s] = slips[s] + 1
      BY <1>n, <2>1, <3>1 DEF Slipped
    <3>3. Part(b, s) = 1
      BY <1>8, <2>1, <2>2, PartOf
    <3>4. Part(b, s)' \in 0 .. 2
      BY DEF Part, Counts
    <3> QED
      BY <1>3, <1>n, <2>1, <3>2, <3>3, <3>4 DEF Rest, Free
  <2>3. CASE s \notin claimedIDs[b]
    <3>1. ~Lends(b, s)' /\ ~Undoes(b, s)'
      BY <2>1, <2>3 DEF Lends, Undoes
    <3>2. slips'[s] >= slips[s] /\ slips'[s] \in Nat
      BY <1>n, <2>1 DEF Slipped
    <3>3. Rest(s)' <= Rest(s)
      BY <1>n, <2>1, <3>2 DEF Rest, Free
    <3>4. \A o \in Batches : /\ Lends(o, s)' => Lends(o, s)
                             /\ Undoes(o, s)' => Undoes(o, s)
      BY <1>1, <3>1
    <3> QED
      BY <1>t, <3>3, <3>4, BalanceQuiet
  <2> QED
    BY <2>2, <2>3
<1>11. CASE Rollback(b)
  <2>1. /\ claimedIDs' = claimedIDs /\ UNCHANGED <<rows, slips, msg, wk, buf>>
        /\ pc'[b] = "failed" /\ pc[b] = "rollback"
        /\ claims' = Released(b) \/ claims' = claims
    BY <1>11, <1>t DEF Rollback, TypeOK, workerVars
  <2>2. /\ Lends(b, s)' => Lends(b, s)
        /\ ~Undoes(b, s)'
        /\ s \in claimedIDs[b] => Undoes(b, s)
    BY <2>1 DEF Lends, Undoes
  <2>3. CASE s \in claimedIDs[b]
    <3>1. Part(b, s)' + 1 <= Part(b, s)
      BY <2>2, <2>3, PartOf
    <3>2. Free(s)' \in 0 .. 1 /\ Free(s) \in 0 .. 1
      BY DEF Free
    <3>3. Part(b, s) \in Nat /\ Part(b, s)' \in Nat
      BY DEF Part, Counts
    <3> QED
      BY <1>3, <1>n, <2>1, <3>1, <3>2, <3>3 DEF Rest
  <2>4. CASE s \notin claimedIDs[b]
    <3>1. claims'[s] = claims[s]
      BY <2>1, <2>4 DEF Released
    <3> QED
      BY <1>2, <2>1, <2>2, <3>1
  <2> QED
    BY <2>3, <2>4
<1>12. CASE ServerCrash(b)
  <2>1. /\ Lends(b, s)' => Lends(b, s)
        /\ Undoes(b, s)' => Undoes(b, s)
    BY <1>12, <1>t DEF ServerCrash, Lends, Undoes, TypeOK, workerVars
  <2> QED
    BY <1>2, <1>12, <2>1 DEF ServerCrash
<1>13. CASE RollbackReplay(b)
  <2>1. /\ UNCHANGED <<pc, claimedIDs, rows, msg, wk, buf>>
        /\ claims' = Released(b) /\ slips' = Slipped(claimedIDs[b])
    BY <1>13 DEF RollbackReplay, handlerVars, workerVars
  <2>2. \A o \in Batches : /\ Lends(o, s)' => Lends(o, s)
                           /\ Undoes(o, s)' => Undoes(o, s)
    BY <2>1 DEF Lends, Undoes
  <2>3. Rest(s)' <= Rest(s)
    BY <1>n, <2>1 DEF Rest, Free, Released, Slipped
  <2> QED
    BY <1>t, <2>2, <2>3, BalanceQuiet
<1> QED
  BY <1>4, <1>5, <1>6, <1>7, <1>9, <1>10, <1>11, <1>12, <1>13 DEF HandlerStep

\* A message the Redis client sends again is paid for by the lost reply.
LEMMA BalancePublishReplay ==
    ASSUME JInv, TypeOK', NEW s \in Spans, Balanced(s), NEW b \in Batches, PublishReplay(b)
    PROVE  Balanced(s)'
<1>t. TypeOK /\ Custody /\ Whereabouts
  BY DEF JInv
<1>n. s \in Events /\ rows[s] \in Nat /\ slips[s] \in Nat /\ KindOf[s] = "span"
  BY <1>t DEF TypeOK, Spans
<1>1. PICK d \in Batches :
        /\ pc[b] = "publishing" /\ pc[d] = "new"
        /\ pc' = [pc EXCEPT ![d] = "copy"]
        /\ claimedIDs' = [claimedIDs EXCEPT ![d] = claimedIDs[b]]
        /\ msg' = [msg EXCEPT ![d] = "queued"]
        /\ slips' = Slipped(EventsOf(b))
        /\ UNCHANGED <<claims, wk, buf, rows>>
  BY DEF PublishReplay, workerVars
<1>2. ASSUME NEW o \in Batches, o # d
      PROVE  Lends(o, s)' = Lends(o, s) /\ Undoes(o, s)' = Undoes(o, s)
  <2>1. pc'[o] = pc[o] /\ claimedIDs'[o] = claimedIDs[o] /\ msg'[o] = msg[o]
    BY <1>1, <1>2, <1>t DEF TypeOK
  <2> QED
    BY <1>1, <2>1 DEF Lends, Undoes
<1>3. ~Lends(d, s) /\ ~Undoes(d, s) /\ ~Undoes(d, s)' /\ (Lends(d, s)' => s \in claimedIDs[b])
  <2>1. claimedIDs[d] = {} /\ pc'[d] = "copy" /\ claimedIDs'[d] = claimedIDs[b]
    BY <1>1, <1>t DEF Whereabouts, TypeOK
  <2> QED
    BY <2>1 DEF Lends, Undoes
<1>4. Part(d, s) = 0 /\ Part(d, s)' = IF Lends(d, s)' THEN 1 ELSE 0
  BY <1>3, PartOf
<1>5. slips'[s] = IF s \in claimedIDs[b] THEN slips[s] + 1 ELSE slips[s]
  BY <1>1, <1>n DEF Slipped, EventsOf, CopiesOf
<1>6. Rest(s)' = IF s \in claimedIDs[b] THEN Rest(s) - 1 ELSE Rest(s)
  BY <1>1, <1>5, <1>n DEF Rest, Free
<1>7. Part(d, s)' + Rest(s)' <= Part(d, s) + Rest(s)
  <2>1. Rest(s) \in Int
    BY <1>n DEF Rest, Free
  <2> QED
    BY <1>3, <1>4, <1>6, <2>1
<1> QED
  BY <1>2, <1>7, <1>t, BalanceOfOne

\* An insert is paid for by the part of its batch, or by an ambiguous event.
LEMMA BalanceInsert ==
    ASSUME TypeOK, TypeOK', NEW s \in Spans, Balanced(s), NEW o \in Batches, NEW S,
           UNCHANGED <<pc, claimedIDs>>, claims'[s] = claims[s],
           \A b \in Batches : Lends(b, s)' => Lends(b, s),
           rows' = Stored(o, S), slips'[s] >= slips[s],
           "span" \in S /\ s \in claimedIDs[o] \ unreadable[o] =>
               slips'[s] = slips[s] + 1 \/ (Lends(o, s) /\ ~Lends(o, s)')
    PROVE  Balanced(s)'
<1>1. /\ s \in Events /\ KindOf[s] = "span"
      /\ rows[s] \in Nat /\ slips[s] \in Nat /\ slips'[s] \in Nat
  BY DEF TypeOK, Spans
<1>2. rows'[s] = IF "span" \in S /\ s \in claimedIDs[o] \ unreadable[o]
                 THEN rows[s] + 1 ELSE rows[s]
  BY <1>1 DEF Stored, OfKinds, Readable, EventsOf, CopiesOf
<1>3. \A b \in Batches : Undoes(b, s)' = Undoes(b, s)
  BY DEF Undoes
<1>4. CASE rows'[s] = rows[s] \/ slips'[s] = slips[s] + 1
  <2>1. Rest(s)' <= Rest(s)
    BY <1>1, <1>2, <1>4 DEF Rest, Free
  <2> QED
    BY <1>3, <2>1, BalanceQuiet
<1>5. CASE rows'[s] = rows[s] + 1 /\ Lends(o, s) /\ ~Lends(o, s)'
  <2>1. Part(o, s)' + 1 = Part(o, s) /\ Part(o, s)' \in Nat
    BY <1>3, <1>5, PartOf
  <2>2. Rest(s)' <= Rest(s) + 1 /\ Rest(s) \in Int /\ Rest(s)' \in Int
    BY <1>1, <1>5 DEF Rest, Free
  <2>3. Part(o, s)' + Rest(s)' <= Part(o, s) + Rest(s)
    BY <2>1, <2>2
  <2> QED
    BY <1>3, <2>3, BalanceOfOne
<1> QED
  BY <1>1, <1>2, <1>4, <1>5

LEMMA BalanceWorkerStep ==
    ASSUME JInv, TypeOK', NEW s \in Spans, Balanced(s),
           NEW c \in Consumers, WorkerStep(c) \/ WorkerCrash(c)
    PROVE  Balanced(s)'
<1> USE IngestAssumption
<1>t. TypeOK /\ Custody /\ Whereabouts /\ Traces
  BY DEF JInv
<1>n. s \in Events /\ rows[s] \in Nat /\ slips[s] \in Nat
  BY <1>t DEF TypeOK, Spans
<1>h. UNCHANGED <<pc, claimedIDs>>
  BY DEF WorkerStep, WorkerCrash, Read, Take, Attempt, MoveToDLQ, MoveToDLQError,
     ReleaseClaims, ReleaseReplay, Ack, handlerVars
<1>u. \A b \in Batches : Undoes(b, s)' = Undoes(b, s)
  BY <1>h DEF Undoes
\* A worker's step brings no batch back into anybody's hands.
<1>l. \A b \in Batches : Lends(b, s)' => Lends(b, s)
  <2>1. CASE Read(c)
    BY <1>h, <1>t, <2>1 DEF Read, Lends, TypeOK
  <2>2. CASE Take(c)
    BY <1>h, <1>t, <2>2 DEF Take, Lends, TypeOK
  <2>3. CASE Attempt(c)
    <3>1. /\ \A d \in Consumers : wk'[d].batch = wk[d].batch
          /\ \A d \in Consumers : d # c => wk'[d].at = wk[d].at
      BY <1>t, <2>3 DEF Attempt, AfterAttempt, TypeOK
    <3> QED
      BY <1>h, <2>3, <3>1 DEF Attempt, Lends
  <2>4. CASE MoveToDLQ(c)
    BY <1>h, <1>t, <2>4 DEF MoveToDLQ, Lends, TypeOK
  <2>5. CASE MoveToDLQError(c)
    BY <1>h, <1>t, <2>5 DEF MoveToDLQError, Idle, Lends, TypeOK
  <2>8. CASE Ack(c)
    <3>1. /\ wk'[c].at = "idle" /\ \A d \in Consumers : d # c => wk'[d] = wk[d]
          /\ \A b \in Batches : msg'[b] = "queued" => msg[b] = "queued"
          /\ buf' = buf
      BY <1>t, <2>8 DEF Ack, Idle, TypeOK
    <3> QED
      BY <1>h, <3>1 DEF Lends
  <2>6. CASE ReleaseClaims(c)
    BY <1>h, <1>t, <2>6 DEF ReleaseClaims, Lends, TypeOK
  <2>7. CASE WorkerCrash(c)
    BY <1>h, <1>t, <2>7 DEF WorkerCrash, Idle, Lends, TypeOK
  <2>9. CASE ReleaseReplay(c)
    BY <1>h, <2>9 DEF ReleaseReplay, Lends, workerVars
  <2> QED
    BY <2>1, <2>2, <2>3, <2>4, <2>5, <2>6, <2>7, <2>8, <2>9 DEF WorkerStep
\* The batch a worker has is nowhere else.
<1>w. ASSUME NEW o \in Batches, o = wk[c].batch,
             wk'[c].at \notin {"process", "dlq", "release"} \/ wk'[c].batch = NoBatch,
             \A d \in Consumers : d # c => wk'[d] = wk[d],
             msg'[o] # "queued", \A d \in Consumers : buf'[d] \subseteq buf[d]
      PROVE  ~Lends(o, s)'
  <2>1. /\ msg[o] = "pending" /\ pc[o] # "publishing"
        /\ \A d \in Consumers : o \notin buf[d] /\ (d # c => wk[d].batch # o)
    BY <1>t, <1>w DEF Whereabouts
  <2> QED
    BY <1>h, <1>w, <2>1 DEF Lends
<1>1. ASSUME UNCHANGED <<rows, slips>>, claims'[s] = claims[s] PROVE Balanced(s)'
  <2>1. Rest(s)' <= Rest(s)
    BY <1>1, <1>n DEF Rest, Free
  <2> QED
    BY <1>l, <1>t, <1>u, <2>1, BalanceQuiet
<1>2. CASE Read(c) \/ Take(c) \/ MoveToDLQ(c) \/ MoveToDLQError(c) \/ Ack(c)
  BY <1>1, <1>2 DEF Read, Take, MoveToDLQ, MoveToDLQError, Ack
<1>3. CASE Attempt(c)
  <2>1. PICK o \in Batches : o = wk[c].batch
    BY <1>3, <1>t DEF Attempt, Custody, AtWork
  <2>2. PICK applied, ok \in SUBSET KindsIn(o) :
             /\ InsertOutcome(o, applied, ok)
             /\ rows' = Stored(o, applied)
             /\ slips' = Slipped(OfKinds(o, applied \ ok))
             /\ wk' = AfterAttempt(c, BatchOK(o, ok))
    BY <1>3, <2>1 DEF Attempt
  <2>3. slips'[s] >= slips[s] /\ claims' = claims
    BY <1>3, <1>n, <2>2 DEF Attempt, Slipped
  <2>4. ASSUME "span" \in applied, s \in claimedIDs[o] \ unreadable[o]
        PROVE  slips'[s] = slips[s] + 1 \/ (Lends(o, s) /\ ~Lends(o, s)')
    <3>1. CASE "span" \notin ok
      <4>1. s \in OfKinds(o, applied \ ok)
        BY <1>n, <2>4, <3>1 DEF OfKinds, Readable, EventsOf, CopiesOf, Spans
      <4> QED
        BY <1>n, <2>2, <4>1 DEF Slipped
    <3>2. CASE "span" \in ok
      <4>1. wk' = [wk EXCEPT ![c].at = "ack"]
        BY <2>2, <3>2 DEF AfterAttempt, BatchOK
      <4>2. /\ wk'[c].at = "ack" /\ \A d \in Consumers : d # c => wk'[d] = wk[d]
            /\ msg' = msg /\ buf' = buf
        BY <1>3, <1>t, <4>1 DEF TypeOK, Attempt
      <4>3. msg[o] = "pending" /\ Lends(o, s)
        BY <1>3, <1>t, <2>1, <2>4 DEF Whereabouts, Lends, Attempt
      <4>4. ~Lends(o, s)'
        BY <1>w, <2>1, <4>2, <4>3
      <4> QED
        BY <4>3, <4>4
    <3> QED
      BY <3>1, <3>2
  <2> QED
    BY <1>h, <1>l, <1>t, <2>2, <2>3, <2>4, BalanceInsert
<1>4. CASE ReleaseClaims(c)
  <2>1. PICK o \in Batches : o = wk[c].batch
    BY <1>4, <1>t DEF ReleaseClaims, Custody, AtWork
  <2>2. /\ UNCHANGED <<rows, slips, msg, buf>>
        /\ claims' = Released(o) \/ claims' = claims
        /\ wk'[c].at = "ack" /\ \A d \in Consumers : d # c => wk'[d] = wk[d]
    BY <1>4, <1>t, <2>1 DEF ReleaseClaims, TypeOK
  <2>3. CASE s \in claimedIDs[o]
    <3>1. msg[o] = "pending" /\ Lends(o, s)
      BY <1>4, <1>t, <2>1, <2>3 DEF Whereabouts, Lends, ReleaseClaims
    <3>2. ~Lends(o, s)'
      BY <1>w, <2>1, <2>2, <3>1
    <3>3. Part(o, s)' + 1 = Part(o, s) /\ Part(o, s)' \in Nat
      BY <1>u, <3>1, <3>2, PartOf
    <3>4. Free(s)' \in 0 .. 1 /\ Free(s) \in 0 .. 1
      BY DEF Free
    <3>5. Part(o, s)' + Rest(s)' <= Part(o, s) + Rest(s)
      BY <1>n, <2>2, <3>3, <3>4 DEF Rest
    <3> QED
      BY <1>l, <1>t, <1>u, <3>5, BalanceOfOne
  <2>4. CASE s \notin claimedIDs[o]
    BY <1>1, <2>2, <2>4 DEF Released
  <2> QED
    BY <2>3, <2>4
<1>6. CASE ReleaseReplay(c)
  <2>1. PICK o : /\ claims' = Released(o) /\ slips' = Slipped(claimedIDs[o])
                 /\ rows' = rows
    BY <1>6 DEF ReleaseReplay
  <2>2. Rest(s)' <= Rest(s)
    BY <1>n, <2>1 DEF Rest, Free, Released, Slipped
  <2> QED
    BY <1>l, <1>t, <1>u, <2>2, BalanceQuiet
<1>5. CASE WorkerCrash(c)
  <2>1. UNCHANGED <<claims, slips, msg>>
    BY <1>5 DEF WorkerCrash
  <2>2. CASE rows' = rows
    BY <1>1, <2>1, <2>2
  <2>3. CASE wk[c].at = "process"
    <3>1. PICK o \in Batches : o = wk[c].batch
      BY <1>t, <2>3 DEF Custody, AtWork
    <3>2. PICK applied : rows' = Stored(o, applied)
      BY <1>5, <2>3, <3>1 DEF WorkerCrash
    <3>3. /\ wk'[c].at = "idle" /\ \A d \in Consumers : d # c => wk'[d] = wk[d]
          /\ \A d \in Consumers : buf'[d] \subseteq buf[d]
      BY <1>5, <1>t DEF WorkerCrash, Idle, TypeOK
    <3>4. msg[o] = "pending" /\ (s \in claimedIDs[o] => Lends(o, s))
      BY <1>t, <2>3, <3>1 DEF Whereabouts, Lends
    <3>5. ~Lends(o, s)'
      BY <1>w, <2>1, <3>1, <3>3, <3>4
    <3> QED
      BY <1>h, <1>l, <1>n, <1>t, <2>1, <3>2, <3>4, <3>5, BalanceInsert
  <2> QED
    BY <1>5, <2>2, <2>3 DEF WorkerCrash
<1> QED
  BY <1>2, <1>3, <1>4, <1>5, <1>6 DEF WorkerStep

LEMMA BalanceStep ==
    ASSUME JInv, [Next]_vars, NEW s \in Spans, Balanced(s)
    PROVE  Balanced(s)'
<1>t. TypeOK /\ TypeOK'
  BY TypeStep DEF JInv
<1>n. s \in Events /\ KindOf[s] = "span" /\ rows[s] \in Nat /\ slips[s] \in Nat
  BY <1>t DEF TypeOK, Spans
<1>1. ASSUME NEW b \in Batches, RetryDLQMessage(b) PROVE Balanced(s)'
  <2>1. PICK applied : /\ rows' = Stored(b, applied)
                       /\ slips' = Slipped(OfKinds(b, applied))
    BY <1>1 DEF RetryDLQMessage
  <2>2. UNCHANGED <<pc, claimedIDs, claims, msg, wk, buf>>
    BY <1>1 DEF RetryDLQMessage, handlerVars
  <2>3. \A o \in Batches : Lends(o, s)' = Lends(o, s)
    BY <2>2 DEF Lends
  <2>4. slips'[s] >= slips[s]
    BY <1>n, <2>1 DEF Slipped
  <2>5. "span" \in applied /\ s \in claimedIDs[b] \ unreadable[b] => slips'[s] = slips[s] + 1
    BY <1>n, <2>1 DEF Slipped, OfKinds, Readable, EventsOf, CopiesOf
  <2> QED
    BY <1>t, <2>1, <2>2, <2>3, <2>4, <2>5, BalanceInsert
<1>2. ASSUME UNCHANGED <<pc, claimedIDs, msg, wk, buf, rows>>,
             Free(s)' - slips'[s] <= Free(s) - slips[s]
      PROVE  Balanced(s)'
  <2>1. \A b \in Batches : Lends(b, s)' = Lends(b, s) /\ Undoes(b, s)' = Undoes(b, s)
    BY <1>2 DEF Lends, Undoes
  <2>2. slips'[s] \in Nat /\ Free(s) \in 0 .. 1 /\ Free(s)' \in 0 .. 1
    BY <1>t DEF TypeOK, Spans, Free
  <2>3. Rest(s)' <= Rest(s)
    BY <1>2, <1>n, <2>2 DEF Rest
  <2> QED
    BY <1>t, <2>1, <2>3, BalanceQuiet
<1>3. ASSUME NEW r \in Spans, ClaimExpires(r) PROVE Balanced(s)'
  <2>1. UNCHANGED <<pc, claimedIDs, msg, wk, buf, rows>>
    BY <1>3 DEF ClaimExpires, handlerVars, workerVars
  <2>2. /\ claims' = [claims EXCEPT ![r] = NoBatch] /\ claims[r] # NoBatch
        /\ slips'[s] = IF s = r THEN slips[s] + 1 ELSE slips[s]
    BY <1>3, <1>n DEF ClaimExpires, Slipped
  <2>3. Free(s)' - slips'[s] <= Free(s) - slips[s]
    BY <1>n, <1>t, <2>2 DEF Free, TypeOK
  <2> QED
    BY <1>2, <2>1, <2>3
<1>4. CASE UNCHANGED vars
  <2>1. Free(s)' - slips'[s] <= Free(s) - slips[s]
    BY <1>4, <1>n DEF Free, vars
  <2> QED
    BY <1>2, <1>4, <2>1 DEF vars, handlerVars, workerVars
<1> QED
  BY <1>1, <1>3, <1>4, <1>t, BalanceHandlerStep, BalancePublishReplay, BalanceWorkerStep
  DEF Next, HandlerStep

\* Rows of a span never outnumber the ambiguous events that hit it by more than
\* one: in every environment, with any number of requests and workers.
THEOREM DuplicatesBounded == Spec => []DuplicatesAccounted
<1>1. Init => \A s \in Spans : Balanced(s)
  <2> SUFFICES ASSUME Init, NEW s \in Spans PROVE Balanced(s)
    OBVIOUS
  <2>1. InHand(s) = {} /\ Undoing(s) = {}
    BY DEF Init, InHand, Undoing, Lends, Undoes
  <2>2. rows[s] = 0 /\ slips[s] = 0 /\ Free(s) = 1
    BY DEF Init, Free, Spans
  <2> QED
    BY <2>1, <2>2, FS_EmptySet DEF Balanced
<1>2. JInv /\ (\A s \in Spans : Balanced(s)) /\ [Next]_vars => (\A s \in Spans : Balanced(s))'
  BY BalanceStep
<1>3. JInv /\ (\A s \in Spans : Balanced(s)) => DuplicatesAccounted
  <2> SUFFICES ASSUME JInv, NEW s \in Spans, Balanced(s) PROVE rows[s] <= 1 + slips[s]
    BY DEF DuplicatesAccounted
  <2>1. rows[s] \in Nat /\ slips[s] \in Nat /\ Free(s) \in Nat
    BY DEF JInv, TypeOK, Spans, Free
  <2>2. Cardinality(InHand(s)) \in Nat /\ Cardinality(Undoing(s)) \in Nat
    BY FS_CardinalityType DEF Balanced
  <2> QED
    BY <2>1, <2>2 DEF Balanced
<1> QED
  BY <1>1, <1>2, <1>3, JInvInductive, PTL DEF Spec

-----------------------------------------------------------------------------
(* No span is stored twice, when no ambiguous event happens.  The argument:*)
(* until a batch is finished with a span (Holds), the span's key is its own*)
(* and the span is not stored; so two batches never hold the same span, and*)
(* a batch that inserts or releases a span disturbs no other.  The rest of *)
(* the invariant says where a message can be: with its handler, in the     *)
(* stream, or with one worker.                                             *)

\* A publish that failed for certain left nothing in the stream.
LEMMA PlacesStep ==
    ASSUME IInv, [Next]_vars, Env \cap Ambiguous = {}
    PROVE  Places'
<1>1. Whereabouts'
  BY WhereaboutsStep, Zenon DEF IInv, Places, Whereabouts
<1>2. \A b \in Batches : pc'[b] = "rollback" => msg'[b] = "none"
  <2> USE DEF IInv, TypeOK, Custody, AtWork, Places
  <2>1. ASSUME NEW b \in Batches, Receive(b) \/ HandlerStep(b) \/ ServerCrash(b)
        PROVE  \A o \in Batches : pc'[o] = "rollback" => msg'[o] = "none"
    <3>1. ~PublishLost(b) /\ ~PublishReplay(b) /\ ~RollbackReplay(b)
      BY DEF PublishLost, PublishReplay, RollbackReplay, Ambiguous
    <3> QED
      BY <2>1, <3>1 DEF Receive, HandlerStep, ClaimOK, ClaimError, ClaimReplay,
         Publish, PublishError, AfterPublishError, Rollback, ServerCrash, handlerVars
  <2>2. ASSUME NEW c \in Consumers, WorkerStep(c) \/ WorkerCrash(c)
        PROVE  \A o \in Batches : pc'[o] = "rollback" => msg'[o] = "none"
    BY <2>2 DEF WorkerStep, WorkerCrash, Read, Take, Attempt, MoveToDLQ,
       MoveToDLQError, ReleaseClaims, ReleaseReplay, Ack, handlerVars
  <2>3. \A b \in Batches, s \in Spans : ~RetryDLQMessage(b) /\ ~ClaimExpires(s)
    BY DEF RetryDLQMessage, ClaimExpires, Ambiguous
  <2>4. CASE UNCHANGED vars
    BY <2>4 DEF vars
  <2> QED
    BY <2>1, <2>2, <2>3, <2>4 DEF Next, RetryDLQMessage, ClaimExpires, Ambiguous
<1> QED
  BY <1>1, <1>2, Zenon DEF Places, Whereabouts

\* The span part of the invariant, as one formula per span.
SpanInv(s) ==
    /\ \A b \in Batches : Holds(b, s) => claims[s] = b /\ rows[s] = 0
    /\ rows[s] > 0 => claims[s] # NoBatch
    /\ rows[s] <= 1

\* A step that inserts nothing and touches no key, after which nobody holds a
\* span he did not hold before.
LEMMA QuietStep ==
    ASSUME IInv, NEW s \in Spans,
           rows'[s] = rows[s], claims'[s] = claims[s],
           \A b \in Batches : Holds(b, s)' => Holds(b, s)
    PROVE  SpanInv(s)'
BY DEF IInv, SpanInv, HoldersOwnClaims, StoredIsClaimed, StoredOnce

\* Deleting the keys of a batch that holds them and is then done with them.
LEMMA ReleaseStep ==
    ASSUME IInv, NEW s \in Spans, NEW o \in Batches,
           s \in claimedIDs[o] => Holds(o, s),
           s \in claimedIDs[o] => ~Holds(o, s)',
           rows'[s] = rows[s],
           claims'[s] = IF s \in claimedIDs[o] THEN NoBatch ELSE claims[s],
           \A b \in Batches : Holds(b, s)' => Holds(b, s)
    PROVE  SpanInv(s)'
BY DEF IInv, SpanInv, HoldersOwnClaims, StoredIsClaimed, StoredOnce

\* Inserting the spans of a batch a worker holds, or none of them; the worker
\* is done with the batch when its spans are inserted.
LEMMA InsertStep ==
    ASSUME IInv, NEW s \in Spans, NEW o \in Batches, NEW S,
           s \in claimedIDs[o] => Holds(o, s),
           rows' = Stored(o, S),
           "span" \in S => ~Holds(o, s)',
           claims'[s] = claims[s],
           \A b \in Batches : Holds(b, s)' => Holds(b, s)
    PROVE  SpanInv(s)'
<1> USE IngestAssumption
<1>1. s \in Events /\ KindOf[s] = "span"
  BY DEF Spans
<1>2. rows'[s] = IF "span" \in S /\ s \in claimedIDs[o] \ unreadable[o]
                 THEN rows[s] + 1 ELSE rows[s]
  BY <1>1 DEF Stored, OfKinds, Readable, EventsOf, CopiesOf, IInv, TypeOK
<1>3. rows[s] \in Nat
  BY <1>1 DEF IInv, TypeOK
<1>4. CASE "span" \in S /\ s \in claimedIDs[o] \ unreadable[o]
  <2>1. claims[s] = o /\ rows[s] = 0
    BY <1>4 DEF IInv, HoldersOwnClaims
  <2>2. \A b \in Batches : ~Holds(b, s)'
    BY <1>4, <2>1 DEF IInv, HoldersOwnClaims
  <2>3. QED
    BY <1>2, <1>4, <2>1, <2>2 DEF SpanInv
<1>5. CASE ~("span" \in S /\ s \in claimedIDs[o] \ unreadable[o])
  BY <1>2, <1>5, QuietStep
<1>6. QED
  BY <1>4, <1>5

LEMMA SpanStep ==
    ASSUME IInv, Places', [Next]_vars, Env \cap Ambiguous = {},
           NEW s \in Spans
    PROVE  SpanInv(s)'
<1> USE IngestAssumption DEF Ambiguous
<1>t. TypeOK /\ Custody /\ Places
  BY DEF IInv
<1>1. ASSUME NEW b \in Batches, Receive(b) PROVE SpanInv(s)'
  <2>1. \A o \in Batches : Holds(o, s)' => Holds(o, s)
    BY <1>1, <1>t DEF Receive, Holds, Places, TypeOK, workerVars
  <2>2. QED
    BY <1>1, <2>1, QuietStep DEF Receive
<1>2. ASSUME NEW b \in Batches, HandlerStep(b) PROVE SpanInv(s)'
  <2>1. ~PublishLost(b) /\ ~PublishReplay(b) /\ ~RollbackReplay(b)
    BY DEF PublishLost, PublishReplay, RollbackReplay
  <2>2. CASE ClaimOK(b)
    <3> DEFINE won == {r \in Spans : r \in Requested(b) /\ claims[r] = NoBatch}
    <3>1. ASSUME NEW o \in Batches, o # b PROVE Holds(o, s)' => Holds(o, s)
      BY <2>2, <3>1, <1>t DEF ClaimOK, Holds, TypeOK, workerVars
    <3>2. Holds(b, s)' => s \in won
      BY <2>2, <1>t DEF ClaimOK, Holds, TypeOK
    <3>3. CASE s \in won
      <4>1. rows[s] = 0
        BY <3>3 DEF IInv, StoredIsClaimed, TypeOK, Spans
      <4>2. \A o \in Batches : o # b => ~Holds(o, s)
        BY <3>3 DEF IInv, HoldersOwnClaims
      <4>3. claims'[s] = b /\ rows'[s] = rows[s]
        BY <2>2, <3>3 DEF ClaimOK
      <4>4. QED
        BY <3>1, <4>1, <4>2, <4>3 DEF SpanInv
    <3>4. CASE s \notin won
      <4>1. claims'[s] = claims[s] /\ rows'[s] = rows[s]
        BY <2>2, <3>4 DEF ClaimOK
      <4>2. QED
        BY <3>1, <3>2, <3>4, <4>1, QuietStep
    <3>5. QED
      BY <3>3, <3>4
  <2>3. ASSUME ClaimError(b) \/ ClaimReplay(b) PROVE SpanInv(s)'
    <3>1. \A o \in Batches : ~Holds(b, s)' /\ (Holds(o, s)' => Holds(o, s))
      BY <2>3, <1>t DEF ClaimError, ClaimReplay, Holds, Places, TypeOK, handlerVars, workerVars
    <3>2. rows'[s] = rows[s]
      BY <2>3 DEF ClaimError, ClaimReplay
    <3>3. claims'[s] = claims[s] \/ (claims[s] = NoBatch /\ claims'[s] = b)
      BY <2>3 DEF ClaimError, ClaimReplay
    <3>4. QED
      BY <3>1, <3>2, <3>3, <1>t
      DEF IInv, SpanInv, HoldersOwnClaims, StoredIsClaimed, StoredOnce
  <2>4. CASE Publish(b)
    <3>1. \A o \in Batches : Holds(o, s)' => Holds(o, s)
      BY <2>4, <1>t DEF Publish, Holds, TypeOK, workerVars
    <3>2. QED
      BY <2>4, <3>1, QuietStep DEF Publish
  <2>5. CASE PublishError(b)
    <3>1. \A o \in Batches : Holds(o, s)' => Holds(o, s)
      BY <2>5, <1>t DEF PublishError, AfterPublishError, Holds, TypeOK, workerVars
    <3>2. QED
      BY <2>5, <3>1, QuietStep DEF PublishError
  <2>6. CASE Rollback(b)
    <3>1. \A o \in Batches : Holds(o, s)' => Holds(o, s)
      BY <2>6, <1>t DEF Rollback, Holds, TypeOK, workerVars
    <3>2. s \in claimedIDs[b] => Holds(b, s)
      BY <2>6 DEF Rollback, Holds
    <3>3. ~Holds(b, s)'
      BY <2>6, <1>t DEF Rollback, Holds, Places, TypeOK, Custody, AtWork, workerVars
    <3>4. rows'[s] = rows[s]
      BY <2>6 DEF Rollback
    <3>5. CASE claims' = Released(b)
      BY <3>1, <3>2, <3>3, <3>4, <3>5, ReleaseStep DEF Released
    <3>6. CASE UNCHANGED claims
      BY <3>1, <3>4, <3>6, QuietStep
    <3>7. QED
      BY <2>6, <3>5, <3>6 DEF Rollback
  <2>7. QED
    BY <1>2, <2>1, <2>2, <2>3, <2>4, <2>5, <2>6 DEF HandlerStep
<1>3. ASSUME NEW b \in Batches, ServerCrash(b) PROVE SpanInv(s)'
  <2>1. \A o \in Batches : Holds(o, s)' => Holds(o, s)
    BY <1>3, <1>t DEF ServerCrash, Holds, TypeOK, workerVars
  <2>2. QED
    BY <1>3, <2>1, QuietStep DEF ServerCrash
<1>4. ASSUME NEW b \in Batches PROVE ~RetryDLQMessage(b)
  BY DEF RetryDLQMessage
<1>5. ASSUME NEW r \in Spans PROVE ~ClaimExpires(r)
  BY DEF ClaimExpires
<1>6. ASSUME NEW c \in Consumers, WorkerStep(c) PROVE SpanInv(s)'
  <2>1. CASE Read(c)
    <3>1. \A o \in Batches : Holds(o, s)' => Holds(o, s)
      BY <2>1, <1>t DEF Read, Holds, TypeOK, handlerVars
    <3>2. QED
      BY <2>1, <3>1, QuietStep DEF Read
  <2>2. CASE Take(c)
    <3>1. \A o \in Batches : Holds(o, s)' => Holds(o, s)
      BY <2>2, <1>t DEF Take, Holds, TypeOK, handlerVars
    <3>2. QED
      BY <2>2, <3>1, QuietStep DEF Take
  <2>3. CASE Attempt(c)
    <3>0. PICK o \in Batches : o = wk[c].batch
      BY <2>3, <1>t DEF Attempt, Custody, AtWork
    <3>1. s \in claimedIDs[o] => Holds(o, s)
      BY <2>3, <3>0 DEF Attempt, Holds
    <3>2. PICK applied, ok \in SUBSET KindsIn(o) :
               /\ InsertOutcome(o, applied, ok)
               /\ rows' = Stored(o, applied)
               /\ BatchOK(o, ok) => wk' = [wk EXCEPT ![c].at = "ack"]
      BY <2>3, <3>0, Zenon DEF Attempt, AfterAttempt
    <3>3. applied = ok
      BY <3>2 DEF InsertOutcome
    <3>4. /\ \A d \in Consumers : wk'[d].batch = wk[d].batch
          /\ \A d \in Consumers : d # c => wk'[d].at = wk[d].at
      BY <2>3, <1>t DEF Attempt, AfterAttempt, TypeOK
    <3>5. \A q \in Batches : Holds(q, s)' => Holds(q, s)
      BY <2>3, <3>4, <1>t DEF Attempt, Holds, handlerVars
    <3>6. "span" \in applied => ~Holds(o, s)'
      <4>1. SUFFICES ASSUME "span" \in applied PROVE ~Holds(o, s)'
        OBVIOUS
      <4>2. wk' = [wk EXCEPT ![c].at = "ack"]
        BY <3>2, <3>3, <4>1 DEF BatchOK
      <4>3. wk'[c].at = "ack"
        BY <4>2, <1>t DEF TypeOK
      <4>4. /\ msg[o] = "pending" /\ pc[o] \notin {"publishing", "rollback"}
            /\ \A d \in Consumers : o \notin buf[d] /\ (d # c => wk[d].batch # o)
        BY <3>0, <1>t DEF Places
      <4>5. QED
        BY <2>3, <3>4, <4>3, <4>4 DEF Holds, Attempt, handlerVars
    <3>7. claims'[s] = claims[s]
      BY <2>3 DEF Attempt
    <3>8. QED
      BY <3>1, <3>2, <3>5, <3>6, <3>7, InsertStep
  <2>4. CASE MoveToDLQ(c)
    <3>1. \A o \in Batches : Holds(o, s)' => Holds(o, s)
      BY <2>4, <1>t DEF MoveToDLQ, Holds, TypeOK, handlerVars
    <3>2. QED
      BY <2>4, <3>1, QuietStep DEF MoveToDLQ
  <2>5. CASE MoveToDLQError(c)
    <3>1. \A o \in Batches : Holds(o, s)' => Holds(o, s)
      BY <2>5, <1>t DEF MoveToDLQError, Idle, Holds, TypeOK, handlerVars
    <3>2. QED
      BY <2>5, <3>1, QuietStep DEF MoveToDLQError
  <2>6. CASE ReleaseClaims(c)
    <3>0. PICK o \in Batches : o = wk[c].batch
      BY <2>6, <1>t DEF ReleaseClaims, Custody, AtWork
    <3>1. s \in claimedIDs[o] => Holds(o, s)
      BY <2>6, <3>0 DEF ReleaseClaims, Holds
    <3>2. \A q \in Batches : Holds(q, s)' => Holds(q, s)
      BY <2>6, <1>t DEF ReleaseClaims, Holds, TypeOK, handlerVars
    <3>3. ~Holds(o, s)'
      <4>1. /\ msg[o] = "pending" /\ pc[o] \notin {"publishing", "rollback"}
            /\ \A d \in Consumers : o \notin buf[d] /\ (d # c => wk[d].batch # o)
        BY <3>0, <1>t DEF Places
      <4>2. wk'[c].at = "ack" /\ \A d \in Consumers : d # c => wk'[d] = wk[d]
        BY <2>6, <1>t DEF ReleaseClaims, TypeOK
      <4>3. QED
        BY <2>6, <4>1, <4>2 DEF Holds, ReleaseClaims, handlerVars
    <3>4. rows'[s] = rows[s]
      BY <2>6 DEF ReleaseClaims
    <3>5. CASE claims' = Released(o)
      <4>1. claims'[s] = IF s \in claimedIDs[o] THEN NoBatch ELSE claims[s]
        BY <3>5 DEF Released
      <4>2. QED
        BY <3>1, <3>2, <3>3, <3>4, <4>1, ReleaseStep
    <3>6. CASE UNCHANGED claims
      BY <3>2, <3>4, <3>6, QuietStep
    <3>7. QED
      BY <2>6, <3>0, <3>5, <3>6 DEF ReleaseClaims
  <2>7. CASE Ack(c)
    <3>1. \A o \in Batches : Holds(o, s)' => Holds(o, s)
      BY <2>7, <1>t DEF Ack, Idle, Holds, TypeOK, handlerVars
    <3>2. QED
      BY <2>7, <3>1, QuietStep DEF Ack
  <2>9. ~ReleaseReplay(c)
    BY DEF ReleaseReplay
  <2>8. QED
    BY <1>6, <2>1, <2>2, <2>3, <2>4, <2>5, <2>6, <2>7, <2>9 DEF WorkerStep
<1>7. ASSUME NEW c \in Consumers, WorkerCrash(c) PROVE SpanInv(s)'
  <2>1. \A o \in Batches : Holds(o, s)' => Holds(o, s)
    BY <1>7, <1>t DEF WorkerCrash, Idle, Holds, TypeOK, handlerVars
  <2>2. claims'[s] = claims[s]
    BY <1>7 DEF WorkerCrash
  <2>3. CASE UNCHANGED rows
    BY <2>1, <2>2, <2>3, QuietStep
  <2>4. CASE wk[c].at = "process"
    <3>0. PICK o \in Batches : o = wk[c].batch
      BY <2>4, <1>t DEF Custody, AtWork
    <3>1. s \in claimedIDs[o] => Holds(o, s)
      BY <2>4, <3>0 DEF Holds
    <3>2. PICK applied : rows' = Stored(o, applied)
      BY <1>7, <2>4, <3>0 DEF WorkerCrash
    <3>3. ~Holds(o, s)'
      <4>1. /\ msg[o] = "pending" /\ pc[o] \notin {"publishing", "rollback"}
            /\ \A d \in Consumers : o \notin buf[d] /\ (d # c => wk[d].batch # o)
        BY <3>0, <1>t DEF Places
      <4>2. wk'[c].batch = NoBatch /\ \A d \in Consumers : d # c => wk'[d] = wk[d]
        BY <1>7, <1>t DEF WorkerCrash, Idle, TypeOK
      <4>3. \A d \in Consumers : o \notin buf'[d]
        BY <1>7, <4>1, <1>t DEF WorkerCrash, TypeOK
      <4>4. QED
        BY IngestAssumption, <1>7, <4>1, <4>2, <4>3 DEF Holds, WorkerCrash, handlerVars
    <3>4. QED
      BY <2>1, <2>2, <3>1, <3>2, <3>3, InsertStep
  <2>5. QED
    BY <1>7, <2>3, <2>4 DEF WorkerCrash
<1>8. CASE UNCHANGED vars
  <2>1. \A o \in Batches : Holds(o, s)' => Holds(o, s)
    BY <1>8 DEF Holds, vars
  <2>2. QED
    BY <1>8, <2>1, QuietStep DEF vars
<1>9. QED
  BY <1>1, <1>2, <1>3, <1>4, <1>5, <1>6, <1>7, <1>8 DEF Next

THEOREM InductiveInvariant ==
    ASSUME Env \cap Ambiguous = {}
    PROVE  Spec => []IInv
<1>1. Init => IInv
  <2> SUFFICES ASSUME Init PROVE IInv
    OBVIOUS
  <2>1. TypeOK /\ Custody
    BY IngestAssumption DEF Init, TypeOK, Custody, AtWork, Idle
  <2>2. Places
    BY IngestAssumption DEF Init, Places, Idle
  <2>3. HoldersOwnClaims /\ StoredIsClaimed /\ StoredOnce
    BY IngestAssumption
    DEF Init, HoldersOwnClaims, Holds, StoredIsClaimed, StoredOnce, Spans, Idle
  <2>4. QED
    BY <2>1, <2>2, <2>3 DEF IInv
<1>2. IInv /\ [Next]_vars => IInv'
  <2> SUFFICES ASSUME IInv, [Next]_vars PROVE IInv'
    OBVIOUS
  <2>1. TypeOK' /\ Custody'
    BY TypeStep DEF IInv
  <2>2. Places'
    BY PlacesStep
  <2>3. \A s \in Spans : SpanInv(s)'
    BY <2>2, SpanStep
  <2>4. QED
    BY <2>1, <2>2, <2>3
    DEF IInv, SpanInv, HoldersOwnClaims, StoredIsClaimed, StoredOnce
<1>3. QED
  BY <1>1, <1>2, PTL DEF Spec

\* The key of a stored span is never deleted, when no ambiguous event happens:
\* neither the rollback of a failed publish nor the release that follows the
\* dead letter queue compares the key's value, and neither has to.
THEOREM StoredClaimsKept ==
    ASSUME Env \cap Ambiguous = {}
    PROVE  Spec => StoredKeepsClaim
<1> DEFINE Kept == \A s \in Spans :
                       claims[s] # NoBatch /\ claims'[s] = NoBatch => rows[s] = 0
<1>1. IInv /\ [Next]_vars => Kept
  <2> SUFFICES ASSUME IInv, [Next]_vars, NEW s \in Spans,
                      claims[s] # NoBatch, claims'[s] = NoBatch
               PROVE  rows[s] = 0
    OBVIOUS
  <2> USE IngestAssumption
  <2>1. ASSUME NEW b \in Batches, Holds(b, s) PROVE rows[s] = 0
    BY <2>1 DEF IInv, HoldersOwnClaims
  <2>7. /\ \A b \in Batches : ~RollbackReplay(b)
        /\ \A c \in Consumers : ~ReleaseReplay(c)
    BY DEF RollbackReplay, ReleaseReplay, Ambiguous
  <2>2. ASSUME NEW b \in Batches, Receive(b) \/ HandlerStep(b) \/ ServerCrash(b)
        PROVE  Rollback(b) /\ s \in claimedIDs[b]
    BY <2>2, <2>7 DEF Receive, HandlerStep, ClaimOK, ClaimError, ClaimReplay, PublishReplay,
       Publish, PublishError, PublishLost, Rollback, Released, ServerCrash, handlerVars
  <2>3. ASSUME NEW b \in Batches, Rollback(b), s \in claimedIDs[b] PROVE Holds(b, s)
    BY <2>3 DEF Rollback, Holds
  <2>4. ASSUME NEW c \in Consumers, WorkerStep(c) \/ WorkerCrash(c)
        PROVE  ReleaseClaims(c) /\ s \in claimedIDs[wk[c].batch]
    BY <2>4, <2>7 DEF WorkerStep, WorkerCrash, Read, Take, Attempt, MoveToDLQ,
       MoveToDLQError, ReleaseClaims, Released, Ack
  <2>5. ASSUME NEW c \in Consumers, ReleaseClaims(c), s \in claimedIDs[wk[c].batch]
        PROVE  wk[c].batch \in Batches /\ Holds(wk[c].batch, s)
    BY <2>5 DEF IInv, Custody, AtWork, ReleaseClaims, Holds
  <2>6. \A b \in Batches, r \in Spans : ~RetryDLQMessage(b) /\ ~ClaimExpires(r)
    BY DEF RetryDLQMessage, ClaimExpires, Ambiguous
  <2> QED
    BY <2>1, <2>2, <2>3, <2>4, <2>5, <2>6 DEF Next, vars, RetryDLQMessage, ClaimExpires,
       Ambiguous
<1> QED
  BY <1>1, InductiveInvariant, PTL DEF Spec, StoredKeepsClaim

\* When no ambiguous event happens, no span has two rows in ClickHouse: any
\* number of requests, retries, workers, crashes and definite errors.
THEOREM SpansStoredOnce ==
    ASSUME Env \cap Ambiguous = {}
    PROVE  Spec => []StoredOnce
BY InductiveInvariant, PTL DEF IInv
==============================================================================

----------------------------- MODULE SpanRefinement -----------------------------
(***************************************************************************)
(* The ingestion pipeline implements SpanStore, for any requests, spans and*)
(* workers, when no ambiguous event happens.                               *)
(*                                                                         *)
(* The mapping: a span is owned by the batches that may still insert it or *)
(* release its key.  The answer of SETNX grants spans; an insert stores    *)
(* spans and takes them from their owner; a rollback, a crash, a lost or   *)
(* a failed message only takes them away.                                  *)
(***************************************************************************)
EXTENDS TelemetryIngestProofs

SpanRows == [s \in Spans |-> rows[s]]

AbstractStep == [Store!Next]_<<Owners, SpanRows>>

\* The steps that do not claim.
Settling ==
    \/ \E b \in Batches :
         \/ Receive(b) \/ ClaimError(b) \/ ClaimReplay(b)
         \/ Publish(b) \/ PublishError(b) \/ Rollback(b) \/ ServerCrash(b)
    \/ \E c \in Consumers : (WorkerStep(c) /\ ~ReleaseReplay(c)) \/ WorkerCrash(c)
    \/ UNCHANGED vars

LEMMA Steps ==
    ASSUME [Next]_vars, Env \cap Ambiguous = {}
    PROVE  Settling \/ \E b \in Batches : ClaimOK(b)
<1>1. \A b \in Batches : /\ ~PublishReplay(b) /\ ~PublishLost(b)
                         /\ ~RollbackReplay(b) /\ ~RetryDLQMessage(b)
  BY DEF PublishReplay, PublishLost, RollbackReplay, RetryDLQMessage, Ambiguous
<1>2. \A s \in Spans : ~ClaimExpires(s)
  BY DEF ClaimExpires, Ambiguous
<1>3. \A c \in Consumers : ~ReleaseReplay(c)
  BY DEF ReleaseReplay, Ambiguous
<1> QED
  BY <1>1, <1>2, <1>3, Zenon DEF Next, HandlerStep, Settling

-----------------------------------------------------------------------------

\* Only the answer of SETNX gives anybody a span.
LEMMA HeldBefore ==
    ASSUME IInv, Settling, NEW s \in Spans, NEW o \in Batches, Holds(o, s)'
    PROVE  Holds(o, s)
<1>t. TypeOK /\ Custody /\ Places
  BY DEF IInv
<1>1. ASSUME NEW b \in Batches, Receive(b) PROVE Holds(o, s)
  BY <1>1, <1>t DEF Receive, Holds, Places, TypeOK, workerVars
<1>2. ASSUME NEW b \in Batches, ClaimError(b) \/ ClaimReplay(b) PROVE Holds(o, s)
  BY <1>2, <1>t DEF ClaimError, ClaimReplay, Holds, Places, TypeOK, handlerVars,
     workerVars
<1>3. ASSUME NEW b \in Batches, Publish(b) PROVE Holds(o, s)
  BY <1>3, <1>t DEF Publish, Holds, TypeOK, workerVars
<1>4. ASSUME NEW b \in Batches, PublishError(b) PROVE Holds(o, s)
  BY <1>4, <1>t DEF PublishError, AfterPublishError, Holds, TypeOK, workerVars
<1>5. ASSUME NEW b \in Batches, Rollback(b) PROVE Holds(o, s)
  BY <1>5, <1>t DEF Rollback, Holds, TypeOK, workerVars
<1>6. ASSUME NEW b \in Batches, ServerCrash(b) PROVE Holds(o, s)
  BY <1>6, <1>t DEF ServerCrash, Holds, TypeOK, workerVars
<1>7. ASSUME NEW c \in Consumers, WorkerStep(c), ~ReleaseReplay(c) PROVE Holds(o, s)
  <2>1. CASE Read(c)
    BY <2>1, <1>t DEF Read, Holds, TypeOK, handlerVars
  <2>2. CASE Take(c)
    BY <2>2, <1>t DEF Take, Holds, TypeOK, handlerVars
  <2>3. CASE Attempt(c)
    <3>1. /\ \A d \in Consumers : wk'[d].batch = wk[d].batch
          /\ \A d \in Consumers : d # c => wk'[d].at = wk[d].at
      BY <2>3, <1>t DEF Attempt, AfterAttempt, TypeOK
    <3> QED
      BY <2>3, <3>1, <1>t DEF Attempt, Holds, handlerVars
  <2>4. CASE MoveToDLQ(c)
    BY <2>4, <1>t DEF MoveToDLQ, Holds, TypeOK, handlerVars
  <2>5. CASE MoveToDLQError(c)
    BY <2>5, <1>t DEF MoveToDLQError, Idle, Holds, TypeOK, handlerVars
  <2>6. CASE ReleaseClaims(c)
    BY <2>6, <1>t DEF ReleaseClaims, Holds, TypeOK, handlerVars
  <2>7. CASE Ack(c)
    BY <2>7, <1>t DEF Ack, Idle, Holds, TypeOK, handlerVars
  <2> QED
    BY <1>7, <2>1, <2>2, <2>3, <2>4, <2>5, <2>6, <2>7 DEF WorkerStep
<1>8. ASSUME NEW c \in Consumers, WorkerCrash(c) PROVE Holds(o, s)
  BY <1>8, <1>t DEF WorkerCrash, Idle, Holds, TypeOK, handlerVars
<1>9. CASE UNCHANGED vars
  BY <1>9 DEF Holds, vars
<1> QED
  BY <1>1, <1>2, <1>3, <1>4, <1>5, <1>6, <1>7, <1>8, <1>9 DEF Settling

\* A span of a worker's batch is stored as often as before, or once more when
\* the batch has it.
LEMMA InsertAdds ==
    ASSUME IInv, NEW c \in Consumers, wk[c].at = "process",
           NEW S, rows' = Stored(wk[c].batch, S), NEW s \in Spans
    PROVE  \/ rows'[s] = rows[s]
           \/ rows'[s] = rows[s] + 1 /\ \E o \in Batches : Holds(o, s)
<1>1. PICK o \in Batches : o = wk[c].batch
  BY DEF IInv, Custody, AtWork
<1>2. s \in Events /\ rows[s] \in Nat
  BY DEF Spans, IInv, TypeOK
<1>3. rows'[s] = IF KindOf[s] \in S /\ s \in claimedIDs[o] \ unreadable[o]
                 THEN rows[s] + 1 ELSE rows[s]
  BY <1>1, <1>2 DEF Stored, OfKinds, Readable, EventsOf, CopiesOf
<1>4. s \in claimedIDs[o] => Holds(o, s)
  BY <1>1 DEF Holds
<1> QED
  BY <1>3, <1>4

\* A span is stored only out of its owner's hands, and once.
LEMMA StoredByOwner ==
    ASSUME IInv, IInv', Settling, NEW s \in Spans
    PROVE  \/ rows'[s] = rows[s]
           \/ /\ rows[s] = 0 /\ rows'[s] = 1
              /\ \E o \in Batches : Holds(o, s)
              /\ \A o \in Batches : ~Holds(o, s)'
<1>1. ASSUME NEW c \in Consumers, (WorkerStep(c) /\ ~ReleaseReplay(c)) \/ WorkerCrash(c)
      PROVE  rows' = rows \/ (wk[c].at = "process" /\ \E S : rows' = Stored(wk[c].batch, S))
  BY <1>1, Zenon
  DEF WorkerStep, Read, Take, Attempt, MoveToDLQ, MoveToDLQError, ReleaseClaims, Ack,
      WorkerCrash
<1>2. ASSUME NEW b \in Batches,
             \/ Receive(b) \/ ClaimError(b) \/ ClaimReplay(b)
             \/ Publish(b) \/ PublishError(b) \/ Rollback(b) \/ ServerCrash(b)
      PROVE  rows' = rows
  BY <1>2 DEF Receive, ClaimError, ClaimReplay, Publish, PublishError, Rollback, ServerCrash
<1>3. \/ rows'[s] = rows[s]
      \/ rows'[s] = rows[s] + 1 /\ \E o \in Batches : Holds(o, s)
  BY <1>1, <1>2, InsertAdds DEF Settling, vars
<1>4. ASSUME rows'[s] = rows[s] + 1, \E o \in Batches : Holds(o, s)
      PROVE  rows[s] = 0 /\ rows'[s] = 1 /\ \A o \in Batches : ~Holds(o, s)'
  <2>1. rows[s] = 0
    BY <1>4 DEF IInv, HoldersOwnClaims
  <2>2. rows'[s] = 1
    BY <1>4, <2>1
  <2>3. \A o \in Batches : Holds(o, s)' => rows'[s] = 0
    BY DEF IInv, HoldersOwnClaims
  <2> QED
    BY <2>1, <2>2, <2>3
<1> QED
  BY <1>3, <1>4

\* Its key gives a span one owner at most.
LEMMA OneOwner ==
    ASSUME IInv, NEW s \in Spans, NEW o \in Batches, Holds(o, s)
    PROVE  Owners[s] = {o}
BY DEF IInv, HoldersOwnClaims, Owners

LEMMA SettlingSettles ==
    ASSUME IInv, IInv', Settling
    PROVE  Store!Settle
<1>1. PICK Kept \in SUBSET Spans : Kept = {s \in Spans : rows'[s] # rows[s]}
  OBVIOUS
<1>2. PICK Lost \in SUBSET Spans : Lost = {s \in Spans : Owners'[s] = {}}
  OBVIOUS
<1>3. \A s \in Kept : /\ Owners[s] # {} /\ SpanRows[s] = 0
                      /\ rows'[s] = 1 /\ Owners'[s] = {}
  <2> SUFFICES ASSUME NEW s \in Kept
               PROVE  /\ Owners[s] # {} /\ SpanRows[s] = 0
                      /\ rows'[s] = 1 /\ Owners'[s] = {}
    OBVIOUS
  <2>1. /\ rows[s] = 0 /\ rows'[s] = 1
        /\ \E o \in Batches : Holds(o, s)
        /\ \A o \in Batches : ~Holds(o, s)'
    BY <1>1, StoredByOwner
  <2> QED
    BY <2>1 DEF Owners, SpanRows
<1>4. SpanRows' = [s \in Spans |-> IF s \in Kept THEN 1 ELSE SpanRows[s]]
  BY <1>1, <1>3 DEF SpanRows
<1>5. ASSUME NEW s \in Spans
      PROVE  Owners'[s] = IF s \in Kept \cup Lost THEN {} ELSE Owners[s]
  <2>1. CASE s \in Kept \cup Lost
    BY <1>2, <1>3, <2>1
  <2>2. CASE s \notin Kept \cup Lost
    <3>1. PICK o \in Batches : Holds(o, s)'
      BY <1>2, <2>2 DEF Owners
    <3>2. Owners[s] = {o}
      BY <3>1, HeldBefore, OneOwner
    <3>3. Owners'[s] = {o}
      BY <3>1, <3>2, HeldBefore DEF Owners
    <3> QED
      BY <2>2, <3>2, <3>3
  <2> QED
    BY <2>1, <2>2
<1>6. Owners' = [s \in Spans |-> IF s \in Kept \cup Lost THEN {} ELSE Owners[s]]
  BY <1>5 DEF Owners
<1>7. \A s \in Kept : Owners[s] # {} /\ SpanRows[s] = 0
  BY <1>3
<1>8. \E K, L \in SUBSET Spans :
        /\ \A s \in K : Owners[s] # {} /\ SpanRows[s] = 0
        /\ SpanRows' = [s \in Spans |-> IF s \in K THEN 1 ELSE SpanRows[s]]
        /\ Owners' = [s \in Spans |-> IF s \in K \cup L THEN {} ELSE Owners[s]]
  <2> WITNESS Kept \in SUBSET Spans, Lost \in SUBSET Spans
  <2> QED
    BY <1>4, <1>6, <1>7
<1> QED
  BY <1>8 DEF Store!Settle, SpanRows

\* The spans whose keys SETNX took were nobody's and are not stored.
LEMMA ClaimGrants ==
    ASSUME IInv, NEW b \in Batches, ClaimOK(b)
    PROVE  Store!Grant(b)
<1>t. TypeOK /\ Custody /\ Places
  BY DEF IInv
<1>1. PICK won \in SUBSET Spans :
        /\ won = {s \in Spans : s \in Requested(b) /\ claims[s] = NoBatch}
        /\ claimedIDs' = [claimedIDs EXCEPT ![b] = won]
        /\ pc' = [pc EXCEPT ![b] = IF won = {} THEN "all_duplicates" ELSE "publishing"]
        /\ pc[b] = "claiming"
        /\ UNCHANGED <<msg, buf, wk, rows>>
  BY DEF ClaimOK, workerVars
<1>2. \A s \in won : /\ \A o \in Batches : ~Holds(o, s)
                     /\ rows[s] = 0
  BY <1>1, <1>t, IngestAssumption
  DEF IInv, HoldersOwnClaims, StoredIsClaimed, TypeOK, Spans
<1>3. ASSUME NEW s \in Spans, NEW o \in Batches, o # b
      PROVE  Holds(o, s)' <=> Holds(o, s)
  BY <1>1, <1>3, <1>t DEF Holds, TypeOK
<1>4. ASSUME NEW s \in Spans
      PROVE  /\ ~Holds(b, s)
             /\ Holds(b, s)' <=> s \in won
  <2>1. s \notin claimedIDs[b]
    BY <1>1, <1>t DEF Places
  <2>2. /\ claimedIDs'[b] = won
        /\ s \in won => pc'[b] = "publishing"
    BY <1>1, <1>t DEF TypeOK
  <2> QED
    BY <2>1, <2>2 DEF Holds
<1>5. ASSUME NEW s \in Spans
      PROVE  Owners'[s] = IF s \in won THEN {b} ELSE Owners[s]
  BY <1>2, <1>3, <1>4 DEF Owners
<1>6. Owners' = [s \in Spans |-> IF s \in won THEN {b} ELSE Owners[s]]
  BY <1>5 DEF Owners
<1>7. \A s \in won : Owners[s] = {} /\ SpanRows[s] = 0
  BY <1>2 DEF Owners, SpanRows
<1>8. UNCHANGED SpanRows
  BY <1>1 DEF SpanRows
<1> QED
  BY <1>6, <1>7, <1>8 DEF Store!Grant, SpanRows

-----------------------------------------------------------------------------

\* The pipeline implements SpanStore when no ambiguous event happens: a span is
\* in the hands of one batch at a time, only that batch stores it, once, and a
\* stored span is never claimed again, through retries, rollbacks, releases,
\* dead letters, crashes and definite errors.
THEOREM PipelineImplementsSpanStore ==
    ASSUME Env \cap Ambiguous = {}
    PROVE  Spec => ImplementsSpanStore
<1>1. Init => Store!Init
  <2> SUFFICES ASSUME Init PROVE Store!Init
    OBVIOUS
  <2>1. \A s \in Spans, b \in Batches : ~Holds(b, s)
    BY DEF Init, Holds
  <2>2. \A s \in Spans : rows[s] = 0
    BY DEF Init, Spans
  <2> QED
    BY <2>1, <2>2 DEF Store!Init, Owners
<1>2. IInv /\ IInv' /\ [Next]_vars => [Store!Next]_<<Owners, [s \in Spans |-> rows[s]]>>
  <2> SUFFICES ASSUME IInv, IInv', [Next]_vars PROVE Store!Next
    OBVIOUS
  <2> QED
    BY Steps, SettlingSettles, ClaimGrants DEF Store!Next
<1> QED
  BY <1>1, <1>2, InductiveInvariant, PTL DEF Spec, ImplementsSpanStore, Store!Spec
=============================================================================

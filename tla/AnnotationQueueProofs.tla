------------------------ MODULE AnnotationQueueProofs ------------------------
(***************************************************************************)
(* Proofs about AnnotationQueue, for any users, items, calls, timeouts and *)
(* failures.                                                               *)
(*                                                                         *)
(* Types hold with every operation, a finished item stays finished, and    *)
(* scores follow a completion.  The lease theorems assume what the code    *)
(* does not enforce: nobody releases a lock or changes the queue, and      *)
(* lock_timeout_seconds is not 0.  The argument: a user whose lease runs   *)
(* has the lock, no older than the lease (LeaseIsLocked), so neither a     *)
(* claim of another user nor the sweeper finds it expired; and an item that*)
(* was finished is not pending, so no lease on it begins any more.  Under  *)
(* the same conditions the queue implements Lease (at the end).            *)
(***************************************************************************)
EXTENDS AnnotationQueue, TLAPS

-----------------------------------------------------------------------------
(* Facts about ages and calls.                                             *)

\* An age that grows stays an age, and grows in order.
LEMMA OlderAge ==
    /\ \A a \in Ages : Older(a) \in Ages /\ a <= Older(a)
    /\ Older(NoAge) = NoAge
    /\ \A a, b \in Ages : a <= b => Older(a) <= Older(b)
    /\ \A a \in Ages : Older(a) # NoAge
BY QueueAssumption, SMT DEF Older, Ages, NoAge

\* A call that moves on keeps what it knows.
LEMMA Moves ==
    ASSUME NEW r \in Calls, NEW next \in {"scores", "write"}, TypeOK,
           call[r] # Idle, call' = [call EXCEPT ![r].at = next]
    PROVE  /\ call' \in [Calls -> CallRec \cup {Idle}]
           /\ \A q \in Calls : /\ call'[q] # Idle => call[q] # Idle
                               /\ call'[q] # Idle =>
                                    /\ call'[q].item = call[q].item
                                    /\ call'[q].op = call[q].op
                                    /\ call'[q].queue = call[q].queue
<1>1. call[r] \in CallRec
  BY DEF TypeOK
<1> DEFINE moved == [call[r] EXCEPT !.at = next]
<1>2. /\ moved \in CallRec
      /\ moved.item = call[r].item /\ moved.op = call[r].op
      /\ moved.queue = call[r].queue
  BY <1>1 DEF CallRec
<1>3. /\ call' = [call EXCEPT ![r] = moved]
      /\ call \in [Calls -> CallRec \cup {Idle}]
  BY DEF TypeOK
<1> HIDE DEF moved
<1> QED
  BY <1>2, <1>3

\* A call that ends leaves the others alone.
LEMMA Ends ==
    ASSUME NEW r \in Calls, TypeOK, Done(r)
    PROVE  /\ call' \in [Calls -> CallRec \cup {Idle}]
           /\ \A q \in Calls : call'[q] # Idle => call'[q] = call[q]
BY DEF TypeOK, Done

\* A lease that is given or ended is of the right type.
LEMMA Granted ==
    ASSUME TypeOK, NEW u \in Users, NEW i, NEW a \in Ages,
           grant' = [grant EXCEPT ![u][i] = a]
    PROVE  grant' \in [Users -> [Items -> Ages]]
<1> DEFINE g == [grant[u] EXCEPT ![i] = a]
<1>1. grant \in [Users -> [Items -> Ages]]
  BY DEF TypeOK
<1>2. g \in [Items -> Ages]
  BY <1>1
<1>3. grant' = [grant EXCEPT ![u] = g]
  OBVIOUS
<1> HIDE DEF g
<1> QED
  BY <1>1, <1>2, <1>3

-----------------------------------------------------------------------------
(* Types.                                                                  *)

LEMMA InitType == Init => TypeOK
BY QueueAssumption, SMT DEF Init, TypeOK, Queue, QueueStatus, Ages, NoAge

LEMMA CallType ==
    ASSUME TypeOK, NEW r \in Calls, Begin(r) \/ CallStep(r) \/ Abort(r)
    PROVE  TypeOK'
<1> USE DEF itemVars, history
<1>1. CASE Begin(r)
  <2>1. PICK op \in Ops, u \in Users, i \in Items \cup {NoItem} :
          /\ i = NoItem <=> op \in {"add", "claim", "update"}
          /\ call' = [call EXCEPT ![r] =
               [at |-> "begun", op |-> op, user |-> u, item |-> i, queue |-> queue]]
    BY <1>1 DEF Begin
  <2>2. [at |-> "begun", op |-> op, user |-> u, item |-> i, queue |-> queue] \in CallRec
    BY DEF CallRec, TypeOK
  <2> QED
    BY <1>1, <2>1, <2>2 DEF Begin, TypeOK
<1>2. CASE Abort(r)
  BY <1>2, Ends DEF Abort, TypeOK
<1>3. CASE AddItems(r)
  <2>1. status' \in [Items -> ItemStatus \cup {"absent", "deleted"}]
    BY <1>3 DEF AddItems, TypeOK, ItemStatus
  <2> QED
    BY <1>3, <2>1, Ends DEF AddItems, TypeOK
<1>4. CASE ClaimNext(r)
  <2>1. call[r].user \in Users
    BY <1>4 DEF ClaimNext, TypeOK, CallRec
  <2>2. 0 \in Ages
    BY QueueAssumption DEF Ages
  <2>3. /\ lockedBy' \in [Items -> Users \cup {NoUser}]
        /\ lockAge' \in [Items -> Ages \cup {NoAge}]
    BY <1>4, <2>1, <2>2 DEF ClaimNext, TypeOK
  <2>4. grant' \in [Users -> [Items -> Ages]]
    <3>1. CASE UNCHANGED grant
      BY <3>1 DEF TypeOK
    <3>2. CASE ~UNCHANGED grant
      <4>1. PICK i \in Items : grant' = [grant EXCEPT ![call[r].user][i] = 0]
        BY <1>4, <3>2 DEF ClaimNext
      <4> QED
        BY <2>1, <2>2, <4>1, Granted
    <3> QED
      BY <3>1, <3>2
  <2> QED
    BY <1>4, <2>3, <2>4, Ends DEF ClaimNext, TypeOK
<1>5. CASE ClaimNothing(r)
  BY <1>5, Ends DEF ClaimNothing, TypeOK
<1>6. CASE Check(r)
  <2>1. CASE Done(r)
    BY <1>6, <2>1, Ends DEF Check, TypeOK
  <2>2. CASE ~Done(r)
    <3>1. PICK next \in {"scores", "write"} : call' = [call EXCEPT ![r].at = next]
      BY <1>6, <2>2 DEF Check
    <3>2. call[r] # Idle
      BY <1>6 DEF Check
    <3>3. /\ call' \in [Calls -> CallRec \cup {Idle}]
          /\ \A q \in Calls : call'[q] # Idle =>
               call[q] # Idle /\ call'[q].item = call[q].item /\ call'[q].op = call[q].op
      BY <3>1, <3>2, Moves
    <3> QED
      BY <1>6, <3>3, Zenon DEF Check, TypeOK
  <2> QED
    BY <2>1, <2>2
<1>7. CASE SubmitScores(r)
  <2>1. call[r] # Idle /\ call[r] \in CallRec
    BY <1>7 DEF SubmitScores, TypeOK
  <2>2. /\ call' \in [Calls -> CallRec \cup {Idle}]
        /\ \A q \in Calls : call'[q] # Idle =>
             call[q] # Idle /\ call'[q].item = call[q].item /\ call'[q].op = call[q].op
    BY <1>7, <2>1, Moves DEF SubmitScores
  <2>3. scored' \in [Items -> SUBSET Users]
    BY <1>7, <2>1 DEF SubmitScores, TypeOK, CallRec
  <2> QED
    BY <1>7, <2>2, <2>3 DEF SubmitScores, TypeOK
<1>8. CASE Finish(r)
  <2>1. call[r].user \in Users
    BY <1>8 DEF Finish, TypeOK, CallRec
  <2>2. MaxAge \in Ages
    BY QueueAssumption DEF Ages
  <2>3. status' \in [Items -> ItemStatus \cup {"absent", "deleted"}]
    BY <1>8 DEF Finish, TypeOK, ItemStatus
  <2>4. /\ annotator' \in [Items -> Users \cup {NoUser}]
        /\ inTime' \in [Items -> SUBSET Users]
    <3>1. \/ /\ annotator' = [annotator EXCEPT ![call[r].item] = call[r].user]
             /\ \E S \in {inTime[call[r].item], inTime[call[r].item] \cup {call[r].user}} :
                  inTime' = [inTime EXCEPT ![call[r].item] = S]
          \/ annotator' = annotator /\ inTime' = inTime
      BY <1>8 DEF Finish
    <3> QED
      BY <2>1, <3>1 DEF TypeOK
  <2>5. grant' \in [Users -> [Items -> Ages]]
    <3>1. \/ grant' = [grant EXCEPT ![call[r].user][call[r].item] = MaxAge]
          \/ grant' = grant
      BY <1>8 DEF Finish
    <3> QED
      BY <2>1, <2>2, <3>1, Granted DEF TypeOK
  <2> QED
    BY <1>8, <2>3, <2>4, <2>5, Ends DEF Finish, TypeOK
<1>9. CASE ReleaseLock(r)
  <2>1. MaxAge \in Ages
    BY QueueAssumption DEF Ages
  <2>2. grant' \in [Users -> [Items -> Ages]]
    <3>1. call[r].user \in Users
      BY <1>9 DEF ReleaseLock, TypeOK, CallRec
    <3>2. CASE UNCHANGED grant
      BY <3>2 DEF TypeOK
    <3>3. CASE ~UNCHANGED grant
      <4>1. PICK i : grant' = [grant EXCEPT ![call[r].user][i] = MaxAge]
        BY <1>9, <3>3 DEF ReleaseLock
      <4> QED
        BY <2>1, <3>1, <4>1, Granted
    <3> QED
      BY <3>2, <3>3
  <2>3. /\ lockedBy' \in [Items -> Users \cup {NoUser}]
        /\ lockAge' \in [Items -> Ages \cup {NoAge}]
    BY <1>9 DEF ReleaseLock, TypeOK
  <2> QED
    BY <1>9, <2>2, <2>3, Ends DEF ReleaseLock, TypeOK
<1>10. CASE DeleteItem(r)
  BY <1>10, Ends DEF DeleteItem, TypeOK
<1>11. CASE UpdateQueue(r)
  <2>1. call[r].queue.timeout \in Timeouts
    BY <1>11 DEF UpdateQueue, TypeOK, CallRec, Queue
  <2>2. queue' \in Queue
    BY <1>11, <2>1 DEF UpdateQueue, TypeOK, Validate, Queue
  <2> QED
    BY <1>11, <2>2, Ends DEF UpdateQueue, TypeOK
<1> QED
  BY <1>1, <1>2, <1>3, <1>4, <1>5, <1>6, <1>7, <1>8, <1>9, <1>10, <1>11
  DEF CallStep

LEMMA SweepType ==
    ASSUME TypeOK, Sweep \/ Tick
    PROVE  TypeOK'
<1> USE DEF itemVars, history
<1>1. CASE ListActive
  <2>1. LockDuration(queue) \in Nat
    BY QueueAssumption DEF LockDuration, TypeOK, Queue
  <2> QED
    BY <1>1, <2>1 DEF ListActive, TypeOK
<1>2. CASE ReleaseExpiredLocks
  BY <1>2 DEF ReleaseExpiredLocks, TypeOK
<1>3. CASE Tick
  BY <1>3, OlderAge DEF Tick, TypeOK
<1> QED
  BY <1>1, <1>2, <1>3 DEF Sweep

LEMMA TypeStep == TypeOK /\ [Next]_vars => TypeOK'
<1> SUFFICES ASSUME TypeOK, [Next]_vars PROVE TypeOK'
  OBVIOUS
<1>1. CASE UNCHANGED vars
  BY <1>1 DEF vars, TypeOK
<1> QED
  BY <1>1, CallType, SweepType DEF Next

\* Every column, call and age keeps its type, whatever the operations and the
\* failures are.
THEOREM TypeCorrect == Spec => []TypeOK
BY InitType, TypeStep, PTL DEF Spec

-----------------------------------------------------------------------------
(* Items that are finished, and the scores of who finished them.           *)

Finished == {"completed", "skipped", "deleted"}

\* What a step may do to the status of an item.
LEMMA StatusStep ==
    ASSUME TypeOK, Next, NEW i \in Items
    PROVE  \/ status'[i] = status[i]
           \/ status[i] = "absent" /\ status'[i] = "pending"
           \/ status[i] # "deleted" /\ status'[i] \in {"completed", "skipped"}
           \/ status'[i] = "deleted"
<1>1. ASSUME NEW r \in Calls, AddItems(r)
      PROVE  \/ status'[i] = status[i]
             \/ status[i] = "absent" /\ status'[i] = "pending"
  <2>1. CASE UNCHANGED status
    BY <2>1
  <2>2. CASE ~UNCHANGED status
    <3>1. PICK S \in SUBSET Items :
            status' = [k \in Items |-> IF k \in S /\ status[k] = "absent"
                                       THEN "pending" ELSE status[k]]
      BY <1>1, <2>2 DEF AddItems
    <3> QED
      BY <3>1
  <2> QED
    BY <2>1, <2>2
<1>2. ASSUME NEW r \in Calls, Finish(r)
      PROVE  \/ status'[i] = status[i]
             \/ status[i] # "deleted" /\ status'[i] \in {"completed", "skipped"}
  BY <1>2 DEF Finish, TypeOK
<1>3. ASSUME NEW r \in Calls, DeleteItem(r)
      PROVE  status'[i] = status[i] \/ status'[i] = "deleted"
  BY <1>3 DEF DeleteItem, TypeOK
<1>4. ASSUME NEW r \in Calls,
             \/ Begin(r) \/ Abort(r) \/ ClaimNext(r) \/ ClaimNothing(r) \/ Check(r)
             \/ SubmitScores(r) \/ ReleaseLock(r) \/ UpdateQueue(r)
      PROVE  status' = status
  BY <1>4 DEF Begin, Abort, ClaimNext, ClaimNothing, Check, SubmitScores,
              ReleaseLock, UpdateQueue, itemVars
<1>5. CASE Sweep \/ Tick
  BY <1>5 DEF Sweep, ListActive, ReleaseExpiredLocks, Tick, itemVars
<1> QED
  BY <1>1, <1>2, <1>3, <1>4, <1>5 DEF Next, CallStep

\* For any users and operations in flight, a finished item never goes back into
\* the pool and a deleted one never comes back.
THEOREM FinishedStaysFinished == Spec => NeverReopened
<1> DEFINE Closed(i) ==
      /\ status[i] \in {"completed", "skipped"} => status'[i] # "pending"
      /\ status[i] = "deleted" => status'[i] = "deleted"
<1>1. TypeOK /\ [Next]_vars => [\A i \in Items : Closed(i)]_vars
  BY StatusStep
<1> QED
  BY <1>1, TypeCorrect, PTL DEF Spec, NeverReopened

\* Only a completion submits scores; with ScoresFollowCompletion, what is
\* inductive.
ScoringIsCompleting ==
    \A r \in Calls : call[r] # Idle /\ call[r].at = "scores" => call[r].op = "complete"

Scoring == TypeOK /\ ScoringIsCompleting /\ ScoresFollowCompletion

\* A call is about to finish the item for the user.
Finishing(r, i, u) ==
    /\ call[r] # Idle /\ call[r].at = "write" /\ call[r].op = "complete"
    /\ call[r].item = i /\ call[r].user = u

\* Only Finish takes such a call further.
LEMMA FinishingStep ==
    ASSUME TypeOK, "abort" \notin Env, Next,
           NEW r \in Calls, NEW i \in Items, NEW u \in Users, Finishing(r, i, u)
    PROVE  Finishing(r, i, u)' \/ status'[i] \in Finished
<1>1. ASSUME NEW q \in Calls, Finish(q), q = r
      PROVE  status'[i] \in Finished
  BY <1>1 DEF Finish, Finishing, TypeOK, Finished
<1>2. CASE call'[r] = call[r]
  BY <1>2 DEF Finishing
<1>3. ASSUME NEW q \in Calls, CallStep(q) \/ Begin(q) \/ Abort(q), q # r
      PROVE  call'[r] = call[r]
  BY <1>3 DEF CallStep, Begin, Abort, AddItems, ClaimNext, ClaimNothing, Check,
              SubmitScores, Finish, ReleaseLock, DeleteItem, UpdateQueue, Done, TypeOK
<1>4. ASSUME CallStep(r) \/ Begin(r) \/ Abort(r)
      PROVE  Finish(r)
  BY <1>4 DEF CallStep, Begin, Abort, AddItems, ClaimNext, ClaimNothing, Check,
              SubmitScores, ReleaseLock, DeleteItem, UpdateQueue, Finishing
<1>5. CASE Sweep \/ Tick
  <2>1. call' = call
    BY <1>5 DEF Sweep, ListActive, ReleaseExpiredLocks, Tick
  <2> QED
    BY <1>2, <2>1
<1> QED
  BY <1>1, <1>2, <1>3, <1>4, <1>5 DEF Next

\* A score is there already, or its user's completion has just written it.
LEMMA ScoreStep ==
    ASSUME TypeOK, ScoringIsCompleting, Next,
           NEW i \in Items, NEW u \in scored'[i]
    PROVE  u \in scored[i] \/ \E r \in Calls : Finishing(r, i, u)'
<1>1. CASE \E r \in Calls : SubmitScores(r)
  <2>1. PICK r \in Calls : SubmitScores(r)
    BY <1>1
  <2>2. /\ call[r] \in CallRec /\ call[r].op = "complete"
        /\ call' = [call EXCEPT ![r].at = "write"]
    BY <2>1 DEF SubmitScores, TypeOK, ScoringIsCompleting
  <2>3. u \in scored[i] \/ (i = call[r].item /\ u = call[r].user)
    <3>1. scored \in [Items -> SUBSET Users]
      BY DEF TypeOK
    <3>2. CASE UNCHANGED scored
      BY <3>2
    <3>3. CASE scored' = [scored EXCEPT ![call[r].item] = @ \cup {call[r].user}]
      BY <3>1, <3>3
    <3> QED
      BY <2>1, <3>2, <3>3, Zenon DEF SubmitScores
  <2> DEFINE moved == [call[r] EXCEPT !.at = "write"]
  <2>4. /\ moved # Idle /\ moved.at = "write" /\ moved.op = "complete"
        /\ moved.item = call[r].item /\ moved.user = call[r].user
    BY <2>2 DEF CallRec, Idle
  <2>5. call'[r] = moved
    BY <2>2 DEF TypeOK
  <2> HIDE DEF moved
  <2> QED
    BY <2>3, <2>4, <2>5 DEF Finishing
<1>2. CASE ~ \E r \in Calls : SubmitScores(r)
  <2>1. scored' = scored
    BY <1>2, Zenon DEF Next, CallStep, Begin, Abort, AddItems, ClaimNext, ClaimNothing,
                Check, Finish, ReleaseLock, DeleteItem, UpdateQueue, Sweep,
                ListActive, ReleaseExpiredLocks, Tick, itemVars
  <2> QED
    BY <2>1, Zenon
<1> QED
  BY <1>1, <1>2

LEMMA ScoringStep ==
    ASSUME "abort" \notin Env, Scoring, [Next]_vars
    PROVE  Scoring'
<1>1. CASE UNCHANGED vars
  BY <1>1 DEF vars, Scoring, TypeOK, ScoringIsCompleting, ScoresFollowCompletion
<1>2. CASE Next
  <2>1. TypeOK /\ ScoringIsCompleting /\ TypeOK'
    BY TypeStep DEF Scoring
  <2>2. ScoringIsCompleting'
    <3> SUFFICES ASSUME NEW q \in Calls, call'[q] # Idle, call'[q].at = "scores"
                 PROVE  call'[q].op = "complete"
      BY DEF ScoringIsCompleting
    <3>1. CASE call'[q] = call[q]
      BY <2>1, <3>1 DEF ScoringIsCompleting
    <3>2. CASE call'[q] # call[q]
      <4>1. Check(q)
        <5>1. PICK r \in Calls : Begin(r) \/ CallStep(r) \/ Abort(r)
          BY <1>2, <3>2 DEF Next, Sweep, ListActive, ReleaseExpiredLocks, Tick
        <5>2. CASE Begin(r)
          BY <2>1, <3>2, <5>2 DEF Begin, TypeOK
        <5>3. CASE Done(r)
          BY <2>1, <3>2, <5>3, Ends
        <5>4. CASE SubmitScores(r)
          BY <2>1, <3>2, <5>4 DEF SubmitScores, TypeOK, CallRec
        <5>5. CASE Check(r)
          <6>1. \A p \in Calls : p # r => call'[p] = call[p]
            BY <2>1, <5>5 DEF Check, Done, TypeOK
          <6> QED
            BY <3>2, <5>5, <6>1
        <5> QED
          BY <5>1, <5>2, <5>3, <5>4, <5>5
          DEF CallStep, Abort, AddItems, ClaimNext, ClaimNothing, Finish,
              ReleaseLock, DeleteItem, UpdateQueue
      <4>2. ~Done(q)
        BY <2>1, Ends, <3>2
      <4>3. PICK next \in {"write"} \cup {s \in {"scores"} : call[q].op = "complete"} :
              call' = [call EXCEPT ![q].at = next]
        BY <4>1, <4>2 DEF Check
      <4>4. next \in {"scores", "write"} /\ call[q] # Idle /\ call[q] \in CallRec
        BY <2>1, <4>1, <4>3 DEF Check, TypeOK
      <4>5. call'[q].op = call[q].op
        BY <2>1, <4>3, <4>4, Moves
      <4>6. call'[q].at = next
        BY <2>1, <4>3, <4>4 DEF TypeOK, CallRec
      <4> QED
        BY <4>3, <4>5, <4>6
    <3> QED
      BY <3>1, <3>2
  <2>3. ScoresFollowCompletion'
    <3> SUFFICES ASSUME NEW i \in Items, NEW u \in scored'[i]
                 PROVE  status'[i] \in Finished \/ \E r \in Calls : Finishing(r, i, u)'
      BY DEF ScoresFollowCompletion, Finishing, Finished
    <3>1. CASE \E r \in Calls : Finishing(r, i, u)'
      BY <3>1
    <3>2. CASE u \in scored[i]
      <4>1. status[i] \in Finished \/ \E r \in Calls : Finishing(r, i, u)
        BY <3>2 DEF Scoring, ScoresFollowCompletion, Finishing, Finished
      <4>2. CASE status[i] \in Finished
        BY <1>2, <2>1, <4>2, StatusStep DEF Finished
      <4>3. CASE \E r \in Calls : Finishing(r, i, u)
        <5>1. u \in Users
          BY <2>1, <3>2 DEF TypeOK
        <5> QED
          BY <1>2, <2>1, <4>3, <5>1, FinishingStep
      <4> QED
        BY <4>1, <4>2, <4>3
    <3> QED
      BY <1>2, <2>1, <3>1, <3>2, ScoreStep
  <2> QED
    BY <2>1, <2>2, <2>3 DEF Scoring
<1> QED
  BY <1>1, <1>2

\* Where no call ends between the scores and the update, a completion that is
\* refused leaves no scores, however many users overtake each other.
THEOREM RefusedLeavesNoScores ==
    ASSUME "abort" \notin Env
    PROVE  Spec => []ScoresFollowCompletion
<1>1. Init => Scoring
  BY InitType DEF Init, Scoring, ScoringIsCompleting, ScoresFollowCompletion
<1>2. Scoring /\ [Next]_vars => Scoring'
  BY ScoringStep
<1>3. Scoring => ScoresFollowCompletion
  BY DEF Scoring
<1> QED
  BY <1>1, <1>2, <1>3, PTL DEF Spec

-----------------------------------------------------------------------------
(* The lease.                                                              *)

\* What the lease theorems assume of the clients and of the settings.
LeaseAssumption ==
    /\ "release" \notin Ops
    /\ "update" \notin Ops
    /\ 0 \notin Timeouts

\* The timeout is then the lock duration, and below the age that stands for
\* "long ago".
LEMMA PlainTimeout ==
    ASSUME LeaseAssumption, NEW q \in Queue
    PROVE  /\ LockDuration(q) = q.timeout
           /\ q.timeout \in Nat /\ 0 < q.timeout /\ q.timeout < MaxAge
<1>1. q.timeout \in Timeouts
  BY DEF Queue
<1>2. q.timeout \in Nat /\ q.timeout # 0 /\ q.timeout < MaxAge /\ MaxAge \in Nat
  BY <1>1, QueueAssumption DEF LeaseAssumption
<1> QED
  BY <1>2 DEF LockDuration

\* No call releases a lock or updates the queue.
LEMMA NoSuchCall ==
    ASSUME LeaseAssumption, TypeOK, NEW r \in Calls, call[r] # Idle
    PROVE  call[r].op # "release" /\ call[r].op # "update"
BY DEF LeaseAssumption, TypeOK, CallRec

LEMMA QueueKept ==
    ASSUME LeaseAssumption, TypeOK, Next
    PROVE  queue' = queue
<1>1. ASSUME NEW r \in Calls, UpdateQueue(r)
      PROVE  FALSE
  BY <1>1, NoSuchCall DEF UpdateQueue
<1> QED
  BY <1>1, Zenon DEF Next, Begin, CallStep, Abort, AddItems, ClaimNext, ClaimNothing,
              Check, SubmitScores, Finish, ReleaseLock, DeleteItem, Sweep,
              ListActive, ReleaseExpiredLocks, Tick

\* Every call works with the timeout the queue has.
LEMMA TimeoutStep ==
    ASSUME LeaseAssumption, TypeOK, TimeoutKnown, Next
    PROVE  TimeoutKnown'
<1>1. queue' = queue
  BY QueueKept
<1>2. ASSUME NEW q \in Calls, call'[q] # Idle
      PROVE  call'[q].queue.timeout = queue.timeout
  <2>1. CASE \E r \in Calls : Begin(r)
    <3>1. PICK r \in Calls, op \in Ops, u \in Users, i \in Items \cup {NoItem} :
            call' = [call EXCEPT ![r] =
              [at |-> "begun", op |-> op, user |-> u, item |-> i, queue |-> queue]]
      BY <2>1 DEF Begin
    <3> QED
      BY <3>1, <1>2 DEF TypeOK, TimeoutKnown
  <2>2. ASSUME NEW r \in Calls, Done(r)
        PROVE  call'[q].queue.timeout = queue.timeout
    BY <1>2, <2>2, Ends DEF TimeoutKnown
  <2>3. ASSUME NEW r \in Calls, Check(r), ~Done(r)
        PROVE  call'[q].queue.timeout = queue.timeout
    <3>1. PICK next \in {"scores", "write"} : call' = [call EXCEPT ![r].at = next]
      BY <2>3 DEF Check
    <3>2. call[r] # Idle
      BY <2>3 DEF Check
    <3>3. call'[q].queue = call[q].queue /\ call[q] # Idle
      BY <1>2, <3>1, <3>2, Moves
    <3> QED
      BY <3>3 DEF TimeoutKnown
  <2>4. ASSUME NEW r \in Calls, SubmitScores(r)
        PROVE  call'[q].queue.timeout = queue.timeout
    <3>1. call[r] # Idle /\ call' = [call EXCEPT ![r].at = "write"]
      BY <2>4 DEF SubmitScores
    <3>2. "write" \in {"scores", "write"}
      OBVIOUS
    <3>3. call'[q].queue = call[q].queue /\ call[q] # Idle
      BY <1>2, <3>1, <3>2, Moves, Zenon
    <3> QED
      BY <3>3 DEF TimeoutKnown
  <2>5. CASE Sweep \/ Tick
    BY <1>2, <2>5 DEF Sweep, ListActive, ReleaseExpiredLocks, Tick, TimeoutKnown
  <2> QED
    BY <2>1, <2>2, <2>3, <2>4, <2>5, Zenon
    DEF Next, CallStep, Abort, AddItems, ClaimNext, ClaimNothing, Finish,
        ReleaseLock, DeleteItem, UpdateQueue
<1> DEFINE Known(w) == w.at = "release" => w.timeout = LockDuration(queue)
<1>3. Known(sweep')
  <2>1. CASE Sweep
    <3>1. \/ sweep' = [at |-> "release", timeout |-> LockDuration(queue)]
          \/ sweep' = [at |-> "idle"]
      <4>1. CASE ListActive
        BY <4>1, Zenon DEF ListActive
      <4>2. CASE ReleaseExpiredLocks
        BY <4>2, Zenon DEF ReleaseExpiredLocks
      <4> QED
        BY <2>1, <4>1, <4>2, Zenon DEF Sweep
    <3>2. Known([at |-> "release", timeout |-> LockDuration(queue)]) /\ Known([at |-> "idle"])
      OBVIOUS
    <3> HIDE DEF Known
    <3> QED
      BY <3>1, <3>2
  <2>2. CASE ~Sweep
    <3>1. sweep' = sweep
      BY <2>2, Zenon DEF Next, Begin, CallStep, Abort, AddItems, ClaimNext,
                  ClaimNothing, Check, SubmitScores, Finish, ReleaseLock,
                  DeleteItem, UpdateQueue, Tick
    <3>2. Known(sweep)
      BY DEF TimeoutKnown
    <3> HIDE DEF Known
    <3> QED
      BY <3>1, <3>2
  <2> QED
    BY <2>1, <2>2
<1> QED
  BY <1>1, <1>2, <1>3 DEF TimeoutKnown, LockDuration

-----------------------------------------------------------------------------

\* How a running lease compares with the lock of its item: a claim of another
\* user does not find the lock expired, nor does the sweeper.
LEMMA LiveLock ==
    ASSUME LeaseAssumption, IInv, NEW u \in Users, NEW i \in Items,
           Live(u, i), status[i] = "pending"
    PROVE  /\ lockedBy[i] = u
           /\ lockAge[i] \in Ages /\ lockAge[i] # NoAge
           /\ lockAge[i] < queue.timeout
<1>1. lockedBy[i] = u /\ lockAge[i] <= grant[u][i]
  BY DEF IInv, LeaseIsLocked
<1>2. /\ grant[u][i] \in Ages /\ lockAge[i] \in Ages \cup {NoAge}
      /\ queue \in Queue
  BY DEF IInv, TypeOK
<1>3. /\ grant[u][i] < queue.timeout
      /\ queue.timeout \in Nat /\ queue.timeout < MaxAge
  BY <1>2, PlainTimeout DEF Live
<1> QED
  BY <1>1, <1>2, <1>3, QueueAssumption, SMT DEF Ages, NoAge

\* The part of the invariant that is about leases.
Leases == LeaseIsLocked /\ LeaseExclusive /\ InTimeIsAlone /\ OneAnnotatorInTime

\* A step that begins no lease, and neither finishes nor reopens an item,
\* keeps the leases.
LEMMA QuietStep ==
    ASSUME LeaseAssumption, IInv, queue' = queue,
           lockedBy' = lockedBy, lockAge' = lockAge, grant' = grant,
           inTime' = inTime,
           \A i \in Items : status'[i] # status[i] =>
               status[i] = "absent" \/ status'[i] = "deleted"
    PROVE  Leases'
<1>1. \A u \in Users, i \in Items : Live(u, i)' <=> Live(u, i)
  BY DEF Live, LockDuration
<1>2. LeaseIsLocked'
  BY <1>1 DEF IInv, LeaseIsLocked
<1>3. InTimeIsAlone'
  <2> SUFFICES ASSUME NEW i \in Items, NEW u \in inTime[i]
               PROVE  /\ status'[i] \in {"completed", "skipped", "deleted"}
                      /\ \A v \in Users : Live(v, i)' => v = u
    BY DEF InTimeIsAlone
  <2>1. /\ status[i] \in {"completed", "skipped", "deleted"}
        /\ \A v \in Users : Live(v, i) => v = u
    BY DEF IInv, InTimeIsAlone
  <2> QED
    BY <1>1, <2>1
<1>4. LeaseExclusive' /\ OneAnnotatorInTime'
  BY <1>1 DEF IInv, LeaseExclusive, OneAnnotatorInTime
<1> QED
  BY <1>2, <1>3, <1>4 DEF Leases

-----------------------------------------------------------------------------
(* The steps.                                                              *)

LEMMA ClaimStep ==
    ASSUME LeaseAssumption, IInv, NEW r \in Calls, ClaimNext(r)
    PROVE  Leases'
<1>1. PICK i \in Items :
        /\ Claimable(r, i)
        /\ lockedBy' = [lockedBy EXCEPT ![i] = call[r].user]
        /\ lockAge' = [lockAge EXCEPT ![i] = 0]
        /\ \/ grant' = [grant EXCEPT ![call[r].user][i] = 0]
           \/ UNCHANGED grant
  BY DEF ClaimNext
<1>2. PICK u \in Users : u = call[r].user
  BY DEF ClaimNext, IInv, TypeOK, CallRec
<1>3. /\ queue' = queue /\ status' = status /\ inTime' = inTime
      /\ status[i] = "pending"
      /\ call[r].queue.timeout = queue.timeout
  BY <1>1 DEF ClaimNext, Claimable, IInv, TimeoutKnown
<1>4. queue.timeout \in Nat /\ 0 < queue.timeout
  BY PlainTimeout DEF IInv, TypeOK
<1>5. \A v \in Users : Live(v, i) => v = u
  <2> SUFFICES ASSUME NEW v \in Users, Live(v, i) PROVE v = u
    OBVIOUS
  <2>1. /\ lockedBy[i] = v /\ lockAge[i] \in Ages /\ lockAge[i] # NoAge
        /\ lockAge[i] < queue.timeout
    BY <1>3, LiveLock
  <2>2. ~Expired(i, queue.timeout)
    BY <1>4, <2>1, QueueAssumption DEF Expired, Ages
  <2> QED
    BY <1>1, <1>2, <1>3, <2>1, <2>2 DEF Claimable
<1>6. \A v \in Users, j \in Items :
        /\ (v = u /\ j = i) \/ grant'[v][j] = grant[v][j]
        /\ v = u /\ j = i /\ grant'[v][j] # grant[v][j] => grant'[v][j] = 0
  BY <1>1, <1>2 DEF IInv, TypeOK
<1>7. \A v \in Users, j \in Items :
        Live(v, j)' => Live(v, j) \/ (v = u /\ j = i /\ grant'[v][j] = 0)
  BY <1>3, <1>6 DEF Live, LockDuration
<1>8. LeaseIsLocked'
  <2> SUFFICES ASSUME NEW v \in Users, NEW j \in Items, Live(v, j)'
               PROVE  \/ status'[j] \in {"completed", "skipped", "deleted"}
                      \/ status'[j] = "pending" /\ lockedBy'[j] = v
                         /\ lockAge'[j] <= grant'[v][j]
    BY DEF LeaseIsLocked
  <2>1. CASE j = i
    <3>1. v = u
      BY <1>5, <1>7, <2>1
    <3>2. lockedBy'[j] = u /\ lockAge'[j] = 0
      BY <1>1, <1>2, <2>1 DEF IInv, TypeOK
    <3>3. grant'[v][j] \in Nat
      BY <1>6, <2>1, <3>1, QueueAssumption DEF IInv, TypeOK, Ages
    <3> QED
      BY <1>3, <2>1, <3>1, <3>2, <3>3
  <2>2. CASE j # i
    <3>1. Live(v, j) /\ grant'[v][j] = grant[v][j]
      BY <1>6, <1>7, <2>2
    <3>2. lockedBy'[j] = lockedBy[j] /\ lockAge'[j] = lockAge[j]
      BY <1>1, <2>2 DEF IInv, TypeOK
    <3> QED
      BY <1>3, <3>1, <3>2 DEF IInv, LeaseIsLocked
  <2> QED
    BY <2>1, <2>2
<1>9. LeaseExclusive'
  BY <1>5, <1>7 DEF IInv, LeaseExclusive
<1>10. InTimeIsAlone'
  <2> SUFFICES ASSUME NEW j \in Items, NEW w \in inTime[j]
               PROVE  /\ status[j] \in {"completed", "skipped", "deleted"}
                      /\ \A v \in Users : Live(v, j)' => v = w
    BY <1>3 DEF InTimeIsAlone
  <2>1. /\ status[j] \in {"completed", "skipped", "deleted"}
        /\ \A v \in Users : Live(v, j) => v = w
    BY DEF IInv, InTimeIsAlone
  <2>2. j # i
    BY <1>3, <2>1
  <2> QED
    BY <1>7, <2>1, <2>2
<1>11. OneAnnotatorInTime'
  BY <1>3 DEF IInv, OneAnnotatorInTime
<1> QED
  BY <1>8, <1>9, <1>10, <1>11 DEF Leases

LEMMA FinishStep ==
    ASSUME LeaseAssumption, IInv, NEW r \in Calls, Finish(r)
    PROVE  Leases'
<1>1. PICK i \in Items, u \in Users : i = call[r].item /\ u = call[r].user
  <2>1. /\ call[r] \in CallRec
        /\ call[r].item = NoItem => call[r].op \in {"add", "claim", "update"}
    BY DEF Finish, IInv, TypeOK
  <2> QED
    BY <2>1 DEF Finish, CallRec
<1>2. CASE status[i] = "deleted"
  BY <1>1, <1>2, QuietStep DEF Finish, history
<1>3. CASE status[i] # "deleted"
  <2>1. /\ queue' = queue /\ lockedBy' = lockedBy /\ lockAge' = lockAge
        /\ \E s \in {"completed", "skipped"} : status' = [status EXCEPT ![i] = s]
        /\ inTime' = [inTime EXCEPT ![i] = IF Live(u, i) THEN @ \cup {u} ELSE @]
        /\ grant' = [grant EXCEPT ![u][i] = MaxAge] \/ UNCHANGED grant
    BY <1>1, <1>3 DEF Finish
  <2>2. status'[i] \in {"completed", "skipped"}
    BY <2>1 DEF IInv, TypeOK
  <2>3. \A j \in Items : j # i => status'[j] = status[j] /\ inTime'[j] = inTime[j]
    BY <2>1 DEF IInv, TypeOK
  <2>4. \A v \in Users, j \in Items :
          \/ grant'[v][j] = grant[v][j]
          \/ v = u /\ j = i /\ grant'[v][j] = MaxAge
    BY <2>1 DEF IInv, TypeOK
  <2>5. \A v \in Users, j \in Items :
          Live(v, j)' => Live(v, j) /\ grant'[v][j] = grant[v][j]
    <3>1. /\ LockDuration(queue) \in Nat /\ LockDuration(queue) < MaxAge
          /\ LockDuration(queue') = LockDuration(queue)
      BY <2>1, PlainTimeout DEF IInv, TypeOK
    <3>2. ~(MaxAge < LockDuration(queue))
      BY <3>1, QueueAssumption
    <3> QED
      BY <2>4, <3>1, <3>2 DEF Live
  <2>6. LeaseIsLocked'
    <3> SUFFICES ASSUME NEW v \in Users, NEW j \in Items, Live(v, j)', j # i
                 PROVE  \/ status'[j] \in {"completed", "skipped", "deleted"}
                        \/ status'[j] = "pending" /\ lockedBy'[j] = v
                           /\ lockAge'[j] <= grant'[v][j]
      BY <2>2 DEF LeaseIsLocked
    <3> QED
      BY <2>1, <2>3, <2>5 DEF IInv, LeaseIsLocked
  <2>7. LeaseExclusive'
    BY <2>5 DEF IInv, LeaseExclusive
  <2>8. \A w \in inTime'[i] : w \in inTime[i] \/ (w = u /\ Live(u, i))
    BY <2>1 DEF IInv, TypeOK
  <2>9. \A w \in inTime'[i], v \in Users : Live(v, i) => v = w
    <3>1. u \in Users /\ i \in Items
      OBVIOUS
    <3>2. \A w \in inTime[i], v \in Users : Live(v, i) => v = w
      BY DEF IInv, InTimeIsAlone
    <3>3. \A v \in Users : Live(v, i) /\ Live(u, i) => v = u
      BY DEF IInv, LeaseExclusive
    <3> QED
      BY <2>8, <3>2, <3>3
  <2>10. InTimeIsAlone'
    BY <2>2, <2>3, <2>5, <2>9 DEF IInv, InTimeIsAlone
  <2>11. OneAnnotatorInTime'
    <3>1. \A w, x \in inTime'[i] : w = x
      <4>1. \A w, x \in inTime[i] : w = x
        BY DEF IInv, OneAnnotatorInTime
      <4>2. Live(u, i) => \A w \in inTime[i] : w = u
        BY DEF IInv, InTimeIsAlone
      <4> QED
        BY <2>8, <4>1, <4>2
    <3> QED
      BY <2>3, <3>1 DEF IInv, OneAnnotatorInTime
  <2> QED
    BY <2>6, <2>7, <2>10, <2>11 DEF Leases
<1> QED
  BY <1>2, <1>3

LEMMA ReleaseStep ==
    ASSUME LeaseAssumption, IInv, ReleaseExpiredLocks
    PROVE  Leases'
<1>1. /\ queue' = queue /\ status' = status /\ grant' = grant /\ inTime' = inTime
      /\ sweep.timeout = queue.timeout
  <2>1. sweep.timeout = LockDuration(queue) /\ queue \in Queue
    BY DEF ReleaseExpiredLocks, IInv, TimeoutKnown, TypeOK
  <2> QED
    BY <2>1, PlainTimeout DEF ReleaseExpiredLocks, history
<1>2. \A u \in Users, i \in Items : Live(u, i)' <=> Live(u, i)
  BY <1>1 DEF Live, LockDuration
<1>3. LeaseIsLocked'
  <2> SUFFICES ASSUME NEW u \in Users, NEW i \in Items, Live(u, i),
                      status[i] = "pending"
               PROVE  lockedBy'[i] = u /\ lockAge'[i] <= grant[u][i]
    BY <1>1, <1>2 DEF IInv, LeaseIsLocked
  <2>1. /\ lockAge[i] \in Ages /\ lockAge[i] < queue.timeout
        /\ lockedBy[i] = u /\ lockAge[i] <= grant[u][i]
    BY LiveLock DEF IInv, LeaseIsLocked
  <2>2. queue.timeout \in Nat
    BY PlainTimeout DEF IInv, TypeOK
  <2>3. ~Swept(i)
    BY <1>1, <2>1, <2>2, QueueAssumption DEF Swept, Expired, Ages
  <2>4. lockedBy'[i] = lockedBy[i] /\ lockAge'[i] = lockAge[i]
    BY <2>3 DEF ReleaseExpiredLocks, IInv, TypeOK
  <2> QED
    BY <2>1, <2>4
<1>4. LeaseExclusive' /\ OneAnnotatorInTime' /\ InTimeIsAlone'
  BY <1>1, <1>2
  DEF IInv, LeaseExclusive, OneAnnotatorInTime, InTimeIsAlone
<1> QED
  BY <1>3, <1>4 DEF Leases

LEMMA TickStep ==
    ASSUME LeaseAssumption, IInv, Tick
    PROVE  Leases'
<1>1. /\ queue' = queue /\ status' = status /\ lockedBy' = lockedBy
      /\ inTime' = inTime
      /\ \A i \in Items : lockAge'[i] = Older(lockAge[i])
      /\ \A u \in Users, i \in Items : grant'[u][i] = Older(grant[u][i])
  BY DEF Tick
<1>2. /\ LockDuration(queue) = queue.timeout /\ queue.timeout \in Nat
      /\ \A u \in Users, i \in Items : grant[u][i] \in Ages
  BY PlainTimeout DEF IInv, TypeOK
<1>3. \A u \in Users, i \in Items : Live(u, i)' => Live(u, i)
  <2> SUFFICES ASSUME NEW u \in Users, NEW i \in Items, Live(u, i)'
               PROVE  Live(u, i)
    OBVIOUS
  <2>1. Older(grant[u][i]) < queue.timeout
    BY <1>1, <1>2 DEF Live, LockDuration
  <2>2. /\ grant[u][i] <= Older(grant[u][i])
        /\ grant[u][i] \in Nat /\ Older(grant[u][i]) \in Nat
    BY <1>2, OlderAge, QueueAssumption DEF Ages
  <2> QED
    BY <1>2, <2>1, <2>2 DEF Live
<1>4. LeaseIsLocked'
  <2> SUFFICES ASSUME NEW u \in Users, NEW i \in Items, Live(u, i),
                      status[i] = "pending"
               PROVE  lockedBy[i] = u /\ Older(lockAge[i]) <= Older(grant[u][i])
    BY <1>1, <1>3 DEF IInv, LeaseIsLocked
  <2>1. /\ lockAge[i] \in Ages /\ lockedBy[i] = u
        /\ lockAge[i] <= grant[u][i]
    BY LiveLock DEF IInv, LeaseIsLocked
  <2> QED
    BY <1>2, <2>1, OlderAge
<1>5. LeaseExclusive' /\ OneAnnotatorInTime' /\ InTimeIsAlone'
  BY <1>1, <1>3 DEF IInv, LeaseExclusive, OneAnnotatorInTime, InTimeIsAlone
<1> QED
  BY <1>4, <1>5 DEF Leases

LEMMA LeaseStep == LeaseAssumption /\ IInv /\ [Next]_vars => IInv'
<1> SUFFICES ASSUME LeaseAssumption, IInv, [Next]_vars PROVE IInv'
  OBVIOUS
<1>1. CASE UNCHANGED vars
  BY <1>1 DEF vars, IInv, TypeOK, TimeoutKnown, LeaseIsLocked, LeaseExclusive,
              InTimeIsAlone, OneAnnotatorInTime, Live, LockDuration
<1>2. CASE Next
  <2>1. TypeOK' /\ TimeoutKnown' /\ queue' = queue
    BY <1>2, TypeStep, TimeoutStep, QueueKept DEF IInv
  <2>2. Leases'
    <3>1. ASSUME NEW r \in Calls, ReleaseLock(r) \/ UpdateQueue(r)
          PROVE  FALSE
      BY <3>1, NoSuchCall DEF IInv, ReleaseLock, UpdateQueue
    <3>2. ASSUME NEW r \in Calls,
                 \/ Begin(r) \/ Abort(r) \/ ClaimNothing(r) \/ Check(r)
                 \/ SubmitScores(r)
          PROVE  Leases'
      BY <2>1, <3>2, QuietStep
      DEF Begin, Abort, ClaimNothing, Check, SubmitScores, itemVars, history
    <3>3. ASSUME NEW r \in Calls, AddItems(r) \/ DeleteItem(r)
          PROVE  Leases'
      <4>1. \A i \in Items : status'[i] # status[i] =>
                status[i] = "absent" \/ status'[i] = "deleted"
        BY <3>3 DEF AddItems, DeleteItem, IInv, TypeOK
      <4> QED
        BY <2>1, <3>3, <4>1, QuietStep DEF AddItems, DeleteItem, history
    <3>4. CASE ListActive
      BY <2>1, <3>4, QuietStep DEF ListActive, itemVars, history
    <3> QED
      BY <1>2, <3>1, <3>2, <3>3, <3>4, ClaimStep, FinishStep, ReleaseStep, TickStep
      DEF Next, CallStep, Sweep
  <2> QED
    BY <2>1, <2>2 DEF Leases, IInv
<1> QED
  BY <1>1, <1>2

LEMMA LeaseInit == LeaseAssumption /\ Init => IInv
<1> SUFFICES ASSUME LeaseAssumption, Init PROVE IInv
  OBVIOUS
<1>1. TypeOK
  BY InitType
<1>2. \A u \in Users, i \in Items : ~Live(u, i)
  <2>1. LockDuration(queue) \in Nat /\ LockDuration(queue) < MaxAge
    BY <1>1, PlainTimeout DEF TypeOK
  <2>2. \A u \in Users, i \in Items : grant[u][i] = MaxAge
    BY DEF Init
  <2> QED
    BY <2>1, <2>2, QueueAssumption DEF Live
<1>3. TimeoutKnown
  BY DEF Init, TimeoutKnown
<1>4. LeaseIsLocked /\ LeaseExclusive /\ InTimeIsAlone /\ OneAnnotatorInTime
  BY <1>2 DEF Init, LeaseIsLocked, LeaseExclusive, InTimeIsAlone, OneAnnotatorInTime
<1> QED
  BY <1>1, <1>3, <1>4 DEF IInv

\* The inductive invariant of the lease.
THEOREM LeaseInvariant ==
    ASSUME LeaseAssumption
    PROVE  Spec => []IInv
<1>1. Init => IInv
  BY LeaseInit
<1>2. IInv /\ [Next]_vars => IInv'
  BY LeaseStep
<1> QED
  BY <1>1, <1>2, PTL DEF Spec

\* Two users never hold a running lease on the same item.
THEOREM LeaseSafe ==
    ASSUME LeaseAssumption
    PROVE  Spec => []LeaseExclusive
<1>1. IInv => LeaseExclusive
  BY DEF IInv
<1> QED
  BY <1>1, LeaseInvariant, PTL

\* Of the users who finish one item, at most one does so while it is theirs.
THEOREM FinishedInTimeByOne ==
    ASSUME LeaseAssumption
    PROVE  Spec => []OneAnnotatorInTime
<1>1. IInv => OneAnnotatorInTime
  BY DEF IInv
<1> QED
  BY <1>1, LeaseInvariant, PTL

-----------------------------------------------------------------------------
(* The annotation queue implements Lease, under the conditions of the      *)
(* lease theorems.  The mapping: an item is lent to those whose lease on it*)
(* runs, and finished by those who did so in time.  A claim whose answer   *)
(* arrives lends, a completion or a skip on a running lease finishes, time *)
(* lets leases lapse, and every other step of a call or of the sweeper is a*)
(* stutter: whatever it does to the row, it neither gives nor ends a lease.*)

Tenants == [i \in Items |-> {u \in Users : Live(u, i)}]

AbstractStep == [Lending!Next]_<<Tenants, inTime>>

\* Leases are read off the timeout and the grants alone.
LEMMA NothingGranted ==
    ASSUME queue' = queue, grant' = grant, inTime' = inTime
    PROVE  AbstractStep
<1>1. Tenants' = Tenants
  BY DEF Tenants, Live, LockDuration
<1> QED
  BY <1>1 DEF AbstractStep

\* By the lease an item has one tenant at most.
LEMMA OneTenant ==
    ASSUME IInv, NEW i \in Items, NEW u \in Users, Live(u, i)
    PROVE  Tenants[i] = {u}
BY DEF IInv, LeaseExclusive, Tenants

\* A claim lends the item, or nobody hears of it.
LEMMA ClaimLends ==
    ASSUME LeaseAssumption, IInv, IInv', NEW r \in Calls, ClaimNext(r)
    PROVE  AbstractStep
<1>1. PICK i \in Items :
        /\ Claimable(r, i)
        /\ \/ grant' = [grant EXCEPT ![call[r].user][i] = 0]
           \/ UNCHANGED grant
  BY DEF ClaimNext
<1>2. PICK u \in Users : u = call[r].user
  BY DEF ClaimNext, IInv, TypeOK, CallRec
<1>3. /\ queue' = queue /\ status' = status /\ inTime' = inTime
      /\ status[i] = "pending"
      /\ call[r].queue.timeout = queue.timeout
  BY <1>1 DEF ClaimNext, Claimable, IInv, TimeoutKnown
<1>4. CASE UNCHANGED grant
  BY <1>3, <1>4, NothingGranted
<1>5. CASE grant' = [grant EXCEPT ![u][i] = 0]
  <2>1. /\ grant'[u][i] = 0
        /\ \A v \in Users, j \in Items : v # u \/ j # i => grant'[v][j] = grant[v][j]
    BY <1>5 DEF IInv, TypeOK
  <2>2. /\ Live(u, i)'
        /\ \A v \in Users, j \in Items : v # u \/ j # i => (Live(v, j)' <=> Live(v, j))
    <3>1. 0 < LockDuration(queue) /\ LockDuration(queue)' = LockDuration(queue)
      BY <1>3, PlainTimeout DEF IInv, TypeOK, LockDuration
    <3> QED
      BY <2>1, <3>1 DEF Live
  <2>3. Tenants[i] \subseteq {u}
    <3> SUFFICES ASSUME NEW v \in Users, Live(v, i) PROVE v = u
      BY DEF Tenants
    <3>1. /\ lockedBy[i] = v /\ lockAge[i] \in Ages /\ lockAge[i] # NoAge
          /\ lockAge[i] < queue.timeout
      BY <1>3, LiveLock
    <3>2. queue.timeout \in Nat
      BY PlainTimeout DEF IInv, TypeOK
    <3>3. ~Expired(i, queue.timeout)
      BY <3>1, <3>2, QueueAssumption DEF Expired, Ages
    <3> QED
      BY <1>1, <1>2, <1>3, <3>1, <3>3 DEF Claimable
  <2>4. inTime[i] = {}
    BY <1>3 DEF IInv, InTimeIsAlone, TypeOK
  <2>5. Tenants'[i] = {u}
    BY <2>2, OneTenant DEF IInv, LeaseExclusive, Tenants
  <2>6. \A j \in Items : j # i => Tenants'[j] = Tenants[j]
    BY <2>2 DEF Tenants
  <2>7. Tenants' = [Tenants EXCEPT ![i] = {u}]
    BY <2>5, <2>6 DEF Tenants
  <2>8. Lending!Lend(u, i)
    BY <1>3, <2>3, <2>4, <2>7 DEF Lending!Lend, Tenants
  <2> QED
    BY <2>8 DEF AbstractStep, Lending!Next
<1> QED
  BY <1>1, <1>2, <1>4, <1>5

\* A completion or a skip finishes the item for a tenant, and for anybody else
\* changes nothing that a lease is about.
LEMMA FinishFinishes ==
    ASSUME LeaseAssumption, IInv, NEW r \in Calls, Finish(r)
    PROVE  AbstractStep
<1>1. PICK i \in Items, u \in Users : i = call[r].item /\ u = call[r].user
  <2>1. /\ call[r] \in CallRec
        /\ call[r].item = NoItem => call[r].op \in {"add", "claim", "update"}
    BY DEF Finish, IInv, TypeOK
  <2> QED
    BY <2>1 DEF Finish, CallRec
<1>2. CASE status[i] = "deleted"
  BY <1>1, <1>2, NothingGranted DEF Finish, history
<1>3. CASE status[i] # "deleted"
  <2>1. /\ queue' = queue
        /\ inTime' = [inTime EXCEPT ![i] = IF Live(u, i) THEN @ \cup {u} ELSE @]
        /\ grant' = [grant EXCEPT ![u][i] = MaxAge] \/ UNCHANGED grant
    BY <1>1, <1>3 DEF Finish
  <2>2. /\ \A v \in Users, j \in Items : v # u \/ j # i => (Live(v, j)' <=> Live(v, j))
        /\ Live(u, i)' => Live(u, i)
    <3>1. /\ LockDuration(queue) < MaxAge /\ LockDuration(queue) \in Nat
          /\ LockDuration(queue') = LockDuration(queue)
      BY <2>1, PlainTimeout DEF IInv, TypeOK
    <3>2. ~(MaxAge < LockDuration(queue))
      BY <3>1, QueueAssumption
    <3>3. \A v \in Users, j \in Items :
            \/ grant'[v][j] = grant[v][j]
            \/ v = u /\ j = i /\ grant'[v][j] = MaxAge
      BY <2>1 DEF IInv, TypeOK
    <3> QED
      BY <3>1, <3>2, <3>3 DEF Live
  <2>3. CASE Live(u, i)
    <3>1. Tenants[i] = {u} /\ inTime[i] \subseteq {u}
      BY <2>3, OneTenant DEF IInv, InTimeIsAlone, TypeOK
    <3>2. inTime' = [inTime EXCEPT ![i] = {u}]
      BY <2>1, <2>3, <3>1 DEF IInv, TypeOK
    <3>3. \A j \in Items : j # i => Tenants'[j] = Tenants[j]
      BY <2>2 DEF Tenants
    <3>4. Tenants'[i] = {u} \/ Tenants'[i] = {}
      <4>1. \A v \in Users : Live(v, i)' => v = u
        BY <2>2, <2>3 DEF IInv, LeaseExclusive
      <4> QED
        BY <4>1 DEF Tenants
    <3>5. Tenants' \in {Tenants, [Tenants EXCEPT ![i] = {}]}
      BY <3>1, <3>3, <3>4 DEF Tenants
    <3>6. Lending!Finish(u, i)
      BY <3>1, <3>2, <3>5 DEF Lending!Finish, Tenants
    <3> QED
      BY <3>6 DEF AbstractStep, Lending!Next
  <2>4. CASE ~Live(u, i)
    <3>1. Tenants' = Tenants
      BY <2>2, <2>4 DEF Tenants
    <3>2. inTime' = inTime
      BY <2>1, <2>4 DEF IInv, TypeOK
    <3> QED
      BY <3>1, <3>2 DEF AbstractStep
  <2> QED
    BY <2>3, <2>4
<1> QED
  BY <1>2, <1>3

\* Leases end with time, and none begins.
LEMMA TickLapses ==
    ASSUME LeaseAssumption, IInv, Tick
    PROVE  AbstractStep
<1>1. /\ queue' = queue /\ inTime' = inTime
      /\ \A u \in Users, i \in Items : grant'[u][i] = Older(grant[u][i])
  BY DEF Tick
<1>2. /\ LockDuration(queue) \in Nat /\ LockDuration(queue)' = LockDuration(queue)
      /\ \A u \in Users, i \in Items : grant[u][i] \in Ages
  BY <1>1, PlainTimeout DEF IInv, TypeOK, LockDuration
<1>3. \A u \in Users, i \in Items : Live(u, i)' => Live(u, i)
  <2> SUFFICES ASSUME NEW u \in Users, NEW i \in Items, Live(u, i)'
               PROVE  Live(u, i)
    OBVIOUS
  <2>1. Older(grant[u][i]) < LockDuration(queue)
    BY <1>1, <1>2 DEF Live
  <2>2. /\ grant[u][i] <= Older(grant[u][i])
        /\ grant[u][i] \in Nat /\ Older(grant[u][i]) \in Nat
    BY <1>2, OlderAge, QueueAssumption DEF Ages
  <2> QED
    BY <1>2, <2>1, <2>2 DEF Live
<1>4. PICK S \in SUBSET Items : S = {i \in Items : \A u \in Users : ~Live(u, i)'}
  OBVIOUS
<1>5. ASSUME NEW i \in Items
      PROVE  Tenants'[i] = IF i \in S THEN {} ELSE Tenants[i]
  <2>1. CASE i \in S
    BY <1>4, <2>1 DEF Tenants
  <2>2. CASE i \notin S
    <3>1. PICK u \in Users : Live(u, i)'
      BY <1>4, <2>2
    <3>2. Tenants[i] = {u}
      BY <1>3, <3>1, OneTenant
    <3>3. Tenants'[i] = {u}
      BY <1>3, <3>1, <3>2 DEF Tenants
    <3> QED
      BY <2>2, <3>2, <3>3
  <2> QED
    BY <2>1, <2>2
<1>6. Tenants' = [i \in Items |-> IF i \in S THEN {} ELSE Tenants[i]]
  BY <1>5 DEF Tenants
<1>7. Lending!Lapse
  BY <1>1, <1>6 DEF Lending!Lapse, Tenants
<1> QED
  BY <1>7 DEF AbstractStep, Lending!Next

-----------------------------------------------------------------------------

LEMMA StepRefines ==
    LeaseAssumption /\ IInv /\ IInv' /\ [Next]_vars => AbstractStep
<1> SUFFICES ASSUME LeaseAssumption, IInv, IInv', [Next]_vars
             PROVE  AbstractStep
  OBVIOUS
<1>1. CASE UNCHANGED vars
  BY <1>1, NothingGranted DEF vars
<1>2. CASE Next
  <2>1. queue' = queue
    BY <1>2, QueueKept DEF IInv
  <2>2. ASSUME NEW r \in Calls, ReleaseLock(r) \/ UpdateQueue(r)
        PROVE  FALSE
    BY <2>2, NoSuchCall DEF IInv, ReleaseLock, UpdateQueue
  <2>3. ASSUME NEW r \in Calls,
               \/ Begin(r) \/ Abort(r) \/ AddItems(r) \/ ClaimNothing(r)
               \/ Check(r) \/ SubmitScores(r) \/ DeleteItem(r)
        PROVE  AbstractStep
    BY <2>1, <2>3, NothingGranted
    DEF Begin, Abort, AddItems, ClaimNothing, Check, SubmitScores, DeleteItem, history
  <2>4. CASE Sweep
    BY <2>1, <2>4, NothingGranted DEF Sweep, ListActive, ReleaseExpiredLocks, history
  <2> QED
    BY <1>2, <2>2, <2>3, <2>4, ClaimLends, FinishFinishes, TickLapses
    DEF Next, CallStep
<1> QED
  BY <1>1, <1>2

LEMMA InitRefines == LeaseAssumption /\ Init => Lending!Init
<1> SUFFICES ASSUME LeaseAssumption, Init PROVE Lending!Init
  OBVIOUS
<1>1. LockDuration(queue) \in Nat /\ LockDuration(queue) < MaxAge
  BY InitType, PlainTimeout DEF TypeOK
<1>2. \A u \in Users, i \in Items : ~Live(u, i)
  BY <1>1, QueueAssumption DEF Init, Live
<1>3. inTime = [i \in Items |-> {}]
  BY DEF Init
<1> QED
  BY <1>2, <1>3 DEF Lending!Init

\* The queue implements Lease: an item is lent to one user at a time, whoever
\* finishes it on a lease has finished it for good, and it is lent to nobody
\* any more, through overtaking calls, lost replies, errors and the sweeper.
THEOREM QueueImplementsLease ==
    ASSUME LeaseAssumption
    PROVE  Spec => ImplementsLease
<1>1. Init => Lending!Init
  BY InitRefines
<1>2. IInv /\ IInv' /\ [Next]_vars
        => [Lending!Next]_<<[i \in Items |-> {u \in Users : Live(u, i)}], inTime>>
  BY StepRefines DEF AbstractStep, Tenants
<1> QED
  BY <1>1, <1>2, LeaseInvariant, PTL DEF Spec, ImplementsLease, Lending!Spec
=============================================================================

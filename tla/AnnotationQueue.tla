--------------------------- MODULE AnnotationQueue ---------------------------
(***************************************************************************)
(* One annotation queue for human review: the calls of ItemService and     *)
(* QueueService (add, claim, complete, skip, release, delete, update) and  *)
(* the LockExpiryWorker, on the rows of annotation_queue_items.            *)
(*                                                                         *)
(* A service call is not a transaction: it reads the queue, reads the item,*)
(* checks what it read, and updates the row by its id alone.  A call is a  *)
(* process that can be overtaken between any two of these.  Only the       *)
(* SELECT ... FOR UPDATE SKIP LOCKED and the UPDATE of a claim are one     *)
(* transaction.                                                            *)
(*                                                                         *)
(* Time is the age of a lock, counted by Tick up to MaxAge, a bound above  *)
(* every timeout: all ages from MaxAge on are equally expired.  An item    *)
(* stands for a row id: a deleted id never comes back.  Clients exclude    *)
(* items of their choice from a claim and SKIP LOCKED passes over rows in  *)
(* use, so a claim may return any claimable item, whatever its priority.   *)
(***************************************************************************)
EXTENDS Naturals

CONSTANTS
    Users, NoUser,
    Items, NoItem,
    Calls,           \* service calls that may be in flight at the same time
    Ops,             \* operations the clients use
    Timeouts,        \* values of settings.lock_timeout_seconds
    DefaultTimeout,  \* DefaultLockTimeoutSeconds
    MaxAge,          \* bound: ages from here on are not told apart
    Env              \* "abort", "reply_lost", "score_error" that may happen

Operations == {"add", "claim", "complete", "skip", "release", "delete", "update"}

ASSUME QueueAssumption ==
    /\ NoUser \notin Users
    /\ NoItem \notin Items
    /\ Ops \subseteq Operations
    /\ Timeouts \subseteq Nat
    /\ DefaultTimeout \in Nat \ {0}
    /\ MaxAge \in Nat
    /\ \A t \in Timeouts \cup {DefaultTimeout} : t < MaxAge

QueueStatus == {"active", "paused", "archived"}
ItemStatus  == {"pending", "completed", "skipped"}

Ages  == 0 .. MaxAge
NoAge == MaxAge + 1     \* locked_at IS NULL

Queue == [status : QueueStatus, timeout : Timeouts]

VARIABLES
    queue,      \* status and lock timeout of the queue
    status,     \* status of every item, "absent" before it was added
    lockedBy,   \* locked_by_user_id
    lockAge,    \* time since locked_at
    annotator,  \* annotator_user_id
    scored,     \* users whose scores for the item are in ClickHouse
    call,       \* the service calls in flight
    sweep,      \* LockExpiryWorker: the timeout of the queue it is to sweep
    grant,      \* history: time since a user was last given an item
    inTime      \* history: users who finished an item while it was theirs

vars == <<queue, status, lockedBy, lockAge, annotator, scored, call, sweep,
          grant, inTime>>
itemVars == <<status, lockedBy, lockAge, annotator, scored>>
history  == <<grant, inTime>>

\* GetLockDuration.
LockDuration(q) == IF q.timeout = 0 THEN DefaultTimeout ELSE q.timeout

CallRec == [at : {"begun", "scores", "write"}, op : Ops, user : Users,
            item : Items \cup {NoItem}, queue : Queue]
Idle == [at |-> "idle"]

TypeOK ==
    /\ queue \in Queue
    /\ status \in [Items -> ItemStatus \cup {"absent", "deleted"}]
    /\ lockedBy \in [Items -> Users \cup {NoUser}]
    /\ lockAge \in [Items -> Ages \cup {NoAge}]
    /\ annotator \in [Items -> Users \cup {NoUser}]
    /\ scored \in [Items -> SUBSET Users]
    /\ call \in [Calls -> CallRec \cup {Idle}]
    /\ \A r \in Calls : call[r] # Idle =>
         (call[r].item = NoItem <=> call[r].op \in {"add", "claim", "update"})
    /\ sweep \in {[at |-> "idle"]} \cup [at : {"release"}, timeout : Nat]
    /\ grant \in [Users -> [Items -> Ages]]
    /\ inTime \in [Items -> SUBSET Users]

Init ==
    /\ queue \in [status : {"active"}, timeout : Timeouts]
    /\ status = [i \in Items |-> "absent"]
    /\ lockedBy = [i \in Items |-> NoUser]
    /\ lockAge = [i \in Items |-> NoAge]
    /\ annotator = [i \in Items |-> NoUser]
    /\ scored = [i \in Items |-> {}]
    /\ call = [r \in Calls |-> Idle]
    /\ sweep = [at |-> "idle"]
    /\ grant = [u \in Users |-> [i \in Items |-> MaxAge]]
    /\ inTime = [i \in Items |-> {}]

-----------------------------------------------------------------------------
(* The lock of an item, as the domain entity sees it.                      *)

IsLocked(i, timeout) == lockAge[i] # NoAge /\ lockAge[i] < timeout
IsLockedBy(i, u, timeout) == IsLocked(i, timeout) /\ lockedBy[i] = u

\* locked_at < now - timeout, false of NULL.
Expired(i, timeout) == lockAge[i] # NoAge /\ lockAge[i] > timeout

Done(r) == call' = [call EXCEPT ![r] = Idle]

\* A user was told an item is theirs, less than the lock duration ago.
Live(u, i) == grant[u][i] < LockDuration(queue)

-----------------------------------------------------------------------------
(* The calls.                                                              *)

\* queueRepo.GetByID: what the rest of the call knows of the queue.
Begin(r) ==
    /\ call[r] = Idle
    /\ \E op \in Ops, u \in Users, i \in Items \cup {NoItem} :
         /\ i = NoItem <=> op \in {"add", "claim", "update"}
         /\ i # NoItem => status[i] # "absent"
         /\ call' = [call EXCEPT ![r] =
              [at |-> "begun", op |-> op, user |-> u, item |-> i, queue |-> queue]]
    /\ UNCHANGED <<queue, itemVars, sweep, history>>

\* A database error or a crash ends the call before its next step.
Abort(r) ==
    /\ "abort" \in Env
    /\ call[r] # Idle
    /\ Done(r)
    /\ UNCHANGED <<queue, itemVars, sweep, history>>

\* INSERT ... ON CONFLICT DO NOTHING of a batch, unless the queue is archived.
AddItems(r) ==
    /\ call[r] # Idle /\ call[r].op = "add"
    /\ IF call[r].queue.status = "archived" THEN UNCHANGED status
       ELSE \E S \in SUBSET Items :
              status' = [i \in Items |-> IF i \in S /\ status[i] = "absent"
                                         THEN "pending" ELSE status[i]]
    /\ Done(r)
    /\ UNCHANGED <<queue, lockedBy, lockAge, annotator, scored, sweep, history>>

\* Mutant: FetchAndLockNext without the condition on the lock.
AnyPending(r, i) == status[i] = "pending"

\* Mutant: FetchAndLockNext without the condition on the status.
AnyStatus(r, i) ==
    /\ status[i] \in ItemStatus
    /\ \/ lockAge[i] = NoAge
       \/ Expired(i, call[r].queue.timeout)
       \/ lockedBy[i] = call[r].user

\* FetchAndLockNext: the timeout is the setting itself, without the default.
Claimable(r, i) ==
    /\ status[i] = "pending"
    /\ \/ lockAge[i] = NoAge
       \/ Expired(i, call[r].queue.timeout)
       \/ lockedBy[i] = call[r].user

\* ClaimNext; when the reply is lost the user does not know of the lock.
ClaimNext(r) ==
    /\ call[r] # Idle /\ call[r].op = "claim"
    /\ call[r].queue.status = "active"
    /\ \E i \in Items :
         /\ Claimable(r, i)
         /\ lockedBy' = [lockedBy EXCEPT ![i] = call[r].user]
         /\ lockAge' = [lockAge EXCEPT ![i] = 0]
         /\ \/ grant' = [grant EXCEPT ![call[r].user][i] = 0]
            \/ "reply_lost" \in Env /\ UNCHANGED grant
    /\ Done(r)
    /\ UNCHANGED <<queue, status, annotator, scored, sweep, inTime>>

\* ErrNoItemsAvailable, or the queue is not active.
ClaimNothing(r) ==
    /\ call[r] # Idle /\ call[r].op = "claim"
    /\ Done(r)
    /\ UNCHANGED <<queue, itemVars, sweep, history>>

\* What Complete, Skip and ReleaseLock ask of the item they read.
MayProceed(r, i) ==
    LET d == LockDuration(call[r].queue) IN
    /\ status[i] = "pending"
    /\ call[r].op # "release" /\ IsLocked(i, d) => IsLockedBy(i, call[r].user, d)
    /\ call[r].op = "release" => IsLockedBy(i, call[r].user, d)

\* Mutant: scores are submitted before the item is checked.
ScoresBeforeCheck(r) ==
    /\ call[r] # Idle /\ call[r].at = "begun"
    /\ call[r].op \in {"complete", "skip", "release"}
    /\ scored' = [scored EXCEPT ![call[r].item] =
                    IF call[r].op = "complete" THEN @ \cup {call[r].user} ELSE @]
    /\ IF MayProceed(r, call[r].item)
       THEN call' = [call EXCEPT ![r].at = "write"]
       ELSE Done(r)
    /\ UNCHANGED <<queue, status, lockedBy, lockAge, annotator, sweep, history>>

\* GetByIDForQueue and the checks; a completion may or may not bring scores.
Check(r) ==
    /\ call[r] # Idle /\ call[r].at = "begun"
    /\ call[r].op \in {"complete", "skip", "release"}
    /\ IF MayProceed(r, call[r].item)
       THEN \E next \in {"write"} \cup {s \in {"scores"} : call[r].op = "complete"} :
              call' = [call EXCEPT ![r].at = next]
       ELSE Done(r)
    /\ UNCHANGED <<queue, itemVars, sweep, history>>

\* submitScores: a failure is logged, and the completion goes on.
SubmitScores(r) ==
    /\ call[r] # Idle /\ call[r].at = "scores"
    /\ \/ scored' = [scored EXCEPT ![call[r].item] = @ \cup {call[r].user}]
       \/ "score_error" \in Env /\ UNCHANGED scored
    /\ call' = [call EXCEPT ![r].at = "write"]
    /\ UNCHANGED <<queue, status, lockedBy, lockAge, annotator, sweep, history>>

\* itemRepo.Complete and itemRepo.Skip: UPDATE ... WHERE id, whatever the row
\* holds by now; no row is left of a deleted item.
Finish(r) ==
    /\ call[r] # Idle /\ call[r].at = "write"
    /\ call[r].op \in {"complete", "skip"}
    /\ LET i == call[r].item
           u == call[r].user IN
         IF status[i] = "deleted" THEN UNCHANGED <<status, annotator, history>>
         ELSE /\ status' = [status EXCEPT ![i] =
                              IF call[r].op = "complete" THEN "completed" ELSE "skipped"]
              /\ annotator' = [annotator EXCEPT ![i] = u]
              /\ inTime' = [inTime EXCEPT ![i] = IF Live(u, i) THEN @ \cup {u} ELSE @]
              /\ \/ grant' = [grant EXCEPT ![u][i] = MaxAge]
                 \/ "reply_lost" \in Env /\ UNCHANGED grant
    /\ Done(r)
    /\ UNCHANGED <<queue, lockedBy, lockAge, scored, sweep>>

\* Mutant: ReleaseLock puts the item back into the pending pool.
ReleaseToPending(r) ==
    /\ call[r] # Idle /\ call[r].at = "write" /\ call[r].op = "release"
    /\ LET i == call[r].item IN
         /\ status' = [status EXCEPT ![i] = IF @ = "deleted" THEN @ ELSE "pending"]
         /\ lockedBy' = [lockedBy EXCEPT ![i] = NoUser]
         /\ lockAge' = [lockAge EXCEPT ![i] = NoAge]
         /\ grant' = [grant EXCEPT ![call[r].user][i] = MaxAge]
    /\ Done(r)
    /\ UNCHANGED <<queue, annotator, scored, sweep, inTime>>

\* itemRepo.ReleaseLock: UPDATE ... WHERE id, whoever holds the lock by now.
ReleaseLock(r) ==
    /\ call[r] # Idle /\ call[r].at = "write" /\ call[r].op = "release"
    /\ LET i == call[r].item IN
         IF status[i] = "deleted" THEN UNCHANGED <<lockedBy, lockAge, grant>>
         ELSE /\ lockedBy' = [lockedBy EXCEPT ![i] = NoUser]
              /\ lockAge' = [lockAge EXCEPT ![i] = NoAge]
              /\ grant' = [grant EXCEPT ![call[r].user][i] = MaxAge]
    /\ Done(r)
    /\ UNCHANGED <<queue, status, annotator, scored, sweep, inTime>>

DeleteItem(r) ==
    /\ call[r] # Idle /\ call[r].op = "delete"
    /\ status' = [status EXCEPT ![call[r].item] = "deleted"]
    /\ Done(r)
    /\ UNCHANGED <<queue, lockedBy, lockAge, annotator, scored, sweep, history>>

\* Mutant: QueueService.Update without Validate.
AnySetting(q) == TRUE

Validate(q) == q.status \in QueueStatus

\* QueueService.Update saves every column: those the request changes, and the
\* others as they were when the call read them.
UpdateQueue(r) ==
    /\ call[r] # Idle /\ call[r].op = "update"
    /\ \E s \in QueueStatus \cup {call[r].queue.status, "unknown"},
          t \in Timeouts \cup {call[r].queue.timeout} :
         LET q == [status |-> s, timeout |-> t] IN
         IF Validate(q) THEN queue' = q ELSE UNCHANGED queue
    /\ Done(r)
    /\ UNCHANGED <<itemVars, sweep, history>>

-----------------------------------------------------------------------------
(* The lock expiry worker, and time.                                       *)

\* ListAllActive, and the default for a timeout of 0.
ListActive ==
    /\ sweep.at = "idle"
    /\ queue.status = "active"
    /\ sweep' = [at |-> "release", timeout |-> LockDuration(queue)]
    /\ UNCHANGED <<queue, itemVars, call, history>>

\* Mutant: locked_at > lockExpiry.
SweptFresh(i) == status[i] = "pending" /\ IsLocked(i, sweep.timeout)

\* Mutant: locked_at IS NULL.
SweptNone(i) == status[i] = "pending" /\ lockAge[i] = NoAge

Swept(i) == status[i] = "pending" /\ Expired(i, sweep.timeout)

\* ReleaseExpiredLocks; an error leaves the locks to the next round.
ReleaseExpiredLocks ==
    /\ sweep.at = "release"
    /\ \/ /\ lockedBy' = [i \in Items |-> IF Swept(i) THEN NoUser ELSE lockedBy[i]]
          /\ lockAge' = [i \in Items |-> IF Swept(i) THEN NoAge ELSE lockAge[i]]
       \/ "abort" \in Env /\ UNCHANGED <<lockedBy, lockAge>>
    /\ sweep' = [at |-> "idle"]
    /\ UNCHANGED <<queue, status, annotator, scored, call, history>>

Older(a) == IF a < MaxAge THEN a + 1 ELSE a

Tick ==
    /\ lockAge' = [i \in Items |-> Older(lockAge[i])]
    /\ grant' = [u \in Users |-> [i \in Items |-> Older(grant[u][i])]]
    /\ UNCHANGED <<queue, status, lockedBy, annotator, scored, call, sweep, inTime>>

-----------------------------------------------------------------------------

CallStep(r) ==
    \/ AddItems(r) \/ ClaimNext(r) \/ ClaimNothing(r)
    \/ Check(r) \/ SubmitScores(r) \/ Finish(r) \/ ReleaseLock(r)
    \/ DeleteItem(r) \/ UpdateQueue(r)

Sweep == ListActive \/ ReleaseExpiredLocks

Next ==
    \/ \E r \in Calls : Begin(r) \/ CallStep(r) \/ Abort(r)
    \/ Sweep
    \/ Tick

Spec == Init /\ [][Next]_vars

\* Time passes, a call that was begun goes on, the worker's ticker fires.
FairSpec ==
    /\ Spec
    /\ WF_vars(Tick) /\ WF_vars(Sweep)
    /\ \A r \in Calls : WF_vars(CallStep(r))
-----------------------------------------------------------------------------
(* Properties.                                                             *)

\* The lease: two users are never both told, less than a lock duration ago,
\* that the same item is theirs.  Relies on nobody releasing a lock and on the
\* timeout being positive and not changed meanwhile.
LeaseExclusive ==
    \A i \in Items : \A u, v \in Users : Live(u, i) /\ Live(v, i) => u = v

\* Of the users who finish one item, at most one does so on a lease: work done
\* in time is overwritten only by a user who came too late, or never claimed.
OneAnnotatorInTime ==
    \A i \in Items : \A u, v \in inTime[i] : u = v

\* A user whose lease runs has the lock, at least as fresh as the lease, or the
\* item was finished or deleted by somebody else.
LeaseIsLocked ==
    \A u \in Users, i \in Items : Live(u, i) =>
        \/ status[i] \in {"completed", "skipped", "deleted"}
        \/ status[i] = "pending" /\ lockedBy[i] = u /\ lockAge[i] <= grant[u][i]

\* Whoever finished in time was alone in having the item.
InTimeIsAlone ==
    \A i \in Items : \A u \in inTime[i] :
        /\ status[i] \in {"completed", "skipped", "deleted"}
        /\ \A v \in Users : Live(v, i) => v = u

\* Every call and the worker know the timeout the queue has.
TimeoutKnown ==
    /\ \A r \in Calls : call[r] # Idle => call[r].queue.timeout = queue.timeout
    /\ sweep.at = "release" => sweep.timeout = LockDuration(queue)

\* The inductive invariant behind LeaseExclusive and OneAnnotatorInTime.
IInv == /\ TypeOK /\ TimeoutKnown /\ LeaseIsLocked
        /\ LeaseExclusive /\ InTimeIsAlone /\ OneAnnotatorInTime

Lending == INSTANCE Lease WITH
    tenants <- [i \in Items |-> {u \in Users : Live(u, i)}],
    finishers <- inTime

\* The queue implements Lease: an item is lent to one user at a time, and to
\* nobody once it was finished on a lease, whatever late users do to its row.
\* Conditions as for LeaseExclusive.
ImplementsLease == Lending!Spec

\* A finished item never goes back into the pool and a deleted one never comes
\* back, although every update goes by the row's id alone.
NeverReopened ==
    [][\A i \in Items :
         /\ status[i] \in {"completed", "skipped"} => status'[i] # "pending"
         /\ status[i] = "deleted" => status'[i] = "deleted"]_vars

\* A completion that is refused leaves no scores: scores of a user exist only
\* for an item that is finished, deleted, or about to be finished by them.
\* Relies on no call ending between the scores and the update.
ScoresFollowCompletion ==
    \A i \in Items : \A u \in scored[i] :
        \/ status[i] \in {"completed", "skipped", "deleted"}
        \/ \E r \in Calls : /\ call[r] # Idle /\ call[r].at = "write"
                            /\ call[r].op = "complete"
                            /\ call[r].item = i /\ call[r].user = u

\* The lock of a user who walked away is taken off the item in the end, unless
\* the item is claimed again or finished, or the queue is paused again and again.
AbandonedLockFreed ==
    <>[](queue.status = "active") =>
    \A i \in Items :
        (status[i] = "pending" /\ lockAge[i] \in 1 .. MaxAge)
            ~> (status[i] # "pending" \/ lockAge[i] \in {0, NoAge})
=============================================================================

------------------------- MODULE EvaluationExecution -------------------------
(***************************************************************************)
(* One evaluator execution: the row with its status and counters, and the  *)
(* processes that write it.  A manual trigger is created and published by  *)
(* the server (TriggerEvaluator) and carried out by the manual trigger     *)
(* worker; an automatic execution is created by the evaluator worker.      *)
(* Either worker emits one job per span, and the evaluation worker runs    *)
(* the jobs concurrently and counts each on the row, closing it when the   *)
(* counters reach spans_matched.                                           *)
(*                                                                         *)
(* "server" and "emitter" are the two processes that read the row, decide  *)
(* and later write all its columns; counting is one transaction with a row *)
(* lock.  Every message is acknowledged whatever became of it, and a       *)
(* message that was read is never read again; but the Redis client sends   *)
(* an XADD again whose reply it misses, so a message can be there twice.   *)
(* happened and lost record the events of the environment Env so far.      *)
(***************************************************************************)
EXTENDS Naturals, FiniteSets

CONSTANTS
    Jobs,       \* evaluation jobs: of the spans that may match, and copies of them
    Env,        \* environment events that may happen
    MaxLost     \* bound: replies of XADD that are lost

\* A reply of XADD is lost: the call fails, or the Redis client sends it again.
Ambiguous == {"publish_lost", "emit_lost", "trigger_repeat", "emit_repeat"}
\* What may leave an execution running for ever: the row was not written.
Fatal     == {"db_error", "server_crash", "emitter_crash", "worker_stop"}
Definite  == {"publish_error", "fetch_error", "emit_error", "score_error"}

ASSUME ExecutionAssumption ==
    /\ IsFiniteSet(Jobs) /\ Env \subseteq (Ambiguous \cup Fatal \cup Definite)
    /\ MaxLost \in Nat

Processes == {"server", "emitter"}

VARIABLES
    row,       \* the evaluator_executions row
    at,        \* what each process does next
    snap,      \* the row as each process read it, while it is about to write
    trigger,   \* the message in the manual trigger stream
    again,     \* further copies of it there
    selected,  \* the jobs of this execution, after matching and sampling
    refused,   \* jobs whose XADD returned an error
    job,       \* what became of every job
    happened,  \* history: kinds of environment events so far
    lost       \* history: replies of XADD lost so far

vars == <<row, at, snap, trigger, again, selected, refused, job, happened, lost>>

NoRow == [status |-> "none", matched |-> 0, scored |-> 0, errors |-> 0]
\* Mutant: the row is created without Start().
NotStarted(n) == [status |-> "pending", matched |-> n, scored |-> 0, errors |-> 0]
Started(n) == [status |-> "running", matched |-> n, scored |-> 0, errors |-> 0]

Rows == [status : {"none", "running", "completed", "failed"},
         matched : Nat, scored : Nat, errors : Nat]

TypeOK ==
    /\ row \in Rows
    /\ at \in [Processes -> {"idle", "publish", "discover", "target", "emit",
                             "fail", "complete", "failing", "completing", "done"}]
    /\ snap \in [Processes -> Rows]
    /\ trigger \in {"none", "queued", "taken"} /\ again \in Nat
    /\ selected \in SUBSET Jobs
    /\ refused \in SUBSET Jobs
    /\ job \in [Jobs -> {"none", "queued", "taken", "scored", "errored",
                         "counted", "dropped"}]
    /\ happened \subseteq {"repeated", "fatal"} /\ lost \in Nat

Init ==
    /\ row = NoRow
    /\ at = [p \in Processes |-> "idle"]
    /\ snap = [p \in Processes |-> NoRow]
    /\ trigger = "none" /\ again = 0
    /\ selected = {}
    /\ refused = {}
    /\ job = [j \in Jobs |-> "none"]
    /\ happened = {} /\ lost = 0

Goes(p, place) == at' = [at EXCEPT ![p] = place]
KindsOf(e) == (IF e \in Fatal THEN {"fatal"} ELSE {}) \cup
              (IF e = "trigger_repeat" THEN {"repeated"} ELSE {})
Event(e) ==
    /\ e \in Env
    /\ happened' = happened \cup KindsOf(e)
    /\ IF e \in Ambiguous THEN lost < MaxLost /\ lost' = lost + 1 ELSE UNCHANGED lost
Quiet == UNCHANGED <<happened, lost>>
Terminal(r) == r.status \in {"completed", "failed"}

-----------------------------------------------------------------------------
(* The row.                                                                *)

Reached(r) == r.scored + r.errors >= r.matched

\* IncrementCountersAndComplete, one transaction that locks the row.
Incremented(scored, errors) ==
    LET r == [row EXCEPT !.scored = @ + scored, !.errors = @ + errors] IN
    IF Reached(r) /\ row.status = "running"
    THEN [r EXCEPT !.status = "completed"]
    ELSE r

\* What CompleteExecution(0, 0, 0) and FailExecution make of a row they read.
Closed(r, place) ==
    IF place = "completing"
    THEN [status |-> "completed", matched |-> 0, scored |-> 0, errors |-> 0]
    ELSE [r EXCEPT !.status = "failed"]

\* Mutant: the status is not looked at.
ReadAnyRow(p) ==
    /\ at[p] \in {"fail", "complete"}
    /\ snap' = [snap EXCEPT ![p] = row]
    /\ Goes(p, IF at[p] = "fail" THEN "failing" ELSE "completing")
    /\ UNCHANGED <<row, trigger, again, selected, refused, job>> /\ Quiet

\* FailExecution and CompleteExecution read the row, and refuse a closed one.
ReadRow(p) ==
    /\ at[p] \in {"fail", "complete"}
    /\ \/ /\ Terminal(row)
          /\ Goes(p, "done")
          /\ UNCHANGED snap
       \/ /\ ~Terminal(row)
          /\ snap' = [snap EXCEPT ![p] = row]
          /\ Goes(p, IF at[p] = "fail" THEN "failing" ELSE "completing")
    /\ UNCHANGED <<row, trigger, again, selected, refused, job>> /\ Quiet

\* Update writes every column of the row that was read.
WriteRow(p) ==
    /\ at[p] \in {"failing", "completing"}
    /\ row' = Closed(snap[p], at[p])
    /\ Goes(p, "done")
    /\ snap' = [snap EXCEPT ![p] = NoRow]
    /\ UNCHANGED <<trigger, again, selected, refused, job>> /\ Quiet

\* The error of either statement is logged, and nobody tries again.
CloseError(p) ==
    /\ Event("db_error")
    /\ at[p] \in {"fail", "complete", "failing", "completing"}
    /\ Goes(p, "done")
    /\ snap' = [snap EXCEPT ![p] = NoRow]
    /\ UNCHANGED <<row, trigger, again, selected, refused, job>>

-----------------------------------------------------------------------------
(* The server: TriggerEvaluator.                                           *)

TriggerEvaluator ==
    /\ row = NoRow
    /\ row' = Started(0)
    /\ Goes("server", "publish")
    /\ UNCHANGED <<snap, trigger, again, selected, refused, job>> /\ Quiet

\* XADD of a trigger message.
AddTrigger ==
    \/ trigger = "none" /\ trigger' = "queued" /\ UNCHANGED again
    \/ trigger # "none" /\ again' = again + 1 /\ UNCHANGED trigger

Publish ==
    /\ at["server"] = "publish"
    /\ AddTrigger
    /\ Goes("server", "done")
    /\ UNCHANGED <<row, snap, selected, refused, job>> /\ Quiet

\* XADD added the message, its reply is lost, and the Redis client is about to
\* send it again.
PublishRepeat ==
    /\ Event("trigger_repeat")
    /\ at["server"] = "publish"
    /\ AddTrigger
    /\ UNCHANGED <<row, at, snap, selected, refused, job>>

\* XADD returned an error, with or without having added the message.
PublishError ==
    /\ at["server"] = "publish"
    /\ \/ Event("publish_error") /\ UNCHANGED <<trigger, again>>
       \/ Event("publish_lost") /\ AddTrigger
    /\ Goes("server", "fail")
    /\ UNCHANGED <<row, snap, selected, refused, job>>

ServerCrash ==
    /\ Event("server_crash")
    /\ at["server"] \notin {"idle", "done"}
    /\ Goes("server", "done")
    /\ snap' = [snap EXCEPT !["server"] = NoRow]
    /\ UNCHANGED <<row, trigger, again, selected, refused, job>>

-----------------------------------------------------------------------------
(* The emitter: the evaluator worker, or the manual trigger worker.        *)

\* The evaluator worker matched a batch of spans: the row is created with
\* its target.
StartExecutionWithCount ==
    /\ row = NoRow
    /\ \E S \in SUBSET Jobs \ {{}} :
         /\ row' = Started(Cardinality(S))
         /\ selected' = S
    /\ Goes("emitter", "emit")
    /\ UNCHANGED <<snap, trigger, again, refused, job>> /\ Quiet

TakeTrigger ==
    /\ trigger = "queued"
    /\ trigger' = "taken"
    /\ Goes("emitter", "discover")
    /\ UNCHANGED <<row, snap, again, selected, refused, job>> /\ Quiet

\* A copy of the trigger is read like the first, and the whole execution is
\* carried out again, whatever has become of the row.
TakeTriggerAgain ==
    /\ again > 0 /\ trigger = "taken" /\ at["emitter"] = "done"
    /\ again' = again - 1
    /\ selected' = {} /\ refused' = {}
    /\ Goes("emitter", "discover")
    /\ UNCHANGED <<row, snap, trigger, job>> /\ Quiet

\* Which spans match; none, or none left by sampling, completes the row.
Discover ==
    /\ at["emitter"] = "discover"
    /\ \E S \in SUBSET {j \in Jobs : job[j] = "none"} :
         /\ selected' = S
         /\ Goes("emitter", IF S = {} THEN "complete" ELSE "target")
    /\ UNCHANGED <<row, snap, trigger, again, refused, job>> /\ Quiet

DiscoverError ==
    /\ Event("fetch_error")
    /\ at["emitter"] = "discover"
    /\ Goes("emitter", "fail")
    /\ UNCHANGED <<row, snap, trigger, again, selected, refused, job>>

\* Mutant: jobs are emitted before spans_matched is set.
NoTarget ==
    /\ at["emitter"] = "target"
    /\ Goes("emitter", "emit")
    /\ UNCHANGED <<row, snap, trigger, again, selected, refused, job>> /\ Quiet

UpdateSpansMatched ==
    /\ at["emitter"] = "target"
    /\ row' = [row EXCEPT !.matched = Cardinality(selected)]
    /\ Goes("emitter", "emit")
    /\ UNCHANGED <<snap, trigger, again, selected, refused, job>> /\ Quiet

UpdateSpansMatchedError ==
    /\ Event("db_error")
    /\ at["emitter"] = "target"
    /\ row' \in {row, [row EXCEPT !.matched = Cardinality(selected)]}
    /\ Goes("emitter", "fail")
    /\ UNCHANGED <<snap, trigger, again, selected, refused, job>>

ToEmit == {j \in selected : job[j] = "none" /\ j \notin refused}

EmitJob(j) ==
    /\ at["emitter"] = "emit" /\ j \in ToEmit
    /\ job' = [job EXCEPT ![j] = "queued"]
    /\ UNCHANGED <<row, at, snap, trigger, again, selected, refused>> /\ Quiet

\* XADD added the job, its reply is lost, and the Redis client is about to send
\* it again: the copy is a job k of its own, of the same span.
EmitRepeat(j) ==
    /\ Event("emit_repeat")
    /\ at["emitter"] = "emit" /\ j \in ToEmit
    /\ \E k \in Jobs \ selected :
         job[k] = "none" /\ job' = [job EXCEPT ![k] = "queued"]
    /\ UNCHANGED <<row, at, snap, trigger, again, selected, refused>>

\* XADD returned an error, with or without having added the job.
EmitError(j) ==
    /\ at["emitter"] = "emit" /\ j \in ToEmit
    /\ \/ Event("emit_error") /\ UNCHANGED job
       \/ Event("emit_lost") /\ job' = [job EXCEPT ![j] = "queued"]
    /\ refused' = refused \cup {j}
    /\ UNCHANGED <<row, at, snap, trigger, again, selected>>

\* The manual trigger worker fails an execution none of whose jobs was
\* enqueued; the evaluator worker does nothing more.
AfterEmit == IF trigger = "taken" /\ refused = selected THEN "fail" ELSE "done"

\* Mutant: jobs that could not be enqueued are not counted.
RefusedUncounted ==
    /\ at["emitter"] = "emit" /\ ToEmit = {}
    /\ Goes("emitter", AfterEmit)
    /\ UNCHANGED <<row, snap, trigger, again, selected, refused, job>> /\ Quiet

\* Mutant: every job of the batch counts as an error when one failed.
CountSelected ==
    /\ at["emitter"] = "emit" /\ ToEmit = {}
    /\ row' = IF refused = {} THEN row ELSE Incremented(0, Cardinality(selected))
    /\ Goes("emitter", AfterEmit)
    /\ UNCHANGED <<snap, trigger, again, selected, refused, job>> /\ Quiet

\* Jobs that could not be enqueued count as errors at once.
CountRefused ==
    /\ at["emitter"] = "emit" /\ ToEmit = {}
    /\ row' = IF refused = {} THEN row ELSE Incremented(0, Cardinality(refused))
    /\ Goes("emitter", AfterEmit)
    /\ UNCHANGED <<snap, trigger, again, selected, refused, job>> /\ Quiet

CountRefusedError ==
    /\ Event("db_error")
    /\ at["emitter"] = "emit" /\ ToEmit = {} /\ refused # {}
    /\ Goes("emitter", AfterEmit)
    /\ UNCHANGED <<row, snap, trigger, again, selected, refused, job>>

EmitterCrash ==
    /\ Event("emitter_crash")
    /\ at["emitter"] \notin {"idle", "done"}
    /\ Goes("emitter", "done")
    /\ snap' = [snap EXCEPT !["emitter"] = NoRow]
    /\ UNCHANGED <<row, trigger, again, selected, refused, job>>

-----------------------------------------------------------------------------
(* The evaluation worker: one goroutine per job.                           *)

TakeJob(j) ==
    /\ job[j] = "queued"
    /\ job' = [job EXCEPT ![j] = "taken"]
    /\ UNCHANGED <<row, at, snap, trigger, again, selected, refused>> /\ Quiet

\* The scorer and the write of its scores, with all retries.
Score(j) ==
    /\ job[j] = "taken"
    /\ \/ Quiet /\ job' = [job EXCEPT ![j] = "scored"]
       \/ Event("score_error") /\ job' = [job EXCEPT ![j] = "errored"]
    /\ UNCHANGED <<row, at, snap, trigger, again, selected, refused>>

\* trackExecutionSuccess and trackExecutionError.
Count(j) ==
    /\ job[j] \in {"scored", "errored"}
    /\ row' = IF job[j] = "scored" THEN Incremented(1, 0) ELSE Incremented(0, 1)
    /\ job' = [job EXCEPT ![j] = "counted"]
    /\ UNCHANGED <<at, snap, trigger, again, selected, refused>> /\ Quiet

\* The count failed and was logged; or the worker stopped, which waits
\* neither for the rest of its batch nor for its goroutines.
DropJob(j) ==
    /\ \/ Event("db_error") /\ job[j] \in {"scored", "errored"}
       \/ Event("worker_stop") /\ job[j] \in {"taken", "scored", "errored"}
    /\ job' = [job EXCEPT ![j] = "dropped"]
    /\ UNCHANGED <<row, at, snap, trigger, again, selected, refused>>

-----------------------------------------------------------------------------

ServerStep  == Publish \/ PublishRepeat \/ PublishError
EmitterStep ==
    \/ TakeTrigger \/ TakeTriggerAgain \/ Discover \/ DiscoverError
    \/ UpdateSpansMatched \/ UpdateSpansMatchedError
    \/ CountRefused \/ CountRefusedError
    \/ \E j \in Jobs : EmitJob(j) \/ EmitRepeat(j) \/ EmitError(j)
CloseStep(p) == ReadRow(p) \/ WriteRow(p) \/ CloseError(p)
JobStep(j) == TakeJob(j) \/ Score(j) \/ Count(j)

Next ==
    \/ TriggerEvaluator \/ StartExecutionWithCount
    \/ ServerStep \/ EmitterStep
    \/ \E p \in Processes : CloseStep(p)
    \/ \E j \in Jobs : JobStep(j) \/ DropJob(j)
    \/ ServerCrash \/ EmitterCrash

Spec == Init /\ [][Next]_vars

\* A request and a message that are being processed are carried to their end,
\* and the consume loops run for ever.
Fairness ==
    /\ WF_vars(ServerStep) /\ WF_vars(EmitterStep)
    /\ \A p \in Processes : WF_vars(CloseStep(p))
    /\ \A j \in Jobs : WF_vars(JobStep(j))

FairSpec == Spec /\ Fairness
-----------------------------------------------------------------------------
(* Properties.                                                             *)

\* No reply of an XADD was lost so far.
Reliable == lost = 0

\* The trigger was not added twice: the execution is carried out once.
Once == "repeated" \notin happened

\* Jobs that were neither counted nor failed to be enqueued.
Unfinished ==
    {j \in selected : job[j] # "counted" /\ ~(j \in refused /\ job[j] = "none")}

\* Jobs in the stream beyond those the emitter knows of: copies, and jobs
\* whose XADD returned an error.  Their spans are counted once too often.
Surplus == {j \in Jobs : job[j] # "none" /\ (j \notin selected \/ j \in refused)}

\* An execution is not closed as completed before its spans are processed, but
\* for as many as there are jobs counted once too often.  This is the race
\* the order "set spans_matched, emit, count" is there to prevent.
CompletedMeansDone ==
    Once /\ row.status = "completed" =>
        Cardinality(Unfinished) <= Cardinality(Surplus)

\* A completed execution accounts for every span it matched, and counts one
\* too many only for a job that was enqueued twice, or enqueued and reported
\* as an error.
CompletedAddsUp ==
    Once /\ row.status = "completed" =>
        /\ row.scored + row.errors >= row.matched
        /\ row.scored + row.errors <= row.matched + Cardinality(Surplus)

\* A closed execution stays as it was closed and nothing counted is undone,
\* although FailExecution and CompleteExecution write every column of a row
\* they read earlier; it holds until the reply of an XADD is lost.
NothingUndone ==
    [][Reliable =>
        /\ Terminal(row) => row'.status = row.status
        /\ row'.scored >= row.scored /\ row'.errors >= row.errors]_vars

\* The inductive invariant.  Where the processes can be together: while the
\* server is at work there is no trigger and no emitter, and jobs exist only
\* after the emitter set their number.
Counted == {j \in selected : job[j] = "counted"}
NoJobs  == refused = {} /\ \A j \in Jobs : job[j] = "none"

Places ==
    /\ row.status = "none" => at["server"] = "idle" /\ trigger = "none"
    /\ again = 0
    /\ at["server"] \in {"publish", "fail", "failing"} => trigger = "none"
    /\ at["server"] \notin {"complete", "completing"} /\ at["emitter"] # "publish"
    /\ at["server"] # "idle" /\ trigger = "none" => at["emitter"] = "idle"
    /\ row.status = "none" \/ trigger = "queued" => at["emitter"] = "idle"
    /\ at["emitter"] \in {"idle", "discover", "target", "complete", "completing"} => NoJobs
    /\ at["emitter"] \in {"idle", "discover", "target"} => row.status # "completed"
    /\ at["emitter"] \in {"fail", "failing"} => \A j \in Jobs : job[j] = "none"
    /\ at["emitter"] \in {"complete", "completing"} => selected = {}
    /\ refused \subseteq selected
    /\ \A j \in Jobs : job[j] # "none" => j \in selected /\ j \notin refused

\* Whoever is about to write a row has read what it still is.
WritersAreCurrent ==
    \A p \in Processes :
        at[p] \in {"failing", "completing"} => row = snap[p] /\ ~Terminal(row)

\* While the row is running its target is the number of jobs, and its
\* counters count no job that is not finished.
TargetAndTally ==
    row.status = "running" =>
        /\ at["emitter"] = "emit" \/ ~NoJobs => row.matched = Cardinality(selected)
        /\ row.scored + row.errors <=
              Cardinality(Counted) +
                (IF at["emitter"] = "emit" THEN 0 ELSE Cardinality(refused))

CompletedIsDone == row.status = "completed" => Unfinished = {}

IInv == /\ TypeOK
        /\ Reliable => /\ Places /\ WritersAreCurrent
                       /\ TargetAndTally /\ CompletedIsDone

\* Every execution is closed in the end, unless a write of its row failed or
\* a process died on the way.
ExecutionEnds ==
    row.status = "running" ~> Terminal(row) \/ "fatal" \in happened
=============================================================================

---------------------- MODULE EvaluationExecutionProofs ----------------------
(***************************************************************************)
(* Proofs about EvaluationExecution, for any finite set of jobs and any    *)
(* environment: types; the inductive invariant that holds until a reply is *)
(* lost, with which nothing is undone; and the one that holds ever after,  *)
(* with which a completed execution has its spans processed and counted.   *)
(***************************************************************************)
EXTENDS EvaluationExecution, FiniteSetTheorems, TLAPS

\* Sets of jobs are finite and can be counted.
LEMMA JobSets ==
    ASSUME NEW S \in SUBSET Jobs
    PROVE  IsFiniteSet(S) /\ Cardinality(S) \in Nat
  BY ExecutionAssumption, FS_Subset, FS_CardinalityType

\* The union of two sets counts no more than both, and as much when they are
\* disjoint.
LEMMA UnionCount ==
    ASSUME NEW A \in SUBSET Jobs, NEW B \in SUBSET Jobs
    PROVE  /\ Cardinality(A) \in Nat /\ Cardinality(B) \in Nat /\ Cardinality(A \cup B) \in Nat
           /\ Cardinality(A \cup B) <= Cardinality(A) + Cardinality(B)
           /\ A \cap B = {} => Cardinality(A \cup B) = Cardinality(A) + Cardinality(B)
<1>1. A \cup B \in SUBSET Jobs /\ A \cap B \in SUBSET Jobs
  OBVIOUS
<1>2. /\ IsFiniteSet(A) /\ IsFiniteSet(B)
      /\ Cardinality(A) \in Nat /\ Cardinality(B) \in Nat
      /\ Cardinality(A \cup B) \in Nat /\ Cardinality(A \cap B) \in Nat
  BY <1>1, JobSets
<1>3. Cardinality(A \cup B) = Cardinality(A) + Cardinality(B) - Cardinality(A \cap B)
  BY <1>2, FS_Union
<1>4. A \cap B = {} => Cardinality(A \cap B) = 0
  BY FS_EmptySet, Zenon
<1> QED
  BY <1>2, <1>3, <1>4

\* Two disjoint parts that count as much as the whole are the whole.
LEMMA PartsMakeWhole ==
    ASSUME NEW S \in SUBSET Jobs, NEW A \in SUBSET S, NEW B \in SUBSET S,
           A \cap B = {},
           Cardinality(A) + Cardinality(B) >= Cardinality(S)
    PROVE  A \cup B = S
<1>1. /\ IsFiniteSet(S) /\ IsFiniteSet(A) /\ IsFiniteSet(B)
      /\ Cardinality(S) \in Nat /\ Cardinality(A) \in Nat /\ Cardinality(B) \in Nat
  BY JobSets
<1>2. Cardinality(A \cup B) = Cardinality(A) + Cardinality(B)
  BY UnionCount
<1>3. Cardinality(A \cup B) <= Cardinality(S)
  BY <1>1, FS_Subset
<1>4. Cardinality(S) = Cardinality(A \cup B)
  BY <1>1, <1>2, <1>3
<1> QED
  BY <1>1, <1>4, FS_Subset

\* What one IncrementCountersAndComplete does to the row.
LEMMA IncrementEffect ==
    ASSUME row \in Rows, NEW s \in Nat, NEW e \in Nat
    PROVE  /\ Incremented(s, e) \in Rows
           /\ Incremented(s, e).matched = row.matched
           /\ Incremented(s, e).scored = row.scored + s
           /\ Incremented(s, e).errors = row.errors + e
           /\ Incremented(s, e).status # row.status =>
                 /\ row.status = "running"
                 /\ Incremented(s, e).status = "completed"
                 /\ row.scored + s + row.errors + e >= row.matched
<1> DEFINE a == [row EXCEPT !.scored = row.scored + s]
           b == [a EXCEPT !.errors = row.errors + e]
           c == [b EXCEPT !.status = "completed"]
<1>1. /\ a \in Rows /\ a.status = row.status /\ a.matched = row.matched
      /\ a.scored = row.scored + s /\ a.errors = row.errors
  BY DEF Rows
<1>2. Incremented(s, e) = IF Reached(b) /\ row.status = "running" THEN c ELSE b
  BY DEF Incremented
<1> HIDE DEF a
<1>3. /\ b \in Rows /\ b.status = row.status /\ b.matched = row.matched
      /\ b.scored = row.scored + s /\ b.errors = row.errors + e
  BY <1>1 DEF Rows
<1> HIDE DEF b
<1>4. /\ c \in Rows /\ c.status = "completed" /\ c.matched = b.matched
      /\ c.scored = b.scored /\ c.errors = b.errors
  BY <1>3 DEF Rows
<1> HIDE DEF c
<1>5. Reached(b) => row.scored + s + row.errors + e >= row.matched
  BY <1>3 DEF Reached, Rows
<1> QED
  BY <1>2, <1>3, <1>4, <1>5

-----------------------------------------------------------------------------
(* Types.                                                                  *)

LEMMA InitTypes == Init => TypeOK
  BY DEF Init, TypeOK, NoRow, Rows, Processes

\* Every step is quiet or an event of the environment.
LEMMA HistoryGrows ==
    ASSUME TypeOK, [Next]_vars
    PROVE  /\ happened' \subseteq {"repeated", "fatal"} /\ happened \subseteq happened'
           /\ lost' \in Nat /\ lost <= lost'
<1>1. Quiet \/ \E e : Event(e)
  BY Zenon DEF Next, vars, ServerStep, EmitterStep, CloseStep, JobStep, Quiet,
         TriggerEvaluator, StartExecutionWithCount, Publish, PublishRepeat, PublishError,
         TakeTrigger, TakeTriggerAgain,
         Discover, DiscoverError, UpdateSpansMatched, UpdateSpansMatchedError,
         CountRefused, CountRefusedError, EmitJob, EmitRepeat, EmitError, ReadRow, WriteRow,
         CloseError, TakeJob, Score, Count, DropJob, ServerCrash, EmitterCrash
<1>3. happened \subseteq {"repeated", "fatal"} /\ lost \in Nat
  BY DEF TypeOK
<1>2. ASSUME NEW e, Event(e)
      PROVE  /\ happened' \subseteq {"repeated", "fatal"} /\ happened \subseteq happened'
             /\ lost' \in Nat /\ lost <= lost'
  <2>1. KindsOf(e) \subseteq {"repeated", "fatal"}
    BY DEF KindsOf
  <2>2. happened' = happened \cup KindsOf(e) /\ (lost' = lost \/ lost' = lost + 1)
    BY <1>2 DEF Event
  <2> QED
    <3>1. happened' \subseteq {"repeated", "fatal"} /\ happened \subseteq happened'
      BY <1>3, <2>1, <2>2, Zenon
    <3>2. lost' \in Nat /\ lost <= lost'
      BY <1>3, <2>2
    <3> QED
      BY <3>1, <3>2
<1>4. CASE Quiet
  <2>1. happened' = happened /\ lost' = lost
    BY <1>4 DEF Quiet
  <2> QED
    BY <1>3, <2>1
<1> QED
  BY <1>1, <1>2, <1>4, Zenon

LEMMA StepTypes == TypeOK /\ [Next]_vars => TypeOK'
<1> SUFFICES ASSUME TypeOK, [Next]_vars PROVE TypeOK'
  OBVIOUS
<1>0. happened' \subseteq {"repeated", "fatal"} /\ lost' \in Nat
  BY HistoryGrows
<1> USE <1>0 DEF TypeOK, Goes, Processes
<1>1. CASE TriggerEvaluator
  BY <1>1 DEF TriggerEvaluator, Started, Rows
<1>2. CASE StartExecutionWithCount
  <2>1. PICK S \in SUBSET Jobs \ {{}} : row' = Started(Cardinality(S)) /\ selected' = S
    BY <1>2 DEF StartExecutionWithCount
  <2>2. Started(Cardinality(S)) \in Rows
    BY JobSets DEF Started, Rows
  <2> QED
    BY <1>2, <2>1, <2>2 DEF StartExecutionWithCount
<1>3. CASE Publish
  BY <1>3 DEF Publish, AddTrigger
<1>4. CASE PublishError
  BY <1>4 DEF PublishError, AddTrigger
<1>22. CASE PublishRepeat
  BY <1>22 DEF PublishRepeat, AddTrigger
<1>5. CASE TakeTrigger
  BY <1>5 DEF TakeTrigger
<1>23. CASE TakeTriggerAgain
  BY <1>23 DEF TakeTriggerAgain
<1>6. CASE Discover
  BY <1>6 DEF Discover
<1>7. CASE DiscoverError
  BY <1>7 DEF DiscoverError
<1>8. [row EXCEPT !.matched = Cardinality(selected)] \in Rows
  BY JobSets DEF Rows
<1>9. CASE UpdateSpansMatched
  BY <1>8, <1>9 DEF UpdateSpansMatched
<1>10. CASE UpdateSpansMatchedError
  BY <1>8, <1>10 DEF UpdateSpansMatchedError
<1>11. Incremented(0, Cardinality(refused)) \in Rows
  BY JobSets, IncrementEffect
<1>12. CASE CountRefused
  BY <1>11, <1>12 DEF CountRefused, AfterEmit
<1>13. CASE CountRefusedError
  BY <1>13 DEF CountRefusedError, AfterEmit
<1>14. ASSUME NEW j \in Jobs, EmitJob(j) \/ EmitRepeat(j) \/ EmitError(j)
       PROVE  TypeOK'
  BY <1>14 DEF EmitJob, EmitRepeat, EmitError
<1>24. NoRow \in Rows
  BY DEF NoRow, Rows
<1>15. ASSUME NEW p \in Processes, ReadRow(p) \/ CloseError(p) PROVE TypeOK'
  BY <1>15, <1>24 DEF ReadRow, CloseError
<1>16. ASSUME NEW p \in Processes, WriteRow(p) PROVE TypeOK'
  <2>1. Closed(snap[p], at[p]) \in Rows
    BY DEF Closed, Rows
  <2> QED
    BY <1>16, <1>24, <2>1 DEF WriteRow
<1>17. ASSUME NEW j \in Jobs, TakeJob(j) \/ Score(j) \/ DropJob(j) PROVE TypeOK'
  BY <1>17 DEF TakeJob, Score, DropJob
<1>18. ASSUME NEW j \in Jobs, Count(j) PROVE TypeOK'
  <2>1. Incremented(1, 0) \in Rows /\ Incremented(0, 1) \in Rows
    BY IncrementEffect
  <2> QED
    BY <1>18, <2>1 DEF Count
<1>19. CASE ServerCrash
  BY <1>19, <1>24 DEF ServerCrash
<1>20. CASE EmitterCrash
  BY <1>20, <1>24 DEF EmitterCrash
<1>21. CASE UNCHANGED vars
  BY <1>21 DEF vars
<1> QED
  BY <1>1, <1>2, <1>3, <1>4, <1>5, <1>6, <1>7, <1>9, <1>10, <1>12, <1>13, <1>14,
     <1>15, <1>16, <1>17, <1>18, <1>19, <1>20, <1>21, <1>22, <1>23
     DEF Next, ServerStep, EmitterStep, CloseStep, JobStep

\* Every variable keeps its type, in every environment (types of the columns,
\* the streams and the workers' places).
THEOREM TypeCorrect == Spec => []TypeOK
  BY InitTypes, StepTypes, PTL DEF Spec

-----------------------------------------------------------------------------
(* The invariant: what an action does to the parts it can disturb.         *)

\* What holds while no reply was lost.
Inner == Places /\ WritersAreCurrent /\ TargetAndTally /\ CompletedIsDone

\* A step after which still no reply was lost lost none.
LEMMA NoLoss ==
    ASSUME TypeOK, NEW e \in Ambiguous, Event(e), Reliable'
    PROVE  FALSE
  BY DEF TypeOK, Event, Reliable

\* So it repeats no message, and there was none to be read again.
LEMMA NoRepeats ==
    ASSUME TypeOK, Places, Reliable'
    PROVE  ~PublishRepeat /\ ~TakeTriggerAgain /\ \A j \in Jobs : ~EmitRepeat(j)
<1>1. {"trigger_repeat", "emit_repeat"} \subseteq Ambiguous
  BY DEF Ambiguous
<1>2. ~Event("trigger_repeat") /\ ~Event("emit_repeat")
  BY <1>1, NoLoss
<1> QED
  BY <1>2 DEF PublishRepeat, TakeTriggerAgain, EmitRepeat, Places

\* The tally is not disturbed by a step that keeps the row's columns and does
\* not take jobs out of those it counts.
LEMMA TallyKept ==
    ASSUME TypeOK, TargetAndTally, row' = row, selected' = selected,
           Counted' = Counted, refused' \in SUBSET Jobs, refused \subseteq refused',
           at'["emitter"] = "emit" => at["emitter"] = "emit",
           at["emitter"] = "emit" \/ (NoJobs => NoJobs')
    PROVE  TargetAndTally'
<1> SUFFICES ASSUME row'.status = "running" PROVE
       /\ at'["emitter"] = "emit" \/ ~NoJobs' => row'.matched = Cardinality(selected')
       /\ row'.scored + row'.errors <=
              Cardinality(Counted') +
                (IF at'["emitter"] = "emit" THEN 0 ELSE Cardinality(refused'))
  BY DEF TargetAndTally
<1>1. /\ IsFiniteSet(refused') /\ Cardinality(refused') \in Nat
      /\ Cardinality(refused) \in Nat
      /\ Cardinality(refused) <= Cardinality(refused')
  BY JobSets, FS_Subset DEF TypeOK
<1>2. Cardinality(Counted) \in Nat
  BY JobSets DEF TypeOK, Counted
<1>3. row.scored \in Nat /\ row.errors \in Nat
  BY DEF TypeOK, Rows
<1>4. at'["emitter"] = "emit" \/ ~NoJobs' => row'.matched = Cardinality(selected')
  BY DEF TargetAndTally
<1>5. row'.scored + row'.errors <=
              Cardinality(Counted') +
                (IF at'["emitter"] = "emit" THEN 0 ELSE Cardinality(refused'))
  BY <1>1, <1>2, <1>3 DEF TargetAndTally
<1> QED
  BY <1>4, <1>5

\* What a counted job does to the row.
LEMMA CountEffect ==
    ASSUME TypeOK, NEW j \in Jobs, Count(j)
    PROVE  /\ row' \in Rows /\ row'.matched = row.matched
           /\ row'.scored + row'.errors = row.scored + row.errors + 1
           /\ row'.status # row.status =>
                 /\ row.status = "running" /\ row'.status = "completed"
                 /\ row'.scored + row'.errors >= row.matched
<1>1. row \in Rows /\ row.scored \in Nat /\ row.errors \in Nat /\ row.matched \in Nat
  BY DEF TypeOK, Rows
<1>2. CASE job[j] = "scored"
  <2>1. row' = Incremented(1, 0)
    BY <1>2 DEF Count
  <2>2. /\ row' \in Rows /\ row'.matched = row.matched
        /\ row'.scored = row.scored + 1 /\ row'.errors = row.errors + 0
        /\ row'.status # row.status =>
              /\ row.status = "running" /\ row'.status = "completed"
              /\ row.scored + 1 + row.errors + 0 >= row.matched
    <3>1. 0 \in Nat /\ 1 \in Nat
      OBVIOUS
    <3>2. /\ Incremented(1, 0) \in Rows
          /\ Incremented(1, 0).matched = row.matched
          /\ Incremented(1, 0).scored = row.scored + 1
          /\ Incremented(1, 0).errors = row.errors + 0
          /\ Incremented(1, 0).status # row.status =>
                /\ row.status = "running"
                /\ Incremented(1, 0).status = "completed"
                /\ row.scored + 1 + row.errors + 0 >= row.matched
      BY <1>1, <3>1, IncrementEffect, Zenon
    <3> QED
      BY <2>1, <3>2, Zenon
  <2> QED
    BY <1>1, <2>2
<1>3. CASE job[j] = "errored"
  <2>1. row' = Incremented(0, 1)
    BY <1>3 DEF Count
  <2>2. /\ row' \in Rows /\ row'.matched = row.matched
        /\ row'.scored = row.scored + 0 /\ row'.errors = row.errors + 1
        /\ row'.status # row.status =>
              /\ row.status = "running" /\ row'.status = "completed"
              /\ row.scored + 0 + row.errors + 1 >= row.matched
    <3>1. 0 \in Nat /\ 1 \in Nat
      OBVIOUS
    <3>2. /\ Incremented(0, 1) \in Rows
          /\ Incremented(0, 1).matched = row.matched
          /\ Incremented(0, 1).scored = row.scored + 0
          /\ Incremented(0, 1).errors = row.errors + 1
          /\ Incremented(0, 1).status # row.status =>
                /\ row.status = "running"
                /\ Incremented(0, 1).status = "completed"
                /\ row.scored + 0 + row.errors + 1 >= row.matched
      BY <1>1, <3>1, IncrementEffect, Zenon
    <3> QED
      BY <2>1, <3>2, Zenon
  <2> QED
    BY <1>1, <2>2
<1> QED
  BY <1>2, <1>3 DEF Count

\* A finished job is counted.
LEMMA CountKeeps ==
    ASSUME TypeOK, Inner, NEW j \in Jobs, Count(j)
    PROVE  Inner'
<1> USE DEF Inner, Processes
<1>1. /\ job[j] \in {"scored", "errored"}
      /\ job' = [job EXCEPT ![j] = "counted"]
      /\ UNCHANGED <<at, snap, trigger, again, selected, refused>>
  BY DEF Count
<1>2. /\ j \in selected /\ j \notin refused /\ j \in Unfinished /\ j \notin Counted
      /\ at["emitter"] \in {"emit", "done"}
  BY <1>1 DEF Places, NoJobs, TypeOK, Unfinished, Counted
<1>3. /\ row' \in Rows /\ row'.matched = row.matched
      /\ row'.scored + row'.errors = row.scored + row.errors + 1
      /\ row'.status # row.status =>
            /\ row.status = "running" /\ row'.status = "completed"
            /\ row'.scored + row'.errors >= row.matched
  BY CountEffect
<1>4. row.status # "completed"
  BY <1>2 DEF CompletedIsDone
<1>5. Places'
  <2>1. row.status # "none"
    BY <1>2 DEF Places
  <2>3. row'.status # "none"
    BY <1>3, <2>1
  <2> QED
    BY <1>1, <1>2, <2>3 DEF Places, NoJobs, TypeOK
<1>6. WritersAreCurrent'
  <2>1. at["server"] \notin {"failing", "completing"}
    BY <1>2 DEF Places
  <2> QED
    BY <1>1, <1>2, <2>1 DEF WritersAreCurrent
<1>7. /\ Counted' = Counted \cup {j} /\ Cardinality(Counted') = Cardinality(Counted) + 1
      /\ Cardinality(Counted) \in Nat /\ Counted' \in SUBSET selected
  <2>1. Counted' = Counted \cup {j}
    BY <1>1, <1>2 DEF Counted, TypeOK
  <2>2. IsFiniteSet(Counted) /\ Cardinality(Counted) \in Nat
    BY JobSets DEF Counted, TypeOK
  <2> QED
    BY <1>2, <2>1, <2>2, FS_AddElement DEF Counted
<1>8. row.status = "running" => row'.scored + row'.errors <=
          Cardinality(Counted') +
            (IF at["emitter"] = "emit" THEN 0 ELSE Cardinality(refused))
  <2>1. Cardinality(refused) \in Nat /\ row.scored + row.errors \in Nat
    BY JobSets DEF TypeOK, Rows
  <2> QED
    BY <1>3, <1>7, <2>1 DEF TargetAndTally
<1>9. row.status = "running" => row.matched = Cardinality(selected)
  BY <1>1 DEF TargetAndTally, NoJobs
<1>10. TargetAndTally'
  BY <1>1, <1>3, <1>8, <1>9 DEF TargetAndTally
<1>11. CompletedIsDone'
  <2> SUFFICES ASSUME row'.status = "completed" PROVE Unfinished' = {}
    BY DEF CompletedIsDone
  <2> DEFINE rest == IF at["emitter"] = "emit" THEN {} ELSE refused
  <2>1. /\ row.status = "running"
        /\ row'.scored + row'.errors >= Cardinality(selected)
    BY <1>3, <1>4, <1>9
  <2>2. /\ rest \in SUBSET selected /\ Counted' \cap rest = {}
    BY <1>1, <1>2, <1>5 DEF Places, Counted, TypeOK
  <2>3. Cardinality(rest) = IF at["emitter"] = "emit" THEN 0 ELSE Cardinality(refused)
    BY FS_EmptySet
  <2>4. selected \in SUBSET Jobs /\ Cardinality(selected) \in Nat
        /\ Cardinality(rest) \in Nat /\ Cardinality(Counted') \in Nat
        /\ row'.scored + row'.errors \in Nat
    BY JobSets, <1>7, <2>2, <1>3 DEF TypeOK, Rows
  <2>5. Cardinality(Counted') + Cardinality(rest) >= Cardinality(selected)
    BY <1>8, <2>1, <2>3, <2>4
  <2>6. Counted' \cup rest = selected
    BY <1>7, <2>2, <2>4, <2>5, PartsMakeWhole
  <2>7. \A k \in refused : job'[k] = "none"
    BY <1>1, <1>5 DEF Places, TypeOK
  <2> QED
    BY <1>1, <2>6, <2>7 DEF Unfinished, Counted
<1> QED
  BY <1>5, <1>6, <1>10, <1>11

\* What counting the refused jobs does to the row.
LEMMA CountRefusedEffect ==
    ASSUME TypeOK, CountRefused
    PROVE  /\ row' \in Rows /\ row'.matched = row.matched
           /\ row'.scored + row'.errors = row.scored + row.errors + Cardinality(refused)
           /\ row'.status # row.status =>
                 /\ row.status = "running" /\ row'.status = "completed"
                 /\ row'.scored + row'.errors >= row.matched
<1>0. /\ Cardinality(refused) \in Nat
      /\ row.scored \in Nat /\ row.errors \in Nat /\ row.matched \in Nat
  BY JobSets DEF TypeOK, Rows
<1>1. CASE refused = {}
  BY <1>1, <1>0, FS_EmptySet DEF CountRefused, TypeOK
<1>2. CASE refused # {}
  <2>1. row' = Incremented(0, Cardinality(refused))
    BY <1>2 DEF CountRefused
  <2>2. /\ row' \in Rows /\ row'.matched = row.matched
        /\ row'.scored = row.scored /\ row'.errors = row.errors + Cardinality(refused)
        /\ row'.status # row.status =>
              /\ row.status = "running" /\ row'.status = "completed"
              /\ row.scored + 0 + row.errors + Cardinality(refused) >= row.matched
    <3>0. 0 \in Nat /\ row \in Rows /\ row.scored + 0 = row.scored
      BY <1>0 DEF TypeOK
    <3>2. /\ Incremented(0, Cardinality(refused)) \in Rows
          /\ Incremented(0, Cardinality(refused)).matched = row.matched
          /\ Incremented(0, Cardinality(refused)).scored = row.scored + 0
          /\ Incremented(0, Cardinality(refused)).errors = row.errors + Cardinality(refused)
          /\ Incremented(0, Cardinality(refused)).status # row.status =>
                /\ row.status = "running"
                /\ Incremented(0, Cardinality(refused)).status = "completed"
                /\ row.scored + 0 + row.errors + Cardinality(refused) >= row.matched
      BY <1>0, <3>0, IncrementEffect, Zenon
    <3> QED
      BY <2>1, <3>0, <3>2, Zenon
  <2> QED
    BY <1>0, <2>2
<1> QED
  BY <1>1, <1>2

\* The jobs that could not be enqueued are counted.
LEMMA CountRefusedKeeps ==
    ASSUME TypeOK, Inner, CountRefused
    PROVE  Inner'
<1> USE DEF Inner, Processes
<1>1. /\ at["emitter"] = "emit" /\ ToEmit = {}
      /\ at' = [at EXCEPT !["emitter"] = AfterEmit]
      /\ UNCHANGED <<snap, trigger, again, selected, refused, job>>
  BY DEF CountRefused, Goes
<1>2. /\ Cardinality(refused) \in Nat /\ Cardinality(Counted) \in Nat
      /\ Cardinality(selected) \in Nat
      /\ row.scored \in Nat /\ row.errors \in Nat /\ row.matched \in Nat
  BY JobSets DEF TypeOK, Counted, Rows
<1>3. /\ row' \in Rows /\ row'.matched = row.matched
      /\ row'.scored + row'.errors = row.scored + row.errors + Cardinality(refused)
      /\ row'.status # row.status =>
            /\ row.status = "running" /\ row'.status = "completed"
            /\ row'.scored + row'.errors >= row.matched
  BY CountRefusedEffect
<1>4. at'["server"] = at["server"] /\ at'["emitter"] \in {"fail", "done"}
  BY <1>1 DEF AfterEmit, TypeOK
<1>5. Places'
  <2>1. row'.status # "none"
    BY <1>1, <1>3 DEF Places
  <2>2. at'["emitter"] = "fail" => \A k \in Jobs : job[k] = "none"
    BY <1>1 DEF AfterEmit, TypeOK, Places
  <2> QED
    BY <1>1, <1>4, <2>1, <2>2 DEF Places, NoJobs
<1>6. WritersAreCurrent'
  BY <1>1, <1>4 DEF Places, WritersAreCurrent
<1>7. row.status = "running" =>
         /\ row.matched = Cardinality(selected)
         /\ row'.scored + row'.errors <= Cardinality(Counted) + Cardinality(refused)
  BY <1>1, <1>2, <1>3 DEF TargetAndTally
<1>8. Counted' = Counted /\ Unfinished' = Unfinished
  BY <1>1 DEF Counted, Unfinished
<1>9. TargetAndTally'
  BY <1>1, <1>3, <1>4, <1>7, <1>8 DEF TargetAndTally
<1>10. CompletedIsDone'
  <2> SUFFICES ASSUME row'.status = "completed", row.status = "running"
               PROVE  Unfinished = {}
    BY <1>3, <1>8 DEF CompletedIsDone
  <2>1. /\ refused \in SUBSET selected /\ Counted \in SUBSET selected
        /\ Counted \cap refused = {} /\ selected \in SUBSET Jobs
    BY DEF Places, Counted, TypeOK
  <2>2. Cardinality(Counted) + Cardinality(refused) >= Cardinality(selected)
    BY <1>2, <1>3, <1>7 DEF Rows
  <2>3. Counted \cup refused = selected
    BY <2>1, <2>2, PartsMakeWhole
  <2>4. \A k \in refused : job[k] = "none"
    BY DEF Places, TypeOK
  <2> QED
    BY <2>3, <2>4 DEF Unfinished, Counted
<1> QED
  BY <1>5, <1>6, <1>9, <1>10

\* The row is created.
LEMMA CreationKeeps ==
    ASSUME TypeOK, Inner, TriggerEvaluator \/ StartExecutionWithCount
    PROVE  Inner'
<1> USE DEF Inner, Processes
<1>1. row = NoRow /\ row.status = "none"
  BY DEF TriggerEvaluator, StartExecutionWithCount, NoRow
<1>2. /\ at["server"] = "idle" /\ trigger = "none" /\ at["emitter"] = "idle" /\ NoJobs
  BY <1>1 DEF Places
<1>3. Cardinality(Counted') = 0 /\ Cardinality({}) = 0
  <2>1. Counted' = {}
    BY <1>2 DEF Counted, NoJobs, TypeOK, TriggerEvaluator, StartExecutionWithCount
  <2> QED
    BY <2>1, FS_EmptySet
<1>4. CASE TriggerEvaluator
  <2>1. /\ row' = Started(0) /\ at' = [at EXCEPT !["server"] = "publish"]
        /\ UNCHANGED <<snap, trigger, again, selected, refused, job>>
    BY <1>4 DEF TriggerEvaluator, Goes
  <2>2. Places'
    BY <1>2, <2>1 DEF Places, NoJobs, Started, TypeOK
  <2>3. WritersAreCurrent'
    BY <1>2, <2>1 DEF WritersAreCurrent, TypeOK
  <2>4. TargetAndTally' /\ CompletedIsDone'
    BY <1>2, <1>3, <2>1 DEF TargetAndTally, CompletedIsDone, Started, NoJobs, TypeOK
  <2> QED
    BY <2>2, <2>3, <2>4
<1>5. CASE StartExecutionWithCount
  <2>1. PICK S \in SUBSET Jobs : row' = Started(Cardinality(S)) /\ selected' = S
    BY <1>5 DEF StartExecutionWithCount
  <2>2. /\ at' = [at EXCEPT !["emitter"] = "emit"]
        /\ UNCHANGED <<snap, trigger, again, refused, job>>
    BY <1>5 DEF StartExecutionWithCount, Goes
  <2>3. Places'
    BY <1>2, <2>1, <2>2 DEF Places, NoJobs, Started, TypeOK
  <2>4. WritersAreCurrent'
    BY <1>2, <2>2 DEF WritersAreCurrent, TypeOK
  <2>5. TargetAndTally' /\ CompletedIsDone'
    BY <1>2, <1>3, <2>1, <2>2 DEF TargetAndTally, CompletedIsDone, Started, NoJobs, TypeOK
  <2> QED
    BY <2>3, <2>4, <2>5
<1> QED
  BY <1>4, <1>5

\* A process moves on, and neither row, jobs nor what is selected change.
LEMMA MoveKeeps ==
    ASSUME TypeOK, Inner, Reliable',
           \/ Publish \/ PublishError \/ TakeTrigger \/ DiscoverError
           \/ CountRefusedError \/ ServerCrash \/ EmitterCrash
           \/ \E p \in Processes : ReadRow(p) \/ CloseError(p)
    PROVE  Inner'
<1> USE DEF Inner, Processes
<1>1. UNCHANGED <<row, selected, refused, job>>
  BY DEF Publish, PublishError, TakeTrigger, DiscoverError, CountRefusedError,
         ServerCrash, EmitterCrash, ReadRow, CloseError
<1>2. TargetAndTally'
  <2>1. at'["emitter"] = "emit" => at["emitter"] = "emit"
    BY DEF Publish, PublishError, TakeTrigger, DiscoverError, CountRefusedError,
           ServerCrash, EmitterCrash, ReadRow, CloseError, Goes, TypeOK, AfterEmit
  <2>2. Counted' = Counted /\ (NoJobs => NoJobs')
    BY <1>1 DEF Counted, NoJobs
  <2> QED
    BY <1>1, <2>1, <2>2, TallyKept DEF TypeOK
<1>3. CompletedIsDone'
  BY <1>1 DEF CompletedIsDone, Unfinished
<1>4. Places'
  <2>1. CASE Publish
    BY <2>1 DEF Publish, AddTrigger, Places, NoJobs, Goes, TypeOK
  <2>2. CASE PublishError
    <3>1. UNCHANGED <<trigger, again>>
      BY <2>2, NoLoss DEF PublishError, Ambiguous
    <3> QED
      BY <2>2, <3>1 DEF PublishError, Places, NoJobs, Goes, TypeOK
  <2>3. CASE TakeTrigger
    BY <2>3 DEF TakeTrigger, Places, NoJobs, Goes, TypeOK
  <2>4. CASE DiscoverError
    BY <2>4 DEF DiscoverError, Places, NoJobs, Goes, TypeOK
  <2>5. CASE CountRefusedError
    <3>1. /\ at["emitter"] = "emit"
          /\ at' = [at EXCEPT !["emitter"] = AfterEmit]
          /\ UNCHANGED <<row, trigger, again, selected, refused, job>>
      BY <2>5 DEF CountRefusedError, Goes
    <3>2. ToEmit = {}
      BY <2>5 DEF CountRefusedError
    <3>3. /\ at'["server"] = at["server"] /\ at'["emitter"] \in {"fail", "done"}
          /\ at'["emitter"] = "fail" => \A k \in Jobs : job[k] = "none"
      BY <3>1 DEF AfterEmit, TypeOK, Places
    <3> QED
      BY <3>1, <3>3 DEF Places, NoJobs
  <2>6. CASE ServerCrash
    BY <2>6 DEF ServerCrash, Places, NoJobs, Goes, TypeOK
  <2>7. CASE EmitterCrash
    BY <2>7 DEF EmitterCrash, Places, NoJobs, Goes, TypeOK
  <2>8. ASSUME NEW p \in Processes, ReadRow(p) PROVE Places'
    BY <2>8 DEF ReadRow, Places, NoJobs, Goes, TypeOK
  <2>9. ASSUME NEW p \in Processes, CloseError(p) PROVE Places'
    BY <2>9 DEF CloseError, Places, NoJobs, Goes, TypeOK
  <2> QED
    BY <2>1, <2>2, <2>3, <2>4, <2>5, <2>6, <2>7, <2>8, <2>9
<1>5. WritersAreCurrent'
  <2>1. ASSUME NEW p \in Processes, ReadRow(p) PROVE WritersAreCurrent'
    BY <1>1, <2>1 DEF ReadRow, WritersAreCurrent, Goes, TypeOK, Terminal
  <2>2. CASE ~\E p \in Processes : ReadRow(p)
    <3>1. \A p \in Processes : at'[p] \in {"failing", "completing"} =>
             at'[p] = at[p] /\ snap'[p] = snap[p]
      BY <2>2 DEF Publish, PublishError, TakeTrigger, DiscoverError, CountRefusedError,
                  ServerCrash, EmitterCrash, CloseError, Goes, TypeOK, AfterEmit
    <3> QED
      BY <1>1, <3>1 DEF WritersAreCurrent, Terminal
  <2> QED
    BY <2>1, <2>2
<1> QED
  BY <1>2, <1>3, <1>4, <1>5

\* The emitter decides which jobs there are, and how many.
LEMMA TargetKeeps ==
    ASSUME TypeOK, Inner, Discover \/ UpdateSpansMatched \/ UpdateSpansMatchedError
    PROVE  Inner'
<1> USE DEF Inner, Processes
<1>1. /\ at["emitter"] \in {"discover", "target"} /\ NoJobs
      /\ at["server"] \notin {"publish", "fail", "failing", "complete", "completing"}
      /\ UNCHANGED <<snap, trigger, again, refused, job>>
  BY DEF Discover, UpdateSpansMatched, UpdateSpansMatchedError, Places
<1>2. /\ at'["server"] = at["server"]
      /\ at'["emitter"] \in {"complete", "target", "emit", "fail"}
      /\ at'["emitter"] = "complete" => selected' = {}
      /\ NoJobs'
  BY <1>1 DEF Discover, UpdateSpansMatched, UpdateSpansMatchedError, Goes, TypeOK, NoJobs
<1>3. /\ row'.status = row.status /\ row'.scored = row.scored /\ row'.errors = row.errors
      /\ at'["emitter"] = "emit" => row'.matched = Cardinality(selected')
      /\ selected' \in SUBSET Jobs
  <2>1. CASE Discover
    BY <2>1, <1>1 DEF Discover, Goes, TypeOK
  <2> DEFINE r == [row EXCEPT !.matched = Cardinality(selected)]
  <2>2. /\ r.status = row.status /\ r.scored = row.scored /\ r.errors = row.errors
        /\ r.matched = Cardinality(selected)
    BY DEF TypeOK, Rows
  <2>3. CASE UpdateSpansMatched
    <3>1. row' = r /\ selected' = selected
      BY <2>3 DEF UpdateSpansMatched
    <3> HIDE DEF r
    <3> QED
      BY <2>2, <3>1 DEF TypeOK
  <2>4. CASE UpdateSpansMatchedError
    <3>1. row' \in {row, r} /\ selected' = selected /\ at'["emitter"] = "fail"
      BY <2>4 DEF UpdateSpansMatchedError, Goes, TypeOK
    <3> HIDE DEF r
    <3> QED
      BY <2>2, <3>1 DEF TypeOK
  <2> QED
    BY <2>1, <2>3, <2>4
<1>4. Places'
  BY <1>1, <1>2, <1>3 DEF Places, NoJobs
<1>5. WritersAreCurrent'
  BY <1>1, <1>2 DEF WritersAreCurrent
<1>6. Counted = {} /\ Counted' = {} /\ Cardinality({}) = 0 /\ refused = {}
  BY <1>1, <1>2, <1>3, FS_EmptySet DEF Counted, NoJobs, TypeOK
<1>7. TargetAndTally'
  BY <1>1, <1>2, <1>3, <1>6 DEF TargetAndTally
<1>8. CompletedIsDone'
  BY <1>1, <1>3 DEF Places, CompletedIsDone
<1> QED
  BY <1>4, <1>5, <1>7, <1>8

\* A job is put into the stream, or refused by it.
LEMMA EmitKeeps ==
    ASSUME TypeOK, Inner, Reliable', NEW j \in Jobs, EmitJob(j) \/ EmitError(j)
    PROVE  Inner'
<1> USE DEF Inner, Processes
<1>1. /\ at["emitter"] = "emit" /\ j \in selected /\ job[j] = "none" /\ j \notin refused
      /\ UNCHANGED <<row, at, snap, trigger, again, selected>>
      /\ \/ job' = [job EXCEPT ![j] = "queued"] /\ refused' = refused
         \/ job' = job /\ refused' = refused \cup {j}
  BY NoLoss DEF EmitJob, EmitError, ToEmit, Ambiguous
<1>2. Places'
  BY <1>1 DEF Places, NoJobs, TypeOK
<1>3. WritersAreCurrent'
  BY <1>1 DEF WritersAreCurrent
<1>4. Counted' = Counted
  BY <1>1 DEF Counted, TypeOK
<1>5. TargetAndTally'
  BY <1>1, <1>4, TallyKept DEF TypeOK
<1>6. CompletedIsDone'
  BY <1>1 DEF CompletedIsDone, Unfinished
<1> QED
  BY <1>2, <1>3, <1>5, <1>6

\* A job in the hands of the evaluation worker moves on.
LEMMA JobKeeps ==
    ASSUME TypeOK, Inner, NEW j \in Jobs, TakeJob(j) \/ Score(j) \/ DropJob(j)
    PROVE  Inner'
<1> USE DEF Inner, Processes
<1>1. /\ job[j] \in {"queued", "taken", "scored", "errored"}
      /\ UNCHANGED <<row, at, snap, trigger, again, selected, refused>>
  BY DEF TakeJob, Score, DropJob
<1>2. PICK v \in {"taken", "scored", "errored", "dropped"} : job' = [job EXCEPT ![j] = v]
  BY DEF TakeJob, Score, DropJob
<1>3. j \in selected /\ j \notin refused /\ ~NoJobs /\ ~NoJobs'
  BY <1>1, <1>2 DEF Places, NoJobs, TypeOK
<1>4. Places'
  BY <1>1, <1>2, <1>3 DEF Places, NoJobs, TypeOK
<1>5. WritersAreCurrent'
  BY <1>1 DEF WritersAreCurrent
<1>6. Counted' = Counted
  BY <1>1, <1>2 DEF Counted, TypeOK
<1>7. TargetAndTally'
  BY <1>1, <1>3, <1>6, TallyKept DEF TypeOK
<1>8. CompletedIsDone'
  BY <1>1, <1>3 DEF CompletedIsDone, Unfinished
<1> QED
  BY <1>4, <1>5, <1>7, <1>8

\* A row that was read is written.
LEMMA WriteKeeps ==
    ASSUME TypeOK, Inner, NEW p \in Processes, WriteRow(p)
    PROVE  Inner' /\ ~Terminal(row) /\ row'.scored >= row.scored /\ row'.errors >= row.errors
<1> USE DEF Inner, Processes
<1>1. /\ at[p] \in {"failing", "completing"} /\ row' = Closed(row, at[p]) /\ ~Terminal(row)
      /\ at' = [at EXCEPT ![p] = "done"]
      /\ UNCHANGED <<trigger, again, selected, refused, job>>
  BY DEF WriteRow, Goes, WritersAreCurrent
<1>2. /\ at[p] = "failing" => /\ row'.status = "failed"
                             /\ row'.scored = row.scored /\ row'.errors = row.errors
      /\ at[p] = "completing" => /\ row'.status = "completed"
                                /\ row'.scored = 0 /\ row'.errors = 0
  BY <1>1 DEF Closed, TypeOK, Rows
<1>3. at[p] = "completing" => p = "emitter" /\ selected = {}
  BY DEF Places
<1>4. \A k \in Jobs : job[k] = "none"
  BY <1>1 DEF Places, NoJobs
<1>5. Places'
  BY <1>1, <1>2, <1>3 DEF Places, NoJobs, TypeOK
<1>6. WritersAreCurrent'
  BY <1>1, <1>2 DEF WritersAreCurrent, Places, TypeOK
<1>7. TargetAndTally' /\ CompletedIsDone'
  BY <1>1, <1>2, <1>3 DEF TargetAndTally, CompletedIsDone, Unfinished
<1>8. row'.scored >= row.scored /\ row'.errors >= row.errors
  <2>1. row.scored \in Nat /\ row.errors \in Nat
    BY DEF TypeOK, Rows
  <2>2. CASE at[p] = "failing"
    BY <1>2, <2>1, <2>2
  <2>3. CASE at[p] = "completing"
    <3>1. at["emitter"] = "completing" /\ refused = {} /\ Counted = {}
      BY <1>3, <1>4, <2>3 DEF Places, NoJobs, Counted
    <3>2. row.status = "running"
      BY <1>1, <3>1 DEF Places, Terminal, TypeOK, Rows
    <3>3. row.scored + row.errors <= 0
      BY <3>1, <3>2, FS_EmptySet DEF TargetAndTally
    <3> QED
      BY <1>2, <2>1, <2>3, <3>3
  <2> QED
    BY <1>1, <2>2, <2>3
<1> QED
  BY <1>1, <1>5, <1>6, <1>7, <1>8

-----------------------------------------------------------------------------
(* The theorems.                                                           *)

LEMMA InitInvariant == Init => IInv
<1> SUFFICES ASSUME Init PROVE IInv
  OBVIOUS
<1>1. TypeOK
  BY InitTypes
<1>2. Places /\ WritersAreCurrent /\ CompletedIsDone /\ TargetAndTally
  BY DEF Init, Places, WritersAreCurrent, CompletedIsDone, TargetAndTally, NoJobs,
         NoRow, Processes
<1> QED
  BY <1>1, <1>2 DEF IInv

LEMMA StepInvariant == IInv /\ [Next]_vars => IInv'
<1> SUFFICES ASSUME IInv, [Next]_vars PROVE IInv'
  OBVIOUS
<1>1. TypeOK /\ TypeOK'
  BY StepTypes DEF IInv
<1>2. ASSUME Reliable' PROVE Inner'
  <2>1. Reliable
    <3>1. lost \in Nat /\ lost <= lost' /\ lost' = 0
      BY <1>1, <1>2, HistoryGrows DEF Reliable, TypeOK
    <3> QED
      BY <3>1 DEF Reliable
  <2>2. Inner
    BY <2>1 DEF IInv, Inner
  <2>3. CASE UNCHANGED vars
    BY <2>2, <2>3 DEF vars, Inner, Places, NoJobs, WritersAreCurrent, Terminal,
                      TargetAndTally, Counted, CompletedIsDone, Unfinished
  <2>5. ~PublishRepeat /\ ~TakeTriggerAgain /\ \A j \in Jobs : ~EmitRepeat(j)
    BY <1>1, <1>2, <2>2, NoRepeats DEF Inner
  <2>4. CASE Next
    BY <1>1, <1>2, <2>2, <2>4, <2>5, CreationKeeps, MoveKeeps, TargetKeeps, EmitKeeps,
       CountRefusedKeeps, JobKeeps, CountKeeps, WriteKeeps
       DEF Next, ServerStep, EmitterStep, CloseStep, JobStep
  <2> QED
    BY <2>3, <2>4
<1> QED
  BY <1>1, <1>2 DEF IInv, Inner

\* In every environment, and until the reply of an XADD is lost: jobs exist
\* only under their target, the counters count no unfinished job, and whoever
\* is about to write the row has read what it still is.
THEOREM InductiveInvariant == Spec => []IInv
  BY InitInvariant, StepInvariant, PTL DEF Spec

LEMMA StepUndoesNothing ==
    ASSUME IInv, [Next]_vars, Reliable
    PROVE  /\ Terminal(row) => row'.status = row.status
           /\ row'.scored >= row.scored /\ row'.errors >= row.errors
<1>1. TypeOK /\ Inner
  BY DEF IInv, Inner
<1>2. /\ row \in Rows /\ row.scored \in Nat /\ row.errors \in Nat
      /\ row.scored >= row.scored /\ row.errors >= row.errors
  BY <1>1 DEF TypeOK, Rows
<1>3. ASSUME NEW s \in Nat, NEW e \in Nat, row' = Incremented(s, e)
      PROVE  /\ Terminal(row) => row'.status = row.status
             /\ row'.scored >= row.scored /\ row'.errors >= row.errors
  <2>1. /\ row'.scored = row.scored + s /\ row'.errors = row.errors + e
        /\ row'.status # row.status => row.status = "running"
    BY <1>2, <1>3, IncrementEffect
  <2> QED
    BY <1>2, <2>1 DEF Terminal
<1>4. CASE CountRefused
  <2>1. CASE refused = {}
    BY <1>2, <1>4, <2>1 DEF CountRefused
  <2>2. CASE refused # {}
    <3>1. row' = Incremented(0, Cardinality(refused)) /\ Cardinality(refused) \in Nat
      BY <1>1, <1>4, <2>2, JobSets DEF CountRefused, TypeOK
    <3> QED
      BY <1>3, <3>1
  <2> QED
    BY <2>1, <2>2
<1>5. ASSUME NEW j \in Jobs, Count(j)
      PROVE  row' = Incremented(1, 0) \/ row' = Incremented(0, 1)
  BY <1>5 DEF Count
<1>6. CASE TriggerEvaluator \/ StartExecutionWithCount
  <2>1. row = NoRow /\ \E n : row' = Started(n)
    BY <1>6 DEF TriggerEvaluator, StartExecutionWithCount
  <2> QED
    BY <2>1 DEF NoRow, Started, Terminal
<1>7. CASE UpdateSpansMatched \/ UpdateSpansMatchedError
  <2>1. row' \in {row, [row EXCEPT !.matched = Cardinality(selected)]}
    BY <1>7 DEF UpdateSpansMatched, UpdateSpansMatchedError
  <2>2. row'.status = row.status /\ row'.scored = row.scored /\ row'.errors = row.errors
    BY <1>2, <2>1 DEF Rows
  <2> QED
    BY <1>2, <2>2
<1>8. CASE row' = row
  BY <1>2, <1>8
<1>9. row' = row \/ CountRefused \/ TriggerEvaluator \/ StartExecutionWithCount
      \/ UpdateSpansMatched \/ UpdateSpansMatchedError
      \/ (\E j \in Jobs : Count(j)) \/ (\E p \in Processes : WriteRow(p))
  BY DEF Next, vars, ServerStep, EmitterStep, CloseStep, JobStep, Publish, PublishRepeat,
         PublishError, TakeTrigger, TakeTriggerAgain, Discover, DiscoverError,
         CountRefusedError, EmitJob, EmitRepeat, EmitError,
         ReadRow, CloseError, TakeJob, Score, DropJob, ServerCrash, EmitterCrash
<1> QED
  BY <1>1, <1>3, <1>4, <1>5, <1>6, <1>7, <1>8, <1>9, WriteKeeps

\* A closed execution stays as it was closed and no count is undone, until
\* the reply of an XADD is lost: the writes of whole rows by FailExecution and
\* CompleteExecution never meet a row that changed since they read it.
THEOREM ClosedStaysClosed == Spec => NothingUndone
<1>1. IInv /\ [Next]_vars =>
        [Reliable => /\ Terminal(row) => row'.status = row.status
                     /\ row'.scored >= row.scored /\ row'.errors >= row.errors]_vars
  BY StepUndoesNothing
<1> QED
  BY <1>1, InductiveInvariant, PTL DEF Spec, NothingUndone

-----------------------------------------------------------------------------
(* What holds although replies of XADD are lost: the server fails an       *)
(* execution that is being carried out, a job that was refused and is in   *)
(* the stream all the same counts twice, and so does one of which the      *)
(* client added a copy.  A row that the server closed is failed for good,  *)
(* so a completed row was never written from a stale one, and its counters *)
(* are those of its jobs, as long as the execution is carried out once.    *)

\* Where the processes can be together, while there is one trigger.
Together ==
    /\ row.status = "none" =>
         at["server"] = "idle" /\ at["emitter"] = "idle" /\ trigger = "none"
    /\ at["server"] = "publish" => trigger = "none" /\ at["emitter"] = "idle"
    /\ trigger = "queued" => at["emitter"] = "idle"
    /\ at["server"] \notin {"complete", "completing"} /\ at["emitter"] # "publish"
    /\ at["emitter"] \in {"idle", "discover", "target", "complete", "completing"} => NoJobs
    /\ at["emitter"] \in {"idle", "discover", "target"} => row.status # "completed"
    /\ at["emitter"] \in {"complete", "completing"} => selected = {}
    /\ refused \subseteq selected
    /\ again = 0

\* The jobs that are on the row, the copies of jobs among them.
OnRow == {j \in Jobs : job[j] = "counted"}

\* The refused jobs that are on the row already.
RefusedCounted == IF at["emitter"] = "emit" THEN {} ELSE refused

\* The target and the counters of a row that no process has failed.
Tallied ==
    /\ \/ row.status = "completed"
       \/ row.status = "running" /\ (at["emitter"] = "emit" \/ ~NoJobs)
       => row.matched = Cardinality(selected)
    /\ row.status \in {"running", "completed"} =>
         row.scored + row.errors <= Cardinality(OnRow) + Cardinality(RefusedCounted)
    /\ row.status = "completed" => row.scored + row.errors >= row.matched

OnceInv == TypeOK /\ Together /\ Tallied

SInv == TypeOK /\ (Once => Together /\ Tallied)

\* The numbers the tally is about.
LEMMA TallyNumbers ==
    ASSUME TypeOK
    PROVE  /\ row.matched \in Nat /\ row.scored \in Nat /\ row.errors \in Nat
           /\ Cardinality(selected) \in Nat /\ Cardinality(OnRow) \in Nat
           /\ Cardinality(refused) \in Nat /\ Cardinality(RefusedCounted) \in Nat
           /\ Cardinality({}) = 0
<1>1. {selected, OnRow, refused, RefusedCounted} \subseteq SUBSET Jobs
  BY DEF TypeOK, OnRow, RefusedCounted
<1>2. row.matched \in Nat /\ row.scored \in Nat /\ row.errors \in Nat
  BY DEF TypeOK, Rows
<1> QED
  BY <1>1, <1>2, JobSets, FS_EmptySet

\* The tally is not disturbed by a step that keeps the row and what is counted.
LEMMA TalliedKept ==
    ASSUME TypeOK, Tallied, row' = row, selected' = selected,
           OnRow' = OnRow, refused' \in SUBSET Jobs, refused \subseteq refused',
           at'["emitter"] = "emit" => at["emitter"] = "emit",
           at["emitter"] = "emit" \/ (NoJobs => NoJobs')
    PROVE  Tallied'
<1>1. RefusedCounted \subseteq RefusedCounted' /\ RefusedCounted' \in SUBSET Jobs
  BY DEF RefusedCounted, TypeOK
<1>2. PICK R, S : R = RefusedCounted /\ S = RefusedCounted'
  OBVIOUS
<1>3. /\ Cardinality(R) \in Nat /\ Cardinality(S) \in Nat
      /\ Cardinality(R) <= Cardinality(S)
  BY <1>1, <1>2, JobSets, FS_Subset
<1>4. PICK c, n : c = Cardinality(OnRow) /\ n = row.scored + row.errors /\ c \in Nat /\ n \in Nat
  BY TallyNumbers
<1>5. row.status \in {"running", "completed"} => n <= c + Cardinality(S)
  BY <1>2, <1>3, <1>4 DEF Tallied
<1>6. row'.status \in {"running", "completed"} =>
         row'.scored + row'.errors <= Cardinality(OnRow') + Cardinality(RefusedCounted')
  BY <1>2, <1>4, <1>5
<1>7. \/ row'.status = "completed"
      \/ row'.status = "running" /\ (at'["emitter"] = "emit" \/ ~NoJobs')
      => row'.matched = Cardinality(selected')
  BY DEF Tallied
<1> QED
  BY <1>6, <1>7 DEF Tallied

\* The row is created.
LEMMA CreationTallies ==
    ASSUME OnceInv, TriggerEvaluator \/ StartExecutionWithCount
    PROVE  Together' /\ Tallied'
<1> USE DEF OnceInv, Processes
<1>1. row = NoRow /\ row.status = "none"
  BY DEF TriggerEvaluator, StartExecutionWithCount, NoRow
<1>2. /\ at["server"] = "idle" /\ trigger = "none" /\ at["emitter"] = "idle" /\ NoJobs
  BY <1>1 DEF Together
<1>3. Cardinality(OnRow') = 0 /\ Cardinality({}) = 0 /\ Cardinality(RefusedCounted') = 0
  <2>1. OnRow' = {} /\ RefusedCounted' = {}
    BY <1>2 DEF OnRow, NoJobs, TypeOK, TriggerEvaluator, StartExecutionWithCount,
                RefusedCounted
  <2> QED
    BY <2>1, FS_EmptySet
<1>4. CASE TriggerEvaluator
  <2>1. /\ row' = Started(0) /\ at' = [at EXCEPT !["server"] = "publish"]
        /\ UNCHANGED <<snap, trigger, again, selected, refused, job>>
    BY <1>4 DEF TriggerEvaluator, Goes
  <2>2. Together'
    BY <1>2, <2>1 DEF Together, NoJobs, Started, TypeOK
  <2>3. Tallied'
    BY <1>2, <1>3, <2>1 DEF Tallied, Started, NoJobs, TypeOK
  <2> QED
    BY <2>2, <2>3
<1>5. CASE StartExecutionWithCount
  <2>1. PICK S \in SUBSET Jobs : row' = Started(Cardinality(S)) /\ selected' = S
    BY <1>5 DEF StartExecutionWithCount
  <2>2. /\ at' = [at EXCEPT !["emitter"] = "emit"]
        /\ UNCHANGED <<snap, trigger, again, refused, job>>
    BY <1>5 DEF StartExecutionWithCount, Goes
  <2>3. Together'
    BY <1>2, <2>1, <2>2 DEF Together, NoJobs, Started, TypeOK
  <2>4. Tallied'
    BY <1>3, <2>1 DEF Tallied, Started
  <2> QED
    BY <2>3, <2>4
<1> QED
  BY <1>4, <1>5

\* A process moves on, and neither row, jobs nor what is selected change.
LEMMA MoveTallies ==
    ASSUME OnceInv,
           \/ Publish \/ PublishError \/ TakeTrigger \/ DiscoverError
           \/ CountRefusedError \/ ServerCrash \/ EmitterCrash
           \/ \E p \in Processes : ReadRow(p) \/ CloseError(p)
    PROVE  Together' /\ Tallied'
<1> USE DEF OnceInv, Processes
<1>1. UNCHANGED <<row, selected, refused, job>>
  BY DEF Publish, PublishError, TakeTrigger, DiscoverError, CountRefusedError,
         ServerCrash, EmitterCrash, ReadRow, CloseError
<1>2. Tallied'
  <2>1. at'["emitter"] = "emit" => at["emitter"] = "emit"
    BY DEF Publish, PublishError, TakeTrigger, DiscoverError, CountRefusedError,
           ServerCrash, EmitterCrash, ReadRow, CloseError, Goes, TypeOK, AfterEmit
  <2>2. OnRow' = OnRow /\ (NoJobs => NoJobs')
    BY <1>1 DEF OnRow, NoJobs
  <2> QED
    BY <1>1, <2>1, <2>2, TalliedKept DEF TypeOK
<1>3. Together'
  <2>1. CASE Publish
    BY <2>1 DEF Publish, AddTrigger, Together, NoJobs, Goes, TypeOK
  <2>2. CASE PublishError
    BY <2>2 DEF PublishError, AddTrigger, Together, NoJobs, Goes, TypeOK
  <2>3. CASE TakeTrigger
    BY <2>3 DEF TakeTrigger, Together, NoJobs, Goes, TypeOK
  <2>4. CASE DiscoverError
    BY <2>4 DEF DiscoverError, Together, NoJobs, Goes, TypeOK
  <2>5. CASE CountRefusedError
    <3>1. /\ at["emitter"] = "emit"
          /\ at' = [at EXCEPT !["emitter"] = AfterEmit]
          /\ UNCHANGED <<row, trigger, again, selected, refused, job>>
      BY <2>5 DEF CountRefusedError, Goes
    <3>2. at'["server"] = at["server"] /\ at'["emitter"] \in {"fail", "done"}
      BY <3>1 DEF AfterEmit, TypeOK
    <3> QED
      BY <3>1, <3>2 DEF Together, NoJobs
  <2>6. CASE ServerCrash
    BY <2>6 DEF ServerCrash, Together, NoJobs, Goes, TypeOK
  <2>7. CASE EmitterCrash
    BY <2>7 DEF EmitterCrash, Together, NoJobs, Goes, TypeOK
  <2>8. ASSUME NEW p \in Processes, ReadRow(p) PROVE Together'
    BY <2>8 DEF ReadRow, Together, NoJobs, Goes, TypeOK
  <2>9. ASSUME NEW p \in Processes, CloseError(p) PROVE Together'
    BY <2>9 DEF CloseError, Together, NoJobs, Goes, TypeOK
  <2> QED
    BY <2>1, <2>2, <2>3, <2>4, <2>5, <2>6, <2>7, <2>8, <2>9
<1> QED
  BY <1>2, <1>3

\* The emitter decides which jobs there are, and how many.
LEMMA TargetTallies ==
    ASSUME OnceInv, Discover \/ UpdateSpansMatched \/ UpdateSpansMatchedError
    PROVE  Together' /\ Tallied'
<1> USE DEF OnceInv, Processes
<1>1. /\ at["emitter"] \in {"discover", "target"} /\ NoJobs /\ trigger # "queued"
      /\ at["server"] # "publish" /\ row.status \notin {"none", "completed"}
      /\ UNCHANGED <<snap, trigger, again, refused, job>>
  BY DEF Discover, UpdateSpansMatched, UpdateSpansMatchedError, Together
<1>2. /\ at'["server"] = at["server"]
      /\ at'["emitter"] \in {"complete", "target", "emit", "fail"}
      /\ at'["emitter"] = "complete" => selected' = {}
      /\ NoJobs'
  BY <1>1 DEF Discover, UpdateSpansMatched, UpdateSpansMatchedError, Goes, TypeOK, NoJobs
<1>3. /\ row'.status = row.status /\ row'.scored = row.scored /\ row'.errors = row.errors
      /\ at'["emitter"] = "emit" => row'.matched = Cardinality(selected')
      /\ selected' \in SUBSET Jobs
  <2>1. CASE Discover
    BY <2>1, <1>1 DEF Discover, Goes, TypeOK
  <2> DEFINE r == [row EXCEPT !.matched = Cardinality(selected)]
  <2>2. /\ r.status = row.status /\ r.scored = row.scored /\ r.errors = row.errors
        /\ r.matched = Cardinality(selected)
    BY DEF TypeOK, Rows
  <2>3. CASE UpdateSpansMatched
    <3>1. row' = r /\ selected' = selected
      BY <2>3 DEF UpdateSpansMatched
    <3> HIDE DEF r
    <3> QED
      BY <2>2, <3>1 DEF TypeOK
  <2>4. CASE UpdateSpansMatchedError
    <3>1. row' \in {row, r} /\ selected' = selected /\ at'["emitter"] = "fail"
      BY <2>4 DEF UpdateSpansMatchedError, Goes, TypeOK
    <3> HIDE DEF r
    <3> QED
      BY <2>2, <3>1 DEF TypeOK
  <2> QED
    BY <2>1, <2>3, <2>4
<1>4. Together'
  BY <1>1, <1>2, <1>3 DEF Together, NoJobs
<1>5. /\ OnRow = {} /\ OnRow' = {} /\ RefusedCounted = {} /\ RefusedCounted' = {}
      /\ Cardinality({}) = 0
  BY <1>1, <1>2, <1>3, FS_EmptySet DEF OnRow, NoJobs, TypeOK, RefusedCounted
<1>6. Tallied'
  BY <1>1, <1>2, <1>3, <1>5 DEF Tallied
<1> QED
  BY <1>4, <1>6

\* A job is put into the stream, or refused by it, or both, or copied.
LEMMA EmitTallies ==
    ASSUME OnceInv, NEW j \in Jobs, EmitJob(j) \/ EmitRepeat(j) \/ EmitError(j)
    PROVE  Together' /\ Tallied'
<1> USE DEF OnceInv, Processes
<1>1. /\ at["emitter"] = "emit" /\ j \in selected
      /\ UNCHANGED <<row, at, snap, trigger, again, selected>>
      /\ refused' = refused \/ refused' = refused \cup {j}
  BY DEF EmitJob, EmitRepeat, EmitError, ToEmit
<1>2. job' = job \/ \E k \in Jobs : job[k] = "none" /\ job' = [job EXCEPT ![k] = "queued"]
  BY DEF EmitJob, EmitRepeat, EmitError, ToEmit
<1>3. Together'
  BY <1>1 DEF Together
<1>4. OnRow' = OnRow
  BY <1>2 DEF OnRow, TypeOK
<1>5. Tallied'
  BY <1>1, <1>4, TalliedKept DEF TypeOK
<1> QED
  BY <1>3, <1>5

\* A job in the hands of the evaluation worker moves on.
LEMMA JobTallies ==
    ASSUME OnceInv, NEW j \in Jobs, TakeJob(j) \/ Score(j) \/ DropJob(j)
    PROVE  Together' /\ Tallied'
<1> USE DEF OnceInv, Processes
<1>1. /\ job[j] \in {"queued", "taken", "scored", "errored"}
      /\ UNCHANGED <<row, at, snap, trigger, again, selected, refused>>
  BY DEF TakeJob, Score, DropJob
<1>2. PICK v \in {"taken", "scored", "errored", "dropped"} : job' = [job EXCEPT ![j] = v]
  BY DEF TakeJob, Score, DropJob
<1>3. ~NoJobs /\ ~NoJobs'
  BY <1>1, <1>2 DEF NoJobs, TypeOK
<1>4. Together'
  BY <1>1, <1>2, <1>3 DEF Together, NoJobs, TypeOK
<1>5. OnRow' = OnRow
  BY <1>1, <1>2 DEF OnRow, TypeOK
<1>6. Tallied'
  BY <1>1, <1>3, <1>5, TalliedKept DEF TypeOK
<1> QED
  BY <1>4, <1>6

\* A finished job is counted.
LEMMA CountTallies ==
    ASSUME OnceInv, NEW j \in Jobs, Count(j)
    PROVE  Together' /\ Tallied'
<1> USE DEF OnceInv, Processes
<1>1. /\ job[j] \in {"scored", "errored"}
      /\ job' = [job EXCEPT ![j] = "counted"]
      /\ UNCHANGED <<at, snap, trigger, again, selected, refused>>
  BY DEF Count
<1>2. j \notin OnRow /\ ~NoJobs /\ ~NoJobs'
  BY <1>1 DEF Together, NoJobs, TypeOK, OnRow
<1>3. /\ row' \in Rows /\ row'.matched = row.matched
      /\ row'.scored + row'.errors = row.scored + row.errors + 1
      /\ row'.status # row.status =>
            /\ row.status = "running" /\ row'.status = "completed"
            /\ row'.scored + row'.errors >= row.matched
  BY CountEffect
<1>4. Together'
  BY <1>1, <1>2, <1>3 DEF Together, NoJobs, TypeOK
<1>5. Cardinality(OnRow') = Cardinality(OnRow) + 1
  <2>1. OnRow' = OnRow \cup {j}
    BY <1>1, <1>2 DEF OnRow, TypeOK
  <2>2. IsFiniteSet(OnRow)
    BY JobSets DEF OnRow, TypeOK
  <2> QED
    BY <1>2, <2>1, <2>2, FS_AddElement
<1>6. RefusedCounted' = RefusedCounted
  BY <1>1 DEF RefusedCounted
<1>7. Tallied'
  <2>1. row.status \in {"running", "completed"} => row.matched = Cardinality(selected)
    BY <1>2 DEF Tallied
  <2>2. PICK c, r, n : /\ c = Cardinality(OnRow) /\ r = Cardinality(RefusedCounted)
                       /\ n = row.scored + row.errors
                       /\ c \in Nat /\ r \in Nat /\ n \in Nat /\ row.matched \in Nat
    BY TallyNumbers
  <2>3. row'.status \in {"running", "completed"} => row.status \in {"running", "completed"}
    BY <1>3
  <2>4. row.status \in {"running", "completed"} => n <= c + r
    BY <2>2 DEF Tallied
  <2>5. row.status = "completed" => n >= row.matched
    BY <2>2 DEF Tallied
  <2>6. row'.status \in {"running", "completed"} =>
           row'.scored + row'.errors <= Cardinality(OnRow') + Cardinality(RefusedCounted')
    BY <1>3, <1>5, <1>6, <2>2, <2>3, <2>4
  <2>7. row'.status = "completed" => row'.scored + row'.errors >= row'.matched
    BY <1>3, <2>2, <2>5
  <2>8. row'.status \in {"running", "completed"} => row'.matched = Cardinality(selected')
    BY <1>1, <1>3, <2>1, <2>3
  <2> QED
    BY <2>6, <2>7, <2>8 DEF Tallied
<1> QED
  BY <1>4, <1>7

\* The refused jobs are counted, those that are in the stream among them.
LEMMA CountRefusedTallies ==
    ASSUME OnceInv, CountRefused
    PROVE  Together' /\ Tallied'
<1> USE DEF OnceInv, Processes
<1>1. /\ at["emitter"] = "emit"
      /\ at' = [at EXCEPT !["emitter"] = AfterEmit]
      /\ UNCHANGED <<snap, trigger, again, selected, refused, job>>
  BY DEF CountRefused, Goes
<1>2. /\ row' \in Rows /\ row'.matched = row.matched
      /\ row'.scored + row'.errors = row.scored + row.errors + Cardinality(refused)
      /\ row'.status # row.status =>
            /\ row.status = "running" /\ row'.status = "completed"
            /\ row'.scored + row'.errors >= row.matched
  BY CountRefusedEffect
<1>3. at'["server"] = at["server"] /\ at'["emitter"] \in {"fail", "done"}
  BY <1>1 DEF AfterEmit, TypeOK
<1>4. Together'
  BY <1>1, <1>2, <1>3 DEF Together, NoJobs
<1>5. /\ RefusedCounted = {} /\ RefusedCounted' = refused /\ OnRow' = OnRow
  BY <1>1, <1>3 DEF RefusedCounted, OnRow
<1>6. Tallied'
  <2>1. row.status \in {"running", "completed"} => row.matched = Cardinality(selected)
    BY <1>1 DEF Tallied
  <2>2. PICK c, r, n : /\ c = Cardinality(OnRow) /\ r = Cardinality(refused)
                       /\ n = row.scored + row.errors
                       /\ c \in Nat /\ r \in Nat /\ n \in Nat /\ row.matched \in Nat
    BY TallyNumbers
  <2>3. row'.status \in {"running", "completed"} => row.status \in {"running", "completed"}
    BY <1>2
  <2>4. row.status \in {"running", "completed"} => n <= c + 0
    BY <1>5, <2>2, FS_EmptySet DEF Tallied
  <2>5. row.status = "completed" => n >= row.matched
    BY <2>2 DEF Tallied
  <2>6. row'.status \in {"running", "completed"} =>
           row'.scored + row'.errors <= Cardinality(OnRow') + Cardinality(RefusedCounted')
    BY <1>2, <1>5, <2>2, <2>3, <2>4
  <2>7. row'.status = "completed" => row'.scored + row'.errors >= row'.matched
    BY <1>2, <2>2, <2>5
  <2>8. row'.status \in {"running", "completed"} => row'.matched = Cardinality(selected')
    BY <1>1, <1>2, <2>1, <2>3
  <2> QED
    BY <2>6, <2>7, <2>8 DEF Tallied
<1> QED
  BY <1>4, <1>6

\* A row that was read, however long ago, is written.
LEMMA WriteTallies ==
    ASSUME OnceInv, NEW p \in Processes, WriteRow(p)
    PROVE  Together' /\ Tallied'
<1> USE DEF OnceInv, Processes
<1>1. /\ at[p] \in {"failing", "completing"} /\ row' = Closed(snap[p], at[p])
      /\ at' = [at EXCEPT ![p] = "done"]
      /\ UNCHANGED <<trigger, again, selected, refused, job>>
  BY DEF WriteRow, Goes
<1>2. CASE at[p] = "failing"
  <2>1. row'.status = "failed"
    BY <1>1, <1>2 DEF Closed, TypeOK, Rows
  <2>2. Together'
    BY <1>1, <1>2, <2>1 DEF Together, NoJobs, TypeOK
  <2> QED
    BY <2>1, <2>2 DEF Tallied
<1>3. CASE at[p] = "completing"
  <2>1. p = "emitter" /\ selected = {} /\ NoJobs
    BY <1>3 DEF Together
  <2>2. /\ row'.status = "completed" /\ row'.matched = 0
        /\ row'.scored = 0 /\ row'.errors = 0
    BY <1>1, <1>3 DEF Closed
  <2>3. Together'
    BY <1>1, <1>3, <2>1, <2>2 DEF Together, NoJobs, TypeOK
  <2>4. OnRow' = {} /\ RefusedCounted' = {} /\ Cardinality({}) = 0
    BY <1>1, <2>1, FS_EmptySet DEF OnRow, RefusedCounted, NoJobs, TypeOK
  <2>5. Tallied'
    BY <1>1, <2>1, <2>2, <2>4 DEF Tallied
  <2> QED
    BY <2>3, <2>5
<1> QED
  BY <1>1, <1>2, <1>3

LEMMA TalliesStep == SInv /\ [Next]_vars => SInv'
<1> SUFFICES ASSUME SInv, [Next]_vars PROVE SInv'
  OBVIOUS
<1>1. TypeOK /\ TypeOK'
  BY StepTypes DEF SInv
<1>2. ASSUME Once' PROVE Together' /\ Tallied'
  <2>1. Once
    BY <1>1, <1>2, HistoryGrows DEF Once
  <2>2. OnceInv
    BY <2>1 DEF SInv, OnceInv
  <2>3. ~PublishRepeat /\ ~TakeTriggerAgain
    <3>1. ~Event("trigger_repeat")
      BY <1>2 DEF Once, Event, KindsOf
    <3> QED
      BY <2>2, <3>1 DEF PublishRepeat, TakeTriggerAgain, OnceInv, Together
  <2>4. CASE UNCHANGED vars
    BY <2>2, <2>4 DEF vars, OnceInv, Together, NoJobs, Tallied, OnRow, RefusedCounted
  <2>5. CASE Next
    BY <2>2, <2>3, <2>5, CreationTallies, MoveTallies, TargetTallies, EmitTallies,
       CountRefusedTallies, JobTallies, CountTallies, WriteTallies
       DEF Next, ServerStep, EmitterStep, CloseStep, JobStep
  <2> QED
    BY <2>4, <2>5
<1> QED
  BY <1>1, <1>2 DEF SInv

LEMMA TalliesInit == Init => SInv
<1> SUFFICES ASSUME Init PROVE SInv
  OBVIOUS
<1>1. TypeOK
  BY InitTypes
<1>2. Together /\ Tallied
  BY DEF Init, Together, Tallied, NoJobs, NoRow, Processes
<1> QED
  BY <1>1, <1>2 DEF SInv

\* The selected jobs that were counted and not refused are on the row rightly;
\* all others on the row are there once too often.
LEMMA CountedTwice ==
    ASSUME TypeOK, Together
    PROVE  /\ Cardinality(OnRow) + Cardinality(refused) <=
                Cardinality(selected) + Cardinality(Surplus)
           /\ Cardinality(OnRow) <= Cardinality(selected) + Cardinality(Surplus)
<1> DEFINE A == {j \in selected \ refused : job[j] = "counted"}
<1>1. /\ A \in SUBSET Jobs /\ refused \in SUBSET Jobs /\ A \cap refused = {}
      /\ Surplus \in SUBSET Jobs /\ A \cup Surplus \in SUBSET Jobs
      /\ selected \in SUBSET Jobs
      /\ OnRow \subseteq A \cup Surplus /\ A \cup refused \subseteq selected
  BY DEF TypeOK, Together, OnRow, Surplus
<1> HIDE DEF A
<1>2. PICK s, o, r, u, a, ar, au :
         /\ s = Cardinality(selected) /\ o = Cardinality(OnRow) /\ r = Cardinality(refused)
         /\ u = Cardinality(Surplus) /\ a = Cardinality(A)
         /\ ar = Cardinality(A \cup refused) /\ au = Cardinality(A \cup Surplus)
  OBVIOUS
<1>3. ar = a + r /\ au <= a + u /\ a \in Nat /\ r \in Nat /\ u \in Nat
  BY <1>1, <1>2, UnionCount
<1>4. s \in Nat /\ ar \in Nat /\ ar <= s
  BY <1>1, <1>2, JobSets, FS_Subset
<1>5. o \in Nat /\ au \in Nat /\ o <= au
  BY <1>1, <1>2, JobSets, FS_Subset
<1> QED
  BY <1>2, <1>3, <1>4, <1>5

\* The jobs that are neither counted nor refused are as many as the tally
\* exceeds the others: no more than there are jobs once too often.
LEMMA UnfinishedFew ==
    ASSUME TypeOK, Together,
           Cardinality(OnRow) + Cardinality(refused) >= Cardinality(selected)
    PROVE  Cardinality(Unfinished) <= Cardinality(Surplus)
<1> DEFINE C == {j \in selected : job[j] = "counted"}
           N == {j \in refused : job[j] = "none"}
           M == {j \in refused : job[j] # "none"}
           K == {j \in Jobs \ selected : job[j] # "none"}
<1>1. /\ C \in SUBSET Jobs /\ N \in SUBSET Jobs /\ M \in SUBSET Jobs /\ K \in SUBSET Jobs
      /\ Unfinished \in SUBSET Jobs /\ C \cup N \in SUBSET Jobs /\ selected \in SUBSET Jobs
      /\ Unfinished \cap (C \cup N) = {} /\ C \cap N = {} /\ N \cap M = {} /\ K \cap M = {}
      /\ Unfinished \cup (C \cup N) = selected
      /\ refused = N \cup M /\ Surplus = K \cup M /\ OnRow \subseteq C \cup K
      /\ C \cup K \in SUBSET Jobs
  BY DEF TypeOK, Together, OnRow, Unfinished, Surplus
<1> HIDE DEF C, N, M, K
<1>2. PICK s, o, r, f, u, c, n, m, k, cn, ck :
         /\ s = Cardinality(selected) /\ o = Cardinality(OnRow) /\ r = Cardinality(refused)
         /\ f = Cardinality(Unfinished) /\ u = Cardinality(Surplus)
         /\ c = Cardinality(C) /\ n = Cardinality(N) /\ m = Cardinality(M) /\ k = Cardinality(K)
         /\ cn = Cardinality(C \cup N) /\ ck = Cardinality(C \cup K)
  OBVIOUS
<1>3. s = f + cn /\ cn = c + n /\ f \in Nat /\ c \in Nat /\ n \in Nat
  BY <1>1, <1>2, UnionCount
<1>4. r = n + m /\ u = k + m /\ m \in Nat /\ k \in Nat
  BY <1>1, <1>2, UnionCount
<1>5. ck <= c + k /\ o <= ck /\ o \in Nat /\ ck \in Nat
  BY <1>1, <1>2, UnionCount, JobSets, FS_Subset
<1> QED
  BY <1>2, <1>3, <1>4, <1>5

\* In every environment, lost replies, repeated jobs and dying processes
\* included, the counters of a completed execution that was triggered once
\* reach the number of its spans, and exceed it only by the jobs that are in
\* the stream once too often.
THEOREM CompletionAddsUp == Spec => []CompletedAddsUp
<1>1. SInv => CompletedAddsUp
  <2> SUFFICES ASSUME SInv, Once, row.status = "completed"
               PROVE  /\ row.scored + row.errors >= row.matched
                      /\ row.scored + row.errors <= row.matched + Cardinality(Surplus)
    BY DEF CompletedAddsUp
  <2>1. /\ row.matched = Cardinality(selected)
        /\ row.scored + row.errors >= row.matched
        /\ row.scored + row.errors <= Cardinality(OnRow) + Cardinality(RefusedCounted)
    BY DEF SInv, Tallied, Once
  <2>2. Surplus \in SUBSET Jobs
    BY DEF Surplus, SInv, TypeOK
  <2>3. PICK n, m : n = row.scored + row.errors /\ m = Cardinality(Surplus)
                    /\ n \in Nat /\ m \in Nat
    BY <2>2, TallyNumbers, JobSets DEF SInv
  <2>4. Cardinality(OnRow) + Cardinality(RefusedCounted) <= Cardinality(selected) + m
    BY <2>3, CountedTwice, TallyNumbers DEF SInv, RefusedCounted
  <2>5. n <= Cardinality(selected) + m
    BY <2>1, <2>3, <2>4, TallyNumbers DEF SInv
  <2> QED
    BY <2>1, <2>3, <2>5
<1> QED
  BY <1>1, TalliesInit, TalliesStep, PTL DEF Spec

\* In every environment, at most as many spans of a completed execution that
\* was triggered once are unfinished as jobs are in the stream once too often
\* (the order "set spans_matched, emit, count" of the workers).
THEOREM CompletionIsTrue == Spec => []CompletedMeansDone
<1>1. SInv => CompletedMeansDone
  <2> SUFFICES ASSUME SInv, Once, row.status = "completed"
               PROVE  Cardinality(Unfinished) <= Cardinality(Surplus)
    BY DEF CompletedMeansDone
  <2>1. Cardinality(OnRow) + Cardinality(refused) >= Cardinality(selected)
    <3>1. PICK n \in Nat : /\ n = row.scored + row.errors /\ n >= Cardinality(selected)
                           /\ n <= Cardinality(OnRow) + Cardinality(RefusedCounted)
      BY TallyNumbers DEF SInv, Tallied
    <3> QED
      BY <3>1, TallyNumbers DEF SInv, RefusedCounted
  <2> QED
    BY <2>1, UnfinishedFew DEF SInv
<1> QED
  BY <1>1, TalliesInit, TalliesStep, PTL DEF Spec
=============================================================================

------------------------- MODULE PromptRegistryProofs -------------------------
(***************************************************************************)
(* Proofs about PromptRegistry, for any prompts, names, labels and calls,  *)
(* with and without failures.                                              *)
(*                                                                         *)
(* CacheFollows is inductive with the types, since it says of every stale  *)
(* entry who will drop it: a call that makes an entry stale owes its name, *)
(* unless it knows the prompt by another name; scanning for keys finds     *)
(* every entry that is stale by then; and only what was found stops being  *)
(* owed when it is dropped.                                                *)
(***************************************************************************)
EXTENDS PromptRegistry, TLAPS

AllCalls == Working \cup Owing \cup Scanned \cup {Idle}

-----------------------------------------------------------------------------
(* Calls.                                                                  *)

\* A call that becomes something leaves the others alone.
LEMMA Becoming ==
    ASSUME TypeOK, NEW r \in Calls, NEW c \in AllCalls, Fits(c), Becomes(r, c)
    PROVE  /\ call' \in [Calls -> AllCalls] /\ \A o \in Calls : Fits(call'[o])
           /\ call'[r] = c /\ \A o \in Calls \ {r} : call'[o] = call[o]
BY DEF TypeOK, Becomes, AllCalls

\* A call at a step of its work is a call on a prompt.
LEMMA WorkingAt ==
    ASSUME TypeOK, NEW r \in Calls,
           call[r].at \notin {"idle", "invalidate", "scanned"}
    PROVE  call[r] \in Working
BY DEF TypeOK, Working, Owing, Scanned, Idle

\* Calls that work on no prompt.
LEMMA Workless ==
    /\ Idle \in AllCalls /\ Fits(Idle)
    /\ \A S \in SUBSET Names : Owes(S) \in AllCalls /\ Fits(Owes(S)) /\ Owes(S).names = S
                               /\ Owes(S).at = "invalidate"
    /\ Idle.names = {}
BY DEF AllCalls, Idle, Owing, Owes, Fits, Working

\* A call goes on with its work.
LEMMA Going ==
    ASSUME NEW c \in Working, Fits(c), c.at # "labels",
           NEW step \in {"store", "lock", "insert"}, NEW v \in 1 .. MaxVersions,
           IF step = "store" THEN c.at = "label" ELSE c.at \notin {"label", "store"}
    PROVE  /\ Goes(c, step, v) \in AllCalls /\ Fits(Goes(c, step, v))
           /\ Goes(c, step, v).names = c.names /\ c.names = {}
<1> DEFINE g == Goes(c, step, v)
<1>1. v \in 0 .. MaxVersions /\ v # 0
  BY RegistryAssumption
<1>2. /\ g \in Working
      /\ g.row = c.row /\ g.at = step /\ g.num = v /\ g.add = c.add /\ g.names = c.names
  BY <1>1 DEF Goes, Working
<1>3. /\ c.names = {} /\ c.row.name \in Names
      /\ c.add \subseteq IF step = "store" THEN Asked ELSE Labels
  BY DEF Fits
<1> HIDE DEF g
<1>4. g.names = {} /\ g.num # 0 /\ g.row.name \in Names
  BY <1>1, <1>2, <1>3
<1>5. g.add \subseteq IF g.at \in {"label", "store"} THEN Asked ELSE Labels
  BY <1>2, <1>3
<1>6. Fits(g)
  BY <1>4, <1>5 DEF Fits
<1> QED
  BY <1>2, <1>3, <1>6 DEF AllCalls, g

\* A call has labels left.
LEMMA Leftover ==
    ASSUME NEW c \in Working, Fits(c), c.at \in {"list", "labels"},
           NEW drop \in SUBSET Labels, NEW add \in SUBSET c.add,
           NEW names \in SUBSET {c.row.name}
    PROVE  /\ Left(c, drop, add, names) \in AllCalls /\ Fits(Left(c, drop, add, names))
           /\ Left(c, drop, add, names).names = names
           /\ Left(c, drop, add, names).at = "labels"
<1> DEFINE g == Left(c, drop, add, names)
<1>1. c.add \subseteq Labels /\ c.row.name \in Names
  BY DEF Fits
<1>2. /\ g \in Working
      /\ g.row = c.row /\ g.at = "labels" /\ g.add = add /\ g.names = names
  BY <1>1 DEF Left, Working, AllLabels
<1> HIDE DEF g
<1>3. g.names \subseteq {n \in {g.row.name} : g.at = "labels"}
  BY <1>2
<1>4. g.row.name \in Names /\ g.add \subseteq Labels
  BY <1>1, <1>2
<1>5. Fits(g)
  BY <1>2, <1>3, <1>4 DEF Fits
<1> QED
  BY <1>2, <1>5 DEF AllCalls, g

\* A call begins.
LEMMA Reading ==
    ASSUME TypeOK, NEW r \in Calls, NEW p \in Ids,
           NEW step \in {"label", "number", "save", "delete", "list"},
           NEW v \in 0 .. MaxVersions, NEW S \in SUBSET AllLabels,
           S \subseteq IF step = "label" THEN Asked ELSE Labels,
           Reads(r, p, step, v, S)
    PROVE  /\ call' \in [Calls -> AllCalls] /\ \A o \in Calls : Fits(call'[o])
           /\ call[r].at = "idle" /\ call'[r].names = {}
           /\ call'[r] \in Working => call'[r].row.state = "live"
           /\ \A o \in Calls \ {r} : call'[o] = call[o]
           /\ UNCHANGED <<prompt, versions, label, cache, missed>>
<1> DEFINE c == [at |-> step, id |-> p, row |-> prompt[p], num |-> v,
                 drop |-> {}, add |-> S, names |-> {}]
<1>1. prompt[p] \in Row /\ prompt[p].name \in Names /\ prompt[p].state = "live"
  BY DEF Reads, TypeOK
<1>2. c \in Working
  BY <1>1 DEF Working
<1>3. Fits(c) /\ c \in AllCalls
  BY <1>1, <1>2 DEF Fits, AllCalls
<1>4. Becomes(r, c) /\ call[r].at = "idle"
     /\ UNCHANGED <<prompt, versions, label, cache, missed>>
  BY DEF Reads, At
<1>5. c.names = {} /\ c.row.state = "live"
  BY <1>1
<1> HIDE DEF c
<1> QED
  BY <1>3, <1>4, <1>5, Becoming

\* Every step by which a call begins.
LEMMA Beginning ==
    ASSUME TypeOK, NEW r \in Calls, Begin(r)
    PROVE  /\ call' \in [Calls -> AllCalls] /\ \A o \in Calls : Fits(call'[o])
           /\ call[r].at = "idle" /\ call'[r].names = {}
           /\ call'[r] \in Working => call'[r].row.state = "live"
           /\ \A o \in Calls \ {r} : call'[o] = call[o]
           /\ UNCHANGED <<prompt, versions, label, cache, missed>>
<1>1. 0 \in 0 .. MaxVersions /\ {} \in SUBSET AllLabels
  BY RegistryAssumption
<1>2. CASE BeginGet(r)
  <2>1. PICK p \in Ids, l \in Asked : Reads(r, p, "label", 0, {l})
    BY <1>2 DEF BeginGet
  <2>2. {l} \in SUBSET AllLabels
    BY RegistryAssumption
  <2> QED
    BY <1>1, <2>1, <2>2, Reading
<1>3. CASE BeginVersion(r)
  <2>1. PICK p \in Ids, S \in SUBSET Labels : Reads(r, p, "number", 0, S)
    BY <1>3 DEF BeginVersion
  <2>2. S \in SUBSET AllLabels
    BY DEF AllLabels
  <2> QED
    BY <1>1, <2>1, <2>2, Reading
<1>4. CASE BeginUpdate(r)
  <2>1. PICK p \in Ids : Reads(r, p, "save", 0, {})
    BY <1>4 DEF BeginUpdate
  <2> QED
    BY <1>1, <2>1, Reading
<1>5. CASE BeginDelete(r)
  <2>1. PICK p \in Ids : Reads(r, p, "delete", 0, {})
    BY <1>5 DEF BeginDelete
  <2> QED
    BY <1>1, <2>1, Reading
<1>6. CASE BeginSetLabels(r)
  <2>1. PICK p \in Ids, S \in SUBSET Labels : \E v \in 1 .. versions[p] :
          Reads(r, p, "list", v, S)
    BY <1>6 DEF BeginSetLabels
  <2>2. PICK v \in 1 .. versions[p] : Reads(r, p, "list", v, S)
    BY <2>1
  <2>3. v \in 0 .. MaxVersions /\ S \in SUBSET AllLabels
    BY RegistryAssumption DEF TypeOK, AllLabels
  <2> QED
    BY <2>2, <2>3, Reading
<1> QED
  BY <1>2, <1>3, <1>4, <1>5, <1>6 DEF Begin

-----------------------------------------------------------------------------
(* Types.                                                                  *)

\* What is left or missed are entries.
LEMMA LeftType ==
    ASSUME TypeOK, NEW S
    PROVE  /\ missed \cup Leaving(S) \subseteq Names \X Asked
           /\ \A r \in Calls : Misses(r, S) => missed' \subseteq Names \X Asked
BY DEF TypeOK, Leaving, Misses

\* The labels of a prompt after a new version.
LEMMA LabelledType ==
    ASSUME TypeOK, NEW p \in Ids, NEW v \in 0 .. MaxVersions, NEW S
    PROVE  Labelled(p, v, S) \in [Ids -> [AllLabels -> 0 .. MaxVersions]]
<1> DEFINE f == [l \in AllLabels |-> IF l \in S \cup {Latest} THEN v ELSE label[p][l]]
<1>1. f \in [AllLabels -> 0 .. MaxVersions]
  BY DEF TypeOK
<1>2. label \in [Ids -> [AllLabels -> 0 .. MaxVersions]]
  BY DEF TypeOK
<1> HIDE DEF f
<1>3. [label EXCEPT ![p] = f] \in [Ids -> [AllLabels -> 0 .. MaxVersions]]
  BY <1>1, <1>2
<1> QED
  BY <1>3 DEF Labelled, f

\* A call ends.
LEMMA Ending ==
    ASSUME TypeOK, NEW r \in Calls, Ends(r)
    PROVE  TypeOK'
<1>1. call' \in [Calls -> AllCalls] /\ \A o \in Calls : Fits(call'[o])
  BY Becoming, Workless DEF Ends
<1>2. missed' \subseteq Names \X Asked
  BY LeftType DEF Ends
<1> QED
  BY <1>1, <1>2 DEF Ends, TypeOK, AllCalls

\* A call writes, and owes names.
LEMMA Owed ==
    ASSUME TypeOK, NEW r \in Calls, NEW S \in SUBSET Names, Becomes(r, Owes(S))
    PROVE  /\ call' \in [Calls -> AllCalls] /\ \A o \in Calls : Fits(call'[o])
           /\ call'[r].names = S /\ call'[r].at = "invalidate"
           /\ \A o \in Calls \ {r} : call'[o] = call[o]
<1>1. Owes(S) \in AllCalls /\ Fits(Owes(S)) /\ Owes(S).names = S /\ Owes(S).at = "invalidate"
  BY Workless
<1>2. /\ call' \in [Calls -> AllCalls] /\ \A o \in Calls : Fits(call'[o])
      /\ call'[r] = Owes(S) /\ \A o \in Calls \ {r} : call'[o] = call[o]
  BY <1>1, Becoming
<1> QED
  BY <1>1, <1>2

LEMMA GetType ==
    ASSUME TypeOK, NEW r \in Calls, ReadLabel(r) \/ Store(r) \/ SkipStore(r)
    PROVE  TypeOK'
<1>1. CASE ReadLabel(r)
  <2>1. PICK l \in call[r].add :
          Becomes(r, IF label[call[r].id][l] = 0 THEN Idle
                     ELSE Goes(call[r], "store", label[call[r].id][l]))
    BY <1>1 DEF ReadLabel
  <2>2. call[r] \in Working /\ Fits(call[r]) /\ call[r].at = "label"
    BY <1>1, WorkingAt DEF ReadLabel, At, TypeOK
  <2>3. label[call[r].id][l] \in 0 .. MaxVersions
    BY <2>2 DEF TypeOK, Working
  <2>4. call' \in [Calls -> AllCalls] /\ \A o \in Calls : Fits(call'[o])
    <3>1. CASE label[call[r].id][l] = 0
      BY <2>1, <3>1, Becoming, Workless
    <3>2. CASE label[call[r].id][l] # 0
      <4>1. label[call[r].id][l] \in 1 .. MaxVersions
        BY <2>3, <3>2, RegistryAssumption
      <4> DEFINE c == Goes(call[r], "store", label[call[r].id][l])
      <4>2. c \in AllCalls /\ Fits(c)
        BY <2>2, <4>1, Going
      <4>3. Becomes(r, c)
        BY <2>1, <3>2
      <4> HIDE DEF c
      <4> QED
        BY <4>2, <4>3, Becoming
    <3> QED
      BY <3>1, <3>2
  <2> QED
    BY <1>1, <2>4 DEF ReadLabel, TypeOK, AllCalls
<1>2. CASE Store(r)
  <2>1. call[r] \in Working /\ Fits(call[r]) /\ call[r].at = "store"
    BY <1>2, WorkingAt DEF Store, At, TypeOK
  <2> DEFINE n == call[r].row.name
             e == [id |-> call[r].id, version |-> call[r].num]
  <2>2. PICK l \in call[r].add :
          /\ cache' = [cache EXCEPT ![n] = [cache[n] EXCEPT ![l] = e]]
          /\ missed' = IF Current(e, n, l) THEN missed \ {<<n, l>>}
                       ELSE missed \cup {<<n, l>>}
    BY <1>2, Zenon DEF Store
  <2>3. l \in Asked /\ n \in Names /\ e \in Entry
    <3>1. call[r].num \in 1 .. MaxVersions /\ call[r].id \in Ids
      BY <2>1, RegistryAssumption DEF Fits, Working
    <3> QED
      BY <2>1, <2>2, <3>1 DEF Fits, Entry
  <2> HIDE DEF n, e
  <2>4. [cache[n] EXCEPT ![l] = e] \in [Asked -> Entry \cup {None}]
    BY <2>3 DEF TypeOK
  <2>5. cache' \in [Names -> [Asked -> Entry \cup {None}]]
    BY <2>2, <2>3, <2>4 DEF TypeOK
  <2>6. missed' \subseteq Names \X Asked
    <3>1. <<n, l>> \in Names \X Asked
      BY <2>3
    <3>2. missed' \subseteq missed \cup {<<n, l>>}
      BY <2>2, Zenon
    <3>3. missed \subseteq Names \X Asked
      BY Zenon DEF TypeOK
    <3> QED
      BY <3>1, <3>2, <3>3
  <2>7. call' \in [Calls -> AllCalls] /\ \A o \in Calls : Fits(call'[o])
    BY <1>2, Becoming, Workless DEF Store
  <2> QED
    BY <1>2, <2>5, <2>6, <2>7 DEF Store, TypeOK, AllCalls
<1>3. CASE SkipStore(r)
  BY <1>3, Ending DEF SkipStore
<1> QED
  BY <1>1, <1>2, <1>3

LEMMA VersionType ==
    ASSUME TypeOK, NEW r \in Calls,
           CreatePrompt(r) \/ ReadNumber(r) \/ LockVersions(r) \/ CreateVersion(r)
    PROVE  TypeOK'
<1>1. CASE CreatePrompt(r)
  <2>1. PICK p \in Ids, n \in Names, S \in SUBSET Labels :
          /\ prompt' = [prompt EXCEPT ![p] = Live(n)]
          /\ versions' = [versions EXCEPT ![p] = 1]
          /\ label' = Labelled(p, 1, S)
          /\ Becomes(r, Owes({n}))
    BY <1>1 DEF CreatePrompt
  <2>2. 1 \in 0 .. MaxVersions
    BY RegistryAssumption
  <2>3. /\ prompt' \in [Ids -> Row]
        /\ \A q \in Ids : prompt'[q].state = "live" => prompt'[q].name \in Names
    BY <2>1 DEF TypeOK, Row, Live
  <2>4. /\ versions' \in [Ids -> 0 .. MaxVersions]
        /\ label' \in [Ids -> [AllLabels -> 0 .. MaxVersions]]
    BY <2>1, <2>2, LabelledType DEF TypeOK
  <2>5. call' \in [Calls -> AllCalls] /\ \A o \in Calls : Fits(call'[o])
    BY <2>1, Owed
  <2> QED
    BY <1>1, <2>3, <2>4, <2>5 DEF CreatePrompt, TypeOK, AllCalls
<1>2. CASE ReadNumber(r)
  <2>1. call[r] \in Working /\ Fits(call[r]) /\ call[r].at = "number"
    BY <1>2, WorkingAt DEF ReadNumber, At, TypeOK
  <2>2. versions[call[r].id] + 1 \in 1 .. MaxVersions
    BY <1>2, <2>1, RegistryAssumption DEF ReadNumber, TypeOK, Working
  <2>3. LET c == Goes(call[r], "lock", versions[call[r].id] + 1) IN c \in AllCalls /\ Fits(c)
    BY <2>1, <2>2, Going
  <2>4. call' \in [Calls -> AllCalls] /\ \A o \in Calls : Fits(call'[o])
    BY <1>2, <2>3, Becoming DEF ReadNumber
  <2> QED
    BY <1>2, <2>4 DEF ReadNumber, TypeOK, AllCalls
<1>3. CASE LockVersions(r)
  <2>1. call[r] \in Working /\ Fits(call[r]) /\ call[r].at = "lock"
    BY <1>3, WorkingAt DEF LockVersions, At, TypeOK
  <2>2. call[r].num \in 1 .. MaxVersions
    BY <2>1, RegistryAssumption DEF Fits, Working
  <2>3. LET c == Goes(call[r], "insert", call[r].num) IN c \in AllCalls /\ Fits(c)
    BY <2>1, <2>2, Going
  <2>4. call' \in [Calls -> AllCalls] /\ \A o \in Calls : Fits(call'[o])
    BY <1>3, <2>3, Becoming DEF LockVersions
  <2> QED
    BY <1>3, <2>4 DEF LockVersions, TypeOK, AllCalls
<1>4. CASE CreateVersion(r)
  <2>1. call[r] \in Working /\ Fits(call[r]) /\ call[r].at = "insert"
    BY <1>4, WorkingAt DEF CreateVersion, At, TypeOK
  <2>2. CASE Ends(r)
    BY <2>2, Ending
  <2>3. CASE ~Ends(r)
    <3>1. /\ versions' = [versions EXCEPT ![call[r].id] = call[r].num]
          /\ label' = Labelled(call[r].id, call[r].num, call[r].add)
          /\ Becomes(r, Owes({call[r].row.name}))
          /\ Misses(r, {call[r].row.name})
          /\ UNCHANGED <<prompt, cache>>
      BY <1>4, <2>3 DEF CreateVersion
    <3>2. call[r].num \in 0 .. MaxVersions /\ call[r].id \in Ids /\ call[r].row.name \in Names
      BY <2>1 DEF Working, Fits
    <3>3. /\ versions' \in [Ids -> 0 .. MaxVersions]
          /\ label' \in [Ids -> [AllLabels -> 0 .. MaxVersions]]
      BY <3>1, <3>2, LabelledType DEF TypeOK
    <3>4. call' \in [Calls -> AllCalls] /\ \A o \in Calls : Fits(call'[o])
      BY <3>1, <3>2, Owed
    <3>5. missed' \subseteq Names \X Asked
      BY <3>1, LeftType
    <3> QED
      BY <3>1, <3>3, <3>4, <3>5 DEF TypeOK, AllCalls
  <2> QED
    BY <2>2, <2>3
<1> QED
  BY <1>1, <1>2, <1>3, <1>4

LEMMA RowType ==
    ASSUME TypeOK, NEW r \in Calls, UpdatePrompt(r) \/ DeletePrompt(r)
    PROVE  TypeOK'
<1>1. call[r] \in Working /\ Fits(call[r])
  BY WorkingAt DEF UpdatePrompt, DeletePrompt, At, TypeOK
<1>2. call[r].id \in Ids /\ call[r].row.name \in Names
  BY <1>1 DEF Working, Fits
<1>3. CASE Ends(r)
  BY <1>3, Ending
<1>4. CASE UpdatePrompt(r) /\ ~Ends(r)
  <2>1. PICK n \in Names : Saved(r, n, {call[r].row.name, n})
    BY <1>4 DEF UpdatePrompt
  <2>2. /\ prompt' \in [Ids -> Row]
        /\ \A q \in Ids : prompt'[q].state = "live" => prompt'[q].name \in Names
    BY <1>2, <2>1 DEF Saved, TypeOK, Row, Live
  <2>3. call' \in [Calls -> AllCalls] /\ \A o \in Calls : Fits(call'[o])
    BY <1>2, <2>1, Owed DEF Saved
  <2>4. missed' \subseteq Names \X Asked
    BY <2>1, LeftType DEF Saved
  <2> QED
    BY <2>1, <2>2, <2>3, <2>4 DEF Saved, TypeOK, AllCalls
<1>5. CASE DeletePrompt(r)
  <2>1. prompt' \in [Ids -> Row]
    BY <1>2, <1>5 DEF DeletePrompt, TypeOK, Row
  <2>2. \A q \in Ids : prompt'[q].state = "live" => prompt'[q].name \in Names
    BY <1>2, <1>5 DEF DeletePrompt, TypeOK
  <2>3. call' \in [Calls -> AllCalls] /\ \A o \in Calls : Fits(call'[o])
    BY <1>2, <1>5, Owed DEF DeletePrompt
  <2>4. missed' \subseteq Names \X Asked
    BY <1>5, LeftType DEF DeletePrompt
  <2> QED
    BY <1>5, <2>1, <2>2, <2>3, <2>4 DEF DeletePrompt, TypeOK, AllCalls
<1> QED
  BY <1>3, <1>4, <1>5

\* A label is moved, or removed.
LEMMA LabellingType ==
    ASSUME TypeOK, NEW r \in Calls, At(r, "labels"), NEW l \in Labels,
           NEW v \in 0 .. MaxVersions, Labelling(r, l, v)
    PROVE  TypeOK'
<1>1. call[r] \in Working /\ Fits(call[r]) /\ call[r].at = "labels"
  BY WorkingAt DEF At, TypeOK
<1>2. /\ call[r].id \in Ids /\ call[r].row.name \in Names
      /\ call[r].drop \ {l} \in SUBSET Labels /\ call[r].add \ {l} \in SUBSET call[r].add
  BY <1>1 DEF Working, Fits
<1>3. label' \in [Ids -> [AllLabels -> 0 .. MaxVersions]]
  <2>1. label[call[r].id] \in [AllLabels -> 0 .. MaxVersions]
    BY <1>2 DEF TypeOK
  <2>2. [label[call[r].id] EXCEPT ![l] = v] \in [AllLabels -> 0 .. MaxVersions]
    BY <2>1
  <2> QED
    BY <1>2, <2>2 DEF Labelling, TypeOK
<1>4. call' \in [Calls -> AllCalls] /\ \A o \in Calls : Fits(call'[o])
  <2> DEFINE c == Left(call[r], call[r].drop \ {l}, call[r].add \ {l}, {call[r].row.name})
  <2>1. c \in AllCalls /\ Fits(c)
    BY <1>1, <1>2, Leftover
  <2>2. Becomes(r, c)
    BY DEF Labelling
  <2> HIDE DEF c
  <2> QED
    BY <2>1, <2>2, Becoming
<1>5. missed' \subseteq Names \X Asked
  BY LeftType DEF Labelling
<1> QED
  BY <1>3, <1>4, <1>5 DEF Labelling, TypeOK, AllCalls

LEMMA LabelType ==
    ASSUME TypeOK, NEW r \in Calls,
           \/ ListLabels(r) \/ RemoveLabel(r) \/ SetLabel(r) \/ RefuseLabel(r)
           \/ LabelsDone(r)
    PROVE  TypeOK'
<1>1. call[r] \in Working /\ Fits(call[r]) /\ call[r].at \in {"list", "labels"}
  BY WorkingAt DEF ListLabels, RemoveLabel, SetLabel, RefuseLabel, LabelsDone, At, TypeOK
<1>2. /\ call[r].add \subseteq Labels /\ call[r].drop \subseteq Labels
      /\ call[r].num \in 0 .. MaxVersions /\ 0 \in 0 .. MaxVersions
      /\ call[r].row.name \in Names
  BY <1>1, RegistryAssumption DEF Working, Fits
<1>3. CASE ListLabels(r)
  <2> DEFINE now == {l \in Labels : label[call[r].id][l] = call[r].num}
             c == Left(call[r], now \ call[r].add, call[r].add, {})
  <2>1. now \ call[r].add \in SUBSET Labels
    OBVIOUS
  <2>2. Becomes(r, c)
    BY <1>3 DEF ListLabels
  <2> HIDE DEF now
  <2>3. c \in AllCalls /\ Fits(c)
    BY <1>1, <2>1, Leftover
  <2> HIDE DEF c
  <2>4. call' \in [Calls -> AllCalls] /\ \A o \in Calls : Fits(call'[o])
    BY <2>2, <2>3, Becoming
  <2> QED
    BY <1>3, <2>4 DEF ListLabels, TypeOK, AllCalls
<1>4. CASE Ends(r)
  BY <1>4, Ending
<1>5. CASE RemoveLabel(r) /\ ~Ends(r)
  BY <1>2, <1>5, LabellingType DEF RemoveLabel
<1>6. CASE SetLabel(r)
  BY <1>2, <1>6, LabellingType DEF SetLabel
<1>7. CASE LabelsDone(r)
  <2>1. call' \in [Calls -> AllCalls] /\ \A o \in Calls : Fits(call'[o])
    BY <1>2, <1>7, Owed DEF LabelsDone
  <2> QED
    BY <1>7, <2>1 DEF LabelsDone, TypeOK, AllCalls
<1> QED
  BY <1>3, <1>4, <1>5, <1>6, <1>7 DEF RefuseLabel

\* A call whose keys were found.
LEMMA ScannedAt ==
    ASSUME TypeOK, NEW r \in Calls, call[r].at = "scanned"
    PROVE  call[r] \in Scanned
BY DEF TypeOK, Working, Owing, Scanned, Idle

LEMMA OwingAt ==
    ASSUME TypeOK, NEW r \in Calls, call[r].at = "invalidate"
    PROVE  call[r] \in Owing
BY DEF TypeOK, Working, Owing, Scanned, Idle

LEMMA CacheType ==
    ASSUME TypeOK, NEW r \in Calls, Scan(r) \/ Drop(r)
    PROVE  TypeOK'
<1>1. CASE Scan(r)
  <2>1. PICK n \in call[r].names :
          Becomes(r, [at |-> "scanned", names |-> call[r].names, name |-> n,
                      found |-> Cached(n)])
    BY <1>1 DEF Scan
  <2> DEFINE c == [at |-> "scanned", names |-> call[r].names, name |-> n,
                   found |-> Cached(n)]
  <2>2. call[r].names \subseteq Names /\ n \in Names
    BY <1>1, OwingAt DEF Scan, At, Owing
  <2>3. c \in Scanned
    BY <2>2 DEF Scanned, Cached
  <2>4. c \in AllCalls /\ Fits(c)
    BY <2>3 DEF AllCalls, Fits, Working, Scanned
  <2>5. Becomes(r, c)
    BY <2>1
  <2> HIDE DEF c
  <2>6. call' \in [Calls -> AllCalls] /\ \A o \in Calls : Fits(call'[o])
    BY <2>4, <2>5, Becoming
  <2> QED
    BY <1>1, <2>6 DEF Scan, TypeOK, AllCalls
<1>2. CASE Drop(r)
  <2>1. call[r] \in Scanned
    BY <1>2, ScannedAt DEF Drop, At
  <2>2. Paid(call[r]) \in AllCalls /\ Fits(Paid(call[r]))
    <3>1. call[r].names \ {call[r].name} \in SUBSET Names
      BY <2>1 DEF Scanned
    <3> QED
      BY <3>1, Workless DEF Paid
  <2>3. call' \in [Calls -> AllCalls] /\ \A o \in Calls : Fits(call'[o])
    BY <1>2, <2>2, Becoming DEF Drop
  <2>4. cache' \in [Names -> [Asked -> Entry \cup {None}]]
    <3>1. call[r].name \in Names
      BY <2>1 DEF Scanned
    <3>2. CASE UNCHANGED cache
      BY <3>2 DEF TypeOK
    <3>3. CASE ~UNCHANGED cache
      <4> DEFINE f == [l \in Asked |-> IF l \in call[r].found THEN None
                                       ELSE cache[call[r].name][l]]
      <4>1. cache' = [cache EXCEPT ![call[r].name] = f]
        BY <1>2, <3>3 DEF Drop
      <4>2. f \in [Asked -> Entry \cup {None}]
        BY <3>1 DEF TypeOK
      <4> HIDE DEF f
      <4> QED
        BY <3>1, <4>1, <4>2 DEF TypeOK
    <3> QED
      BY <3>2, <3>3
  <2>5. missed' \subseteq Names \X Asked
    <3>1. \/ missed' \subseteq missed
          \/ missed' = missed \cup Leaving({call[r].name})
      BY <1>2 DEF Drop
    <3> QED
      BY <3>1, LeftType DEF TypeOK
  <2> QED
    BY <1>2, <2>3, <2>4, <2>5 DEF Drop, TypeOK, AllCalls
<1> QED
  BY <1>1, <1>2

LEMMA ExpireType ==
    ASSUME TypeOK, NEW n \in Names, NEW l \in Asked, Expire(n, l)
    PROVE  TypeOK'
<1>1. [cache[n] EXCEPT ![l] = None] \in [Asked -> Entry \cup {None}]
  BY DEF TypeOK
<1>2. cache' \in [Names -> [Asked -> Entry \cup {None}]]
  BY <1>1 DEF Expire, TypeOK
<1>3. missed' \subseteq Names \X Asked
  BY DEF Expire, TypeOK
<1> QED
  BY <1>2, <1>3 DEF Expire, TypeOK

LEMMA TypeStep == TypeOK /\ [Next]_vars => TypeOK'
<1> SUFFICES ASSUME TypeOK, [Next]_vars PROVE TypeOK'
  OBVIOUS
<1>1. CASE UNCHANGED vars
  BY <1>1 DEF vars, TypeOK
<1>2. ASSUME NEW r \in Calls, Begin(r)
      PROVE  TypeOK'
  BY <1>2, Beginning DEF TypeOK, AllCalls
<1>3. ASSUME NEW r \in Calls, CallStep(r) \/ Abort(r)
      PROVE  TypeOK'
  BY <1>3, GetType, VersionType, RowType, LabelType, CacheType, Ending DEF CallStep, Abort
<1>4. ASSUME NEW n \in Names, NEW l \in Asked, Expire(n, l)
      PROVE  TypeOK'
  BY <1>4, ExpireType
<1> QED
  BY <1>1, <1>2, <1>3, <1>4 DEF Next

LEMMA InitType == Init => TypeOK
BY RegistryAssumption, Workless
DEF Init, TypeOK, Row, Absent, Live, AllCalls, Idle, Working, Fits, Owing, Scanned

\* Prompts, labels, entries and calls keep their types.
THEOREM TypeCorrect == Spec => []TypeOK
BY InitType, TypeStep, PTL DEF Spec

-----------------------------------------------------------------------------
(* Latest.                                                                 *)

\* A step that leaves the versions and every prompt's latest as they are.
LatestKept == versions' = versions /\ \A p \in Ids : label'[p][Latest] = label[p][Latest]

LEMMA LatestLabelled ==
    ASSUME TypeOK, NEW p \in Ids, NEW v, NEW S, label' = Labelled(p, v, S)
    PROVE  /\ label'[p][Latest] = v
           /\ \A q \in Ids \ {p} : label'[q] = label[q]
BY DEF TypeOK, Labelled, AllLabels

\* Moving a label of the clients leaves latest where it is.
LEMMA LabellingKeeps ==
    ASSUME TypeOK, NEW r \in Calls, NEW l \in Labels, NEW v, Labelling(r, l, v)
    PROVE  LatestKept
<1>1. l # Latest
  BY RegistryAssumption
<1>2. /\ label' = [label EXCEPT ![call[r].id] = [label[call[r].id] EXCEPT ![l] = v]]
      /\ label \in [Ids -> [AllLabels -> 0 .. MaxVersions]]
      /\ versions' = versions
  BY DEF Labelling, TypeOK
<1>3. ASSUME NEW p \in Ids
      PROVE  label'[p][Latest] = label[p][Latest]
  <2>1. CASE p = call[r].id
    <3>1. label'[p] = [label[p] EXCEPT ![l] = v]
      BY <1>2, <2>1
    <3> QED
      BY <1>1, <3>1
  <2>2. CASE p # call[r].id
    BY <1>2, <2>2
  <2> QED
    BY <2>1, <2>2
<1> QED
  BY <1>2, <1>3 DEF LatestKept

LEMMA LatestStep == TypeOK /\ LatestIsHighest /\ [Next]_vars => LatestIsHighest'
<1> SUFFICES ASSUME TypeOK, LatestIsHighest, [Next]_vars PROVE LatestIsHighest'
  OBVIOUS
<1>1. CASE LatestKept
  BY <1>1 DEF LatestKept, LatestIsHighest
<1>2. CASE UNCHANGED <<versions, label>>
  BY <1>2 DEF LatestIsHighest
<1>3. ASSUME NEW r \in Calls, CreatePrompt(r)
      PROVE  LatestIsHighest'
  <2>1. PICK p \in Ids, n \in Names, S \in SUBSET Labels :
          versions' = [versions EXCEPT ![p] = 1] /\ label' = Labelled(p, 1, S)
    BY <1>3 DEF CreatePrompt
  <2>2. label'[p][Latest] = 1 /\ \A q \in Ids \ {p} : label'[q] = label[q]
    BY <2>1, LatestLabelled
  <2> QED
    BY <2>1, <2>2 DEF LatestIsHighest, TypeOK
<1>4. ASSUME NEW r \in Calls, CreateVersion(r), ~Ends(r)
      PROVE  LatestIsHighest'
  <2>1. call[r].id \in Ids
    BY <1>4, WorkingAt DEF CreateVersion, At, Working
  <2>2. /\ versions' = [versions EXCEPT ![call[r].id] = call[r].num]
        /\ label' = Labelled(call[r].id, call[r].num, call[r].add)
    BY <1>4 DEF CreateVersion
  <2>3. /\ label'[call[r].id][Latest] = call[r].num
        /\ \A q \in Ids \ {call[r].id} : label'[q] = label[q]
    BY <2>1, <2>2, LatestLabelled
  <2> QED
    BY <2>1, <2>2, <2>3 DEF LatestIsHighest, TypeOK
<1>5. ASSUME NEW r \in Calls, RemoveLabel(r) \/ SetLabel(r), ~Ends(r)
      PROVE  LatestKept
  <2>1. call[r].drop \cup call[r].add \subseteq Labels
    BY <1>5, WorkingAt DEF RemoveLabel, SetLabel, At, Working, TypeOK, Fits
  <2> QED
    BY <1>5, <2>1, LabellingKeeps DEF RemoveLabel, SetLabel
<1>6. ASSUME NEW r \in Calls, Ends(r)
      PROVE  UNCHANGED <<versions, label>>
  BY <1>6 DEF Ends
<1>7. ASSUME NEW r \in Calls,
             \/ Begin(r) \/ ReadLabel(r) \/ Store(r) \/ ReadNumber(r)
             \/ LockVersions(r) \/ DeletePrompt(r) \/ ListLabels(r) \/ LabelsDone(r)
             \/ Scan(r) \/ Drop(r)
      PROVE  UNCHANGED <<versions, label>>
  BY <1>7, Beginning
  DEF ReadLabel, Store, ReadNumber, LockVersions, DeletePrompt, ListLabels,
      LabelsDone, Scan, Drop
<1>8. ASSUME NEW r \in Calls, UpdatePrompt(r), ~Ends(r)
      PROVE  UNCHANGED <<versions, label>>
  BY <1>8 DEF UpdatePrompt, Saved
<1>9. ASSUME NEW r \in Calls, CallStep(r) \/ Abort(r)
      PROVE  LatestIsHighest'
  BY <1>1, <1>2, <1>3, <1>4, <1>5, <1>6, <1>7, <1>8, <1>9
  DEF CallStep, Abort, SkipStore, RefuseLabel
<1>10. ASSUME NEW n \in Names, NEW l \in Asked, Expire(n, l)
       PROVE  UNCHANGED <<versions, label>>
  BY <1>10 DEF Expire
<1> QED
  BY <1>2, <1>7, <1>9, <1>10 DEF Next, vars

\* However calls that create versions overlap with each other and with calls
\* that move labels, latest names the highest version.
THEOREM LatestNamesHighest == Spec => []LatestIsHighest
<1>1. Init => LatestIsHighest
  <2> SUFFICES ASSUME Init, NEW p \in Ids PROVE label[p][Latest] = versions[p]
    BY Zenon DEF LatestIsHighest
  <2>1. label[p] = [l \in AllLabels |-> 0] /\ versions[p] = 0
    BY DEF Init
  <2> QED
    BY <2>1 DEF AllLabels
<1> QED
  BY <1>1, LatestStep, TypeCorrect, PTL DEF Spec

-----------------------------------------------------------------------------
(* Deleted prompts.                                                        *)

\* Every call began with the row of a prompt that was not deleted.
ReadLive == \A r \in Calls : call[r] \in Working => call[r].row.state = "live"

\* A step of a call leaves the other calls alone.
LEMMA Others ==
    ASSUME TypeOK, NEW r \in Calls, Begin(r) \/ CallStep(r) \/ Abort(r)
    PROVE  \A o \in Calls \ {r} : call'[o] = call[o]
<1>1. ASSUME NEW c, Becomes(r, c)
      PROVE  \A o \in Calls \ {r} : call'[o] = call[o]
  BY <1>1 DEF Becomes, TypeOK
<1>2. CASE Begin(r)
  BY <1>2, Beginning
<1>3. CASE Ends(r)
  BY <1>1, <1>3 DEF Ends
<1>4. CASE ReadLabel(r) \/ Store(r)
  BY <1>1, <1>4, Zenon DEF ReadLabel, Store
<1>5. CASE CreatePrompt(r) \/ ReadNumber(r) \/ LockVersions(r)
  BY <1>1, <1>5, Zenon DEF CreatePrompt, ReadNumber, LockVersions
<1>6. CASE CreateVersion(r)
  BY <1>1, <1>3, <1>6, Zenon DEF CreateVersion
<1>7. CASE UpdatePrompt(r) \/ DeletePrompt(r)
  BY <1>1, <1>3, <1>7, Zenon DEF UpdatePrompt, Saved, DeletePrompt
<1>8. CASE RemoveLabel(r) \/ SetLabel(r)
  BY <1>1, <1>3, <1>8, Zenon DEF RemoveLabel, SetLabel, Labelling
<1>9. CASE ListLabels(r) \/ LabelsDone(r)
  BY <1>1, <1>9, Zenon DEF ListLabels, LabelsDone
<1>10. CASE Scan(r) \/ Drop(r)
  BY <1>1, <1>10, Zenon DEF Scan, Drop
<1> QED
  BY <1>2, <1>3, <1>4, <1>5, <1>6, <1>7, <1>8, <1>9, <1>10, Zenon
  DEF CallStep, Abort, SkipStore, RefuseLabel

\* A call's record of the row does not change while it works.
LEMMA RowKept ==
    ASSUME TypeOK, NEW r \in Calls, CallStep(r) \/ Abort(r), call'[r] \in Working
    PROVE  call[r] \in Working /\ call'[r].row = call[r].row
<1>1. ASSUME NEW c, Becomes(r, c)
      PROVE  call'[r] = c
  BY <1>1 DEF Becomes, TypeOK
<1>2. ASSUME NEW c, c.at \in {"idle", "invalidate", "scanned"}, Becomes(r, c)
      PROVE  FALSE
  BY <1>1, <1>2 DEF Working
<1>3. ASSUME NEW step, NEW v, Becomes(r, Goes(call[r], step, v)), call[r] \in Working
      PROVE  call'[r].row = call[r].row
  <2>1. Goes(call[r], step, v).row = call[r].row
    BY <1>3 DEF Goes, Working
  <2> QED
    BY <1>1, <1>3, <2>1
<1>4. ASSUME NEW drop, NEW add, NEW names, Becomes(r, Left(call[r], drop, add, names)),
             call[r] \in Working
      PROVE  call'[r].row = call[r].row
  <2>1. Left(call[r], drop, add, names).row = call[r].row
    BY <1>4 DEF Left, Working
  <2> QED
    BY <1>1, <1>4, <2>1
<1>5. ~Becomes(r, Idle)
  BY <1>2 DEF Idle
<1>6. ASSUME NEW names
      PROVE  ~Becomes(r, Owes(names))
  BY <1>2 DEF Owes
<1>7. ~Ends(r)
  BY <1>5 DEF Ends
<1>8. CASE ReadLabel(r)
  <2>1. call[r] \in Working
    BY <1>8, WorkingAt DEF ReadLabel, At
  <2>2. PICK v : Becomes(r, IF v = 0 THEN Idle ELSE Goes(call[r], "store", v))
    BY <1>8 DEF ReadLabel
  <2>3. Becomes(r, Goes(call[r], "store", v))
    BY <1>5, <2>2
  <2> QED
    BY <1>3, <2>1, <2>3
<1>9. CASE ReadNumber(r) \/ LockVersions(r)
  <2>1. call[r] \in Working
    BY <1>9, WorkingAt DEF ReadNumber, LockVersions, At
  <2> QED
    BY <1>3, <1>9, <2>1 DEF ReadNumber, LockVersions
<1>10. CASE ListLabels(r) \/ RemoveLabel(r) \/ SetLabel(r)
  <2>1. call[r] \in Working
    BY <1>10, WorkingAt DEF ListLabels, RemoveLabel, SetLabel, At
  <2>2. \E drop, add, names : Becomes(r, Left(call[r], drop, add, names))
    BY <1>7, <1>10, Zenon DEF ListLabels, RemoveLabel, SetLabel, Labelling
  <2> QED
    BY <1>4, <2>1, <2>2
<1>11. ~Store(r) /\ ~CreatePrompt(r) /\ ~CreateVersion(r) /\ ~LabelsDone(r)
  BY <1>5, <1>6, <1>7, Zenon DEF Store, CreatePrompt, CreateVersion, LabelsDone
<1>12. ~UpdatePrompt(r) /\ ~DeletePrompt(r)
  BY <1>6, <1>7, Zenon DEF UpdatePrompt, Saved, DeletePrompt
<1>13. ~Scan(r)
  <2>1. ASSUME NEW n
        PROVE  ~Becomes(r, [at |-> "scanned", names |-> call[r].names, name |-> n,
                            found |-> Cached(n)])
    BY <1>2
  <2> QED
    BY <2>1, Zenon DEF Scan
<1>14. ~Drop(r)
  BY <1>5, <1>6 DEF Drop, Paid
<1> QED
  BY <1>7, <1>8, <1>9, <1>10, <1>11, <1>12, <1>13, <1>14, Zenon
  DEF CallStep, Abort, SkipStore, RefuseLabel

LEMMA ReadLiveStep == TypeOK /\ ReadLive /\ [Next]_vars => ReadLive'
<1> SUFFICES ASSUME TypeOK, ReadLive, [Next]_vars PROVE ReadLive'
  OBVIOUS
<1>1. CASE UNCHANGED call
  BY <1>1 DEF ReadLive
<1>2. ASSUME NEW r \in Calls, Begin(r)
      PROVE  ReadLive'
  BY <1>2, Beginning DEF ReadLive
<1>3. ASSUME NEW r \in Calls, CallStep(r) \/ Abort(r)
      PROVE  ReadLive'
  BY <1>3, Others, RowKept DEF ReadLive
<1> QED
  BY <1>1, <1>2, <1>3 DEF Next, vars, Expire

\* Only an update makes a deleted prompt live, its own.
LEMMA Undeleting ==
    ASSUME TypeOK, [Next]_vars, NEW p \in Ids,
           prompt[p].state = "deleted", prompt'[p].state = "live"
    PROVE  \E r \in Calls : At(r, "save") /\ call[r].id = p
<1>1. prompt' # prompt
  OBVIOUS
<1>2. PICK r \in Calls : Begin(r) \/ CallStep(r) \/ Abort(r)
  BY <1>1 DEF Next, vars, Expire
<1>3. ~Begin(r) /\ ~Ends(r)
  BY <1>1, Beginning DEF Ends
<1>4. ~ReadLabel(r) /\ ~Store(r) /\ ~ReadNumber(r) /\ ~LockVersions(r) /\ ~CreateVersion(r)
  BY <1>1, <1>3, Zenon DEF ReadLabel, Store, ReadNumber, LockVersions, CreateVersion
<1>5. /\ ~ListLabels(r) /\ ~RemoveLabel(r) /\ ~SetLabel(r) /\ ~LabelsDone(r)
      /\ ~Scan(r) /\ ~Drop(r)
  BY <1>1, <1>3, Zenon
  DEF ListLabels, RemoveLabel, SetLabel, Labelling, LabelsDone, Scan, Drop
<1>6. CASE CreatePrompt(r)
  <2>1. PICK q \in Ids, n \in Names : prompt[q] = Absent /\ prompt' = [prompt EXCEPT ![q] = Live(n)]
    BY <1>6 DEF CreatePrompt
  <2>2. p # q
    BY <2>1 DEF Absent
  <2> QED
    BY <2>1, <2>2 DEF TypeOK
<1>7. CASE DeletePrompt(r)
  <2>1. prompt' = [prompt EXCEPT ![call[r].id] =
                     [state |-> "deleted", name |-> prompt[call[r].id].name]]
    BY <1>7 DEF DeletePrompt
  <2> QED
    BY <2>1 DEF TypeOK
<1>8. CASE UpdatePrompt(r)
  <2>1. PICK n \in Names : prompt' = [prompt EXCEPT ![call[r].id] = Live(n)]
    BY <1>3, <1>8 DEF UpdatePrompt, Saved
  <2>2. call[r].id = p
    BY <2>1 DEF TypeOK
  <2> QED
    BY <1>8, <2>2 DEF UpdatePrompt
<1> QED
  BY <1>2, <1>3, <1>4, <1>5, <1>6, <1>7, <1>8 DEF CallStep, Abort, SkipStore, RefuseLabel

\* A prompt that is deleted comes back by no call but an update that had read it
\* before its deletion.
THEOREM DeletedStays == Spec => DeletedStaysDeleted
<1>1. Init => ReadLive
  BY DEF Init, ReadLive, Idle, Working
<1>2. Spec => []ReadLive
  BY <1>1, InitType, TypeCorrect, ReadLiveStep, PTL DEF Spec
<1>3. TypeOK /\ ReadLive /\ [Next]_vars =>
        [\A p \in Ids :
           prompt[p].state = "deleted" /\ prompt'[p].state = "live" =>
             \E r \in Calls : At(r, "save") /\ call[r].id = p /\ call[r].row.state = "live"]_vars
  <2> SUFFICES ASSUME TypeOK, ReadLive, [Next]_vars, NEW p \in Ids,
                      prompt[p].state = "deleted", prompt'[p].state = "live"
               PROVE  \E r \in Calls : /\ At(r, "save") /\ call[r].id = p
                                       /\ call[r].row.state = "live"
    OBVIOUS
  <2>1. PICK r \in Calls : At(r, "save") /\ call[r].id = p
    BY Undeleting
  <2>2. call[r] \in Working
    BY <2>1, WorkingAt DEF At
  <2> QED
    BY <2>1, <2>2 DEF ReadLive
<1> QED
  BY <1>2, <1>3, TypeCorrect, PTL DEF Spec, DeletedStaysDeleted

-----------------------------------------------------------------------------
(* The cache.                                                              *)

\* The entry is accounted for: CacheFollows of one name and label.
Followed(n, l) == <<n, l>> \in missed \/ \E r \in Calls : WillDrop(r, n, l)

\* What the other calls will drop, they will drop after a step of this one.
LEMMA OthersDrop ==
    ASSUME NEW r \in Calls, \A o \in Calls \ {r} : call'[o] = call[o],
           NEW n, NEW l, NEW o \in Calls \ {r}, WillDrop(o, n, l)
    PROVE  Followed(n, l)'
BY DEF WillDrop, At, Followed

\* A step that writes nothing: what was stale still is, and its call still owes
\* what it owed, or leaves it.
LEMMA QuietStep ==
    ASSUME CacheFollows, NEW r \in Calls, \A o \in Calls \ {r} : call'[o] = call[o],
           UNCHANGED <<prompt, label, cache>>, missed \subseteq missed',
           \A n \in Names, l \in Asked :
             Stale(n, l) /\ WillDrop(r, n, l) => Followed(n, l)'
    PROVE  CacheFollows'
<1> SUFFICES ASSUME NEW n \in Names, NEW l \in Asked, Stale(n, l)'
             PROVE  Followed(n, l)'
  BY DEF CacheFollows, Followed
<1>1. Stale(n, l)
  BY DEF Stale, Current
<1>2. CASE <<n, l>> \in missed
  BY <1>2 DEF Followed
<1>3. CASE \E o \in Calls : WillDrop(o, n, l)
  BY <1>1, <1>3, OthersDrop
<1> QED
  BY <1>1, <1>2, <1>3 DEF CacheFollows

\* A step that writes the row or the labels of one prompt: its call owes the names
\* it owed, and those of the prompt's entries that it does not leave.
LEMMA WriteStep ==
    ASSUME TypeOK, CacheFollows, NEW r \in Calls,
           \A o \in Calls \ {r} : call'[o] = call[o],
           NEW p \in Ids,
           \A q \in Ids \ {p} : prompt'[q] = prompt[q] /\ label'[q] = label[q],
           UNCHANGED cache, missed \subseteq missed',
           call[r].names \subseteq call'[r].names, call'[r].at # "scanned",
           \A n \in Names \ call'[r].names :
             prompt[p] = Live(n) => Leaving({n}) \subseteq missed'
    PROVE  CacheFollows'
<1> SUFFICES ASSUME NEW n \in Names, NEW l \in Asked, Stale(n, l)'
             PROVE  Followed(n, l)'
  BY DEF CacheFollows, Followed
<1>1. cache[n][l] # None /\ ~Current(cache[n][l], n, l)'
  BY DEF Stale
<1>2. n \in call'[r].names => Followed(n, l)'
  BY DEF Followed, WillDrop, At
<1>3. CASE Stale(n, l)
  <2>1. CASE <<n, l>> \in missed
    BY <2>1 DEF Followed
  <2>2. CASE WillDrop(r, n, l)
    BY <1>2, <2>2 DEF WillDrop
  <2>3. CASE \E o \in Calls \ {r} : WillDrop(o, n, l)
    BY <2>3, OthersDrop
  <2> QED
    BY <1>3, <2>1, <2>2, <2>3 DEF CacheFollows
<1>4. CASE ~Stale(n, l)
  <2>1. Current(cache[n][l], n, l)
    BY <1>1, <1>4 DEF Stale
  <2>2. cache[n][l].id \in Ids
    BY <1>1 DEF TypeOK, Entry
  <2>3. cache[n][l].id = p
    BY <1>1, <2>1, <2>2 DEF Current
  <2>4. prompt[p] = Live(n)
    BY <2>1, <2>3 DEF Current
  <2>5. <<n, l>> \in Leaving({n})
    BY <1>1 DEF Leaving, Cached
  <2> QED
    BY <1>2, <2>4, <2>5 DEF Followed
<1> QED
  BY <1>3, <1>4

\* A call that writes with Misses leaves what it does not owe.
LEMMA Missing ==
    ASSUME NEW r \in Calls, NEW names, Misses(r, names), call[r].row.name \in names
    PROVE  /\ missed \subseteq missed'
           /\ \A n \in Names \ names :
                prompt[call[r].id] = Live(n) => Leaving({n}) \subseteq missed'
<1>1. missed \subseteq missed'
  BY DEF Misses
<1>2. ASSUME NEW n \in Names \ names, prompt[call[r].id] = Live(n)
      PROVE  Leaving({n}) \subseteq missed'
  <2>1. prompt[call[r].id].name = n
    BY <1>2 DEF Live
  <2>2. ~Knows(r)
    BY <1>2, <2>1 DEF Knows
  <2>3. {prompt[call[r].id].name} \ names = {n}
    BY <1>2, <2>1
  <2> QED
    BY <2>2, <2>3 DEF Misses
<1> QED
  BY <1>1, <1>2

\* A call that has read nothing, or a label, owes nothing.
LEMMA OwesNothing ==
    ASSUME TypeOK, NEW r \in Calls, call[r].at \notin {"labels", "invalidate", "scanned"}
    PROVE  call[r].names = {}
BY DEF TypeOK, Working, Owing, Scanned, Idle, Fits

LEMMA NotOwed ==
    ASSUME NEW r \in Calls, call[r].names = {}, NEW n, NEW l
    PROVE  ~WillDrop(r, n, l)
BY DEF WillDrop

\* A call that fails leaves what it owes.
LEMMA EndingFollows ==
    ASSUME TypeOK, CacheFollows, NEW r \in Calls, Ends(r),
           \A o \in Calls \ {r} : call'[o] = call[o]
    PROVE  CacheFollows'
<1>1. ASSUME NEW n \in Names, NEW l \in Asked, Stale(n, l), WillDrop(r, n, l)
      PROVE  Followed(n, l)'
  <2>1. <<n, l>> \in Leaving(call[r].names)
    BY <1>1 DEF Leaving, Cached, Stale, WillDrop
  <2> QED
    BY <2>1 DEF Followed, Ends
<1> QED
  BY <1>1, QuietStep DEF Ends

\* Steps that write nothing, of calls that owe nothing.
LEMMA NothingOwed ==
    ASSUME TypeOK, CacheFollows, NEW r \in Calls, call[r].names = {},
           \A o \in Calls \ {r} : call'[o] = call[o],
           UNCHANGED <<prompt, label, cache, missed>>
    PROVE  CacheFollows'
BY QuietStep, NotOwed

\* The labels are done, and the keys of a name are found, every stale one of them.
LEMMA ScanFollows ==
    ASSUME TypeOK, CacheFollows, NEW r \in Calls, LabelsDone(r) \/ Scan(r),
           \A o \in Calls \ {r} : call'[o] = call[o]
    PROVE  CacheFollows'
<1>1. CASE LabelsDone(r)
  <2>1. call[r] \in Working /\ Fits(call[r])
    BY <1>1, WorkingAt DEF LabelsDone, At, TypeOK
  <2>2. call[r].names \subseteq {call[r].row.name} /\ call[r].row.name \in Names
    BY <2>1 DEF Fits
  <2>3. call'[r].names = {call[r].row.name} /\ call'[r].at = "invalidate"
    BY <1>1, <2>2, Owed DEF LabelsDone
  <2>4. ASSUME NEW n, NEW l, WillDrop(r, n, l)
        PROVE  Followed(n, l)'
    BY <2>2, <2>3, <2>4 DEF WillDrop, At, Followed
  <2> QED
    BY <1>1, <2>4, QuietStep DEF LabelsDone
<1>2. CASE Scan(r)
  <2>1. PICK m \in call[r].names :
          Becomes(r, [at |-> "scanned", names |-> call[r].names, name |-> m,
                      found |-> Cached(m)])
    BY <1>2 DEF Scan
  <2>2. /\ call'[r].names = call[r].names /\ call'[r].name = m
        /\ call'[r].found = Cached(m)
    BY <2>1 DEF Becomes, TypeOK
  <2>3. ASSUME NEW n \in Names, NEW l \in Asked, Stale(n, l), WillDrop(r, n, l)
        PROVE  Followed(n, l)'
    <3>1. l \in Cached(n)
      BY <2>3 DEF Stale, Cached
    <3> QED
      BY <2>2, <2>3, <3>1 DEF WillDrop, At, Followed
  <2> QED
    BY <1>2, <2>3, QuietStep DEF Scan
<1> QED
  BY <1>1, <1>2

\* What was found is dropped, or left.
LEMMA DropFollows ==
    ASSUME TypeOK, CacheFollows, NEW r \in Calls, Drop(r),
           \A o \in Calls \ {r} : call'[o] = call[o]
    PROVE  CacheFollows'
<1> DEFINE m == call[r].name
<1>1. call[r] \in Scanned /\ call[r].at = "scanned"
  BY ScannedAt DEF Drop, At
<1>2. m \in Names /\ call[r].names \subseteq Names
  BY <1>1 DEF Scanned
<1>3. ASSUME NEW n \in call[r].names, n # m
      PROVE  call'[r].names = call[r].names \ {m} /\ call'[r].at = "invalidate"
  <2>1. Becomes(r, Owes(call[r].names \ {m}))
    BY <1>3 DEF Drop, Paid
  <2> QED
    BY <1>2, <2>1, Owed
<1>4. ASSUME NEW n, NEW l, WillDrop(r, n, l), n # m
      PROVE  Followed(n, l)'
  <2>1. n \in call[r].names
    BY <1>4 DEF WillDrop
  <2>2. n \in call'[r].names /\ call'[r].at # "scanned"
    BY <1>3, <1>4, <2>1
  <2> QED
    BY <2>2 DEF WillDrop, At, Followed
<1>5. CASE UNCHANGED cache /\ missed' = missed \cup Leaving({m})
  <2>1. UNCHANGED <<prompt, label>>
    BY DEF Drop
  <2>2. ASSUME NEW n \in Names, NEW l \in Asked, Stale(n, l), WillDrop(r, n, l)
        PROVE  Followed(n, l)'
    <3>1. CASE n = m
      <4>1. l \in Cached(n)
        BY <2>2 DEF Stale, Cached
      <4>2. <<n, l>> \in Leaving({m})
        BY <3>1, <4>1 DEF Leaving
      <4> QED
        BY <1>5, <4>2 DEF Followed
    <3> QED
      BY <1>4, <2>2, <3>1
  <2> QED
    BY <1>5, <2>1, <2>2, QuietStep
<1>6. CASE /\ cache' = [cache EXCEPT ![m] = [l \in Asked |->
                          IF l \in call[r].found THEN None ELSE cache[m][l]]]
           /\ missed' = missed \ ({m} \X call[r].found)
  <2> SUFFICES ASSUME NEW n \in Names, NEW l \in Asked, Stale(n, l)'
               PROVE  Followed(n, l)'
    BY DEF CacheFollows, Followed
  <2>1. cache'[n][l] = IF n = m /\ l \in call[r].found THEN None ELSE cache[n][l]
    BY <1>2, <1>6 DEF TypeOK
  <2>2. /\ ~(n = m /\ l \in call[r].found)
        /\ cache'[n][l] = cache[n][l]
    BY <2>1 DEF Stale
  <2>3. Stale(n, l)
    BY <2>2 DEF Stale, Current, Drop
  <2>4. CASE <<n, l>> \in missed
    BY <1>6, <2>2, <2>4 DEF Followed
  <2>5. CASE WillDrop(r, n, l)
    <3>1. n # m
      BY <1>1, <2>2, <2>5 DEF WillDrop, At
    <3> QED
      BY <1>4, <2>5, <3>1
  <2>6. CASE \E o \in Calls \ {r} : WillDrop(o, n, l)
    BY <2>6, OthersDrop
  <2> QED
    BY <2>3, <2>4, <2>5, <2>6 DEF CacheFollows
<1> QED
  BY <1>5, <1>6 DEF Drop

\* An entry is stored, or expires: the others are as they were.
LEMMA EntryFollows ==
    ASSUME TypeOK, CacheFollows, NEW n \in Names, NEW l \in Asked, NEW e,
           cache' = [cache EXCEPT ![n] = [cache[n] EXCEPT ![l] = e]],
           UNCHANGED <<prompt, label>>,
           missed \ {<<n, l>>} \subseteq missed',
           e = None \/ Current(e, n, l) \/ <<n, l>> \in missed',
           \A r \in Calls : \A k, h : WillDrop(r, k, h) => WillDrop(r, k, h)'
    PROVE  CacheFollows'
<1> SUFFICES ASSUME NEW k \in Names, NEW h \in Asked, Stale(k, h)'
             PROVE  Followed(k, h)'
  BY DEF CacheFollows, Followed
<1>1. CASE k = n /\ h = l
  <2>1. cache'[k][h] = e
    BY <1>1 DEF TypeOK
  <2>2. e # None /\ ~Current(e, n, l)
    BY <1>1, <2>1 DEF Stale, Current
  <2> QED
    BY <1>1, <2>2 DEF Followed
<1>2. CASE ~(k = n /\ h = l)
  <2>1. cache'[k][h] = cache[k][h]
    BY <1>2 DEF TypeOK
  <2>2. Stale(k, h)
    BY <2>1 DEF Stale, Current
  <2>3. Followed(k, h)
    BY <2>2 DEF CacheFollows, Followed
  <2>4. <<k, h>> # <<n, l>>
    BY <1>2
  <2> QED
    BY <2>3, <2>4 DEF Followed
<1> QED
  BY <1>1, <1>2

LEMMA StoreFollows ==
    ASSUME TypeOK, CacheFollows, NEW r \in Calls, Store(r),
           \A o \in Calls \ {r} : call'[o] = call[o]
    PROVE  CacheFollows'
<1> DEFINE n == call[r].row.name
           e == [id |-> call[r].id, version |-> call[r].num]
<1>1. PICK l \in call[r].add :
        /\ cache' = [cache EXCEPT ![n] = [cache[n] EXCEPT ![l] = e]]
        /\ missed' = IF Current(e, n, l) THEN missed \ {<<n, l>>}
                     ELSE missed \cup {<<n, l>>}
  BY Zenon DEF Store
<1>2. call[r] \in Working /\ Fits(call[r]) /\ call[r].at = "store"
  BY WorkingAt DEF Store, At, TypeOK
<1>3. n \in Names /\ l \in Asked
  BY <1>1, <1>2 DEF Fits
<1>4. ASSUME NEW o \in Calls, NEW k, NEW h, WillDrop(o, k, h)
      PROVE  WillDrop(o, k, h)'
  <2>1. o # r
    BY <1>2, <1>4, OwesNothing, NotOwed
  <2> QED
    BY <1>4, <2>1 DEF WillDrop, At
<1>5. UNCHANGED <<prompt, label>>
  BY DEF Store
<1> HIDE DEF n, e
<1>6. /\ missed \ {<<n, l>>} \subseteq missed'
      /\ Current(e, n, l) \/ <<n, l>> \in missed'
  BY <1>1
<1> QED
  BY <1>1, <1>3, <1>4, <1>5, <1>6, EntryFollows

LEMMA ExpireFollows ==
    ASSUME TypeOK, CacheFollows, NEW n \in Names, NEW l \in Asked, Expire(n, l)
    PROVE  CacheFollows'
<1>1. ASSUME NEW r \in Calls, NEW k, NEW h, WillDrop(r, k, h)
      PROVE  WillDrop(r, k, h)'
  BY <1>1 DEF WillDrop, At, Expire
<1>2. /\ cache' = [cache EXCEPT ![n] = [cache[n] EXCEPT ![l] = None]]
      /\ UNCHANGED <<prompt, label>> /\ missed \ {<<n, l>>} \subseteq missed'
  BY DEF Expire
<1> QED
  BY <1>1, <1>2, EntryFollows

\* The steps that write what GetPrompt reads.
LEMMA WritesFollow ==
    ASSUME TypeOK, CacheFollows, NEW r \in Calls, ~Ends(r),
           \/ CreatePrompt(r) \/ CreateVersion(r) \/ UpdatePrompt(r)
           \/ DeletePrompt(r) \/ RemoveLabel(r) \/ SetLabel(r),
           \A o \in Calls \ {r} : call'[o] = call[o]
    PROVE  CacheFollows'
<1>1. CASE CreatePrompt(r)
  <2>1. PICK p \in Ids, n \in Names, S \in SUBSET Labels :
          /\ prompt[p] = Absent
          /\ prompt' = [prompt EXCEPT ![p] = Live(n)]
          /\ label' = Labelled(p, 1, S)
          /\ Becomes(r, Owes({n}))
    BY <1>1 DEF CreatePrompt
  <2>2. call[r].names = {} /\ call'[r].at = "invalidate"
    BY <1>1, <2>1, OwesNothing, Owed DEF CreatePrompt, At
  <2>3. \A q \in Ids \ {p} : prompt'[q] = prompt[q] /\ label'[q] = label[q]
    BY <2>1 DEF TypeOK, Labelled
  <2>4. \A m : prompt[p] # Live(m)
    BY <2>1 DEF Absent, Live
  <2> QED
    BY <1>1, <2>2, <2>3, <2>4, WriteStep DEF CreatePrompt
<1>2. ASSUME NEW names \in SUBSET Names, call[r] \in Working, Fits(call[r]),
             call[r].row.name \in names, Misses(r, names),
             call'[r].names = names, call'[r].at # "scanned", UNCHANGED cache,
             \A q \in Ids \ {call[r].id} : prompt'[q] = prompt[q] /\ label'[q] = label[q]
      PROVE  CacheFollows'
  <2>1. call[r].id \in Ids /\ call[r].names \subseteq names
    BY <1>2 DEF Working, Fits
  <2>2. /\ missed \subseteq missed'
        /\ \A n \in Names \ names :
             prompt[call[r].id] = Live(n) => Leaving({n}) \subseteq missed'
    BY <1>2, Missing
  <2> QED
    BY <1>2, <2>1, <2>2, WriteStep
<1>3. ~CreatePrompt(r) => call[r] \in Working /\ Fits(call[r]) /\ call[r].row.name \in Names
                          /\ call[r].id \in Ids
  BY WorkingAt DEF CreateVersion, UpdatePrompt, DeletePrompt, RemoveLabel, SetLabel, At,
                   TypeOK, Fits, Working
<1>4. CASE CreateVersion(r) /\ ~CreatePrompt(r)
  <2>1. /\ label' = Labelled(call[r].id, call[r].num, call[r].add)
        /\ Becomes(r, Owes({call[r].row.name}))
        /\ Misses(r, {call[r].row.name})
        /\ UNCHANGED <<prompt, cache>>
    BY <1>4 DEF CreateVersion
  <2>2. call'[r].names = {call[r].row.name} /\ call'[r].at = "invalidate"
    BY <1>3, <1>4, <2>1, Owed
  <2>3. \A q \in Ids \ {call[r].id} : label'[q] = label[q]
    BY <1>3, <1>4, <2>1 DEF Labelled, TypeOK
  <2> QED
    BY <1>2, <1>3, <1>4, <2>1, <2>2, <2>3
<1>5. CASE UpdatePrompt(r) /\ ~CreatePrompt(r)
  <2>1. PICK n \in Names : Saved(r, n, {call[r].row.name, n})
    BY <1>5 DEF UpdatePrompt
  <2>2. call'[r].names = {call[r].row.name, n} /\ call'[r].at = "invalidate"
    BY <1>3, <1>5, <2>1, Owed DEF Saved
  <2>3. \A q \in Ids \ {call[r].id} : prompt'[q] = prompt[q] /\ label'[q] = label[q]
    BY <1>3, <1>5, <2>1 DEF Saved, TypeOK
  <2>4. Misses(r, {call[r].row.name, n}) /\ UNCHANGED cache
    BY <2>1 DEF Saved
  <2> QED
    BY <1>2, <1>3, <1>5, <2>2, <2>3, <2>4
<1>6. CASE DeletePrompt(r) /\ ~CreatePrompt(r)
  <2>1. call'[r].names = {call[r].row.name} /\ call'[r].at = "invalidate"
    BY <1>3, <1>6, Owed DEF DeletePrompt
  <2>2. \A q \in Ids \ {call[r].id} : prompt'[q] = prompt[q] /\ label'[q] = label[q]
    BY <1>3, <1>6 DEF DeletePrompt, TypeOK
  <2>3. Misses(r, {call[r].row.name}) /\ UNCHANGED cache
    BY <1>6 DEF DeletePrompt
  <2> QED
    BY <1>2, <1>3, <1>6, <2>1, <2>2, <2>3
<1>7. CASE (RemoveLabel(r) \/ SetLabel(r)) /\ ~CreatePrompt(r)
  <2>1. PICK l \in Labels : \E v \in 0 .. MaxVersions : Labelling(r, l, v)
    <3>1. /\ call[r].drop \subseteq Labels /\ call[r].num \in 0 .. MaxVersions
          /\ 0 \in 0 .. MaxVersions
      BY <1>3, <1>7, RegistryAssumption DEF Working
    <3>2. CASE RemoveLabel(r)
      BY <3>1, <3>2 DEF RemoveLabel
    <3>3. CASE SetLabel(r)
      <4>1. call[r].add \subseteq Labels
        BY <1>3, <1>7, <3>3 DEF Fits, SetLabel, At
      <4> QED
        BY <3>1, <3>3, <4>1 DEF SetLabel
    <3> QED
      BY <1>7, <3>2, <3>3
  <2>2. PICK v \in 0 .. MaxVersions : Labelling(r, l, v)
    BY <2>1
  <2> DEFINE c == Left(call[r], call[r].drop \ {l}, call[r].add \ {l}, {call[r].row.name})
  <2>3. c \in AllCalls /\ Fits(c) /\ c.names = {call[r].row.name} /\ c.at = "labels"
    <3>1. call[r].drop \ {l} \in SUBSET Labels /\ call[r].add \ {l} \in SUBSET call[r].add
      BY <1>3, <1>7 DEF Working
    <3> QED
      BY <1>3, <1>7, <3>1, Leftover DEF RemoveLabel, SetLabel, At
  <2>4. Becomes(r, c)
    BY <2>2 DEF Labelling
  <2> HIDE DEF c
  <2>5. call'[r].names = {call[r].row.name} /\ call'[r].at = "labels"
    BY <2>3, <2>4, Becoming
  <2>6. \A q \in Ids \ {call[r].id} : prompt'[q] = prompt[q] /\ label'[q] = label[q]
    BY <2>2 DEF Labelling, TypeOK
  <2>7. Misses(r, {call[r].row.name}) /\ UNCHANGED cache
    BY <2>2 DEF Labelling
  <2> QED
    BY <1>2, <1>3, <1>7, <2>5, <2>6, <2>7
<1> QED
  BY <1>1, <1>4, <1>5, <1>6, <1>7

LEMMA FollowsStep == TypeOK /\ CacheFollows /\ [Next]_vars => CacheFollows'
<1> SUFFICES ASSUME TypeOK, CacheFollows, [Next]_vars PROVE CacheFollows'
  OBVIOUS
<1>1. CASE UNCHANGED vars
  BY <1>1 DEF vars, CacheFollows, Stale, Current, WillDrop, At
<1>2. ASSUME NEW r \in Calls, Begin(r)
      PROVE  CacheFollows'
  <2>1. call[r].names = {}
    BY <1>2, Beginning, OwesNothing
  <2> QED
    BY <1>2, <2>1, Beginning, NothingOwed
<1>3. ASSUME NEW r \in Calls, CallStep(r) \/ Abort(r)
      PROVE  CacheFollows'
  <2>1. \A o \in Calls \ {r} : call'[o] = call[o]
    BY <1>3, Others
  <2>2. CASE Ends(r)
    BY <2>1, <2>2, EndingFollows
  <2>3. CASE ReadLabel(r) \/ ReadNumber(r) \/ LockVersions(r) \/ ListLabels(r)
    <3>1. call[r].names = {}
      BY <2>3, OwesNothing DEF ReadLabel, ReadNumber, LockVersions, ListLabels, At
    <3>2. UNCHANGED <<prompt, label, cache, missed>>
      BY <2>3 DEF ReadLabel, ReadNumber, LockVersions, ListLabels
    <3> QED
      BY <2>1, <3>1, <3>2, NothingOwed
  <2>4. CASE LabelsDone(r) \/ Scan(r)
    BY <2>1, <2>4, ScanFollows
  <2>5. CASE Drop(r)
    BY <2>1, <2>5, DropFollows
  <2>6. CASE Store(r)
    BY <2>1, <2>6, StoreFollows
  <2>7. CASE \/ CreatePrompt(r) \/ CreateVersion(r) \/ UpdatePrompt(r)
             \/ DeletePrompt(r) \/ RemoveLabel(r) \/ SetLabel(r)
    BY <2>1, <2>2, <2>7, WritesFollow
  <2> QED
    BY <1>3, <2>2, <2>3, <2>4, <2>5, <2>6, <2>7
    DEF CallStep, Abort, SkipStore, RefuseLabel
<1>4. ASSUME NEW n \in Names, NEW l \in Asked, Expire(n, l)
      PROVE  CacheFollows'
  BY <1>4, ExpireFollows
<1> QED
  BY <1>1, <1>2, <1>3, <1>4 DEF Next

\* Every stale entry is going to be dropped by a call that is under way, or is one
\* of those that the code leaves.
THEOREM CacheIsFollowed == Spec => []CacheFollows
<1>1. Init => CacheFollows
  <2> SUFFICES ASSUME Init, NEW n \in Names, NEW l \in Asked
               PROVE  cache[n][l] = None
    BY Zenon DEF CacheFollows, Stale
  <2>1. cache[n] = [h \in Asked |-> None]
    BY DEF Init
  <2> QED
    BY <2>1
<1> QED
  BY <1>1, FollowsStep, TypeCorrect, PTL DEF Spec

=============================================================================

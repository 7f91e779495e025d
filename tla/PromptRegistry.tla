---------------------------- MODULE PromptRegistry ----------------------------
(***************************************************************************)
(* The prompts of one project: their rows in PostgreSQL, numbered versions,*)
(* labels that name a version, and the cache in Redis that GetPrompt       *)
(* serves from.                                                            *)
(*                                                                         *)
(* Every call reads the prompt's row first and works with what it read;    *)
(* the cache is keyed by the prompt's name and dropped by name when a call *)
(* has written.  Versions are immutable and numbered from 1 without gaps,  *)
(* so a prompt has the versions 1 to versions[p].  Protection of labels is *)
(* data of another table: a call meets it or not.                          *)
(***************************************************************************)
EXTENDS Naturals

CONSTANTS
    Ids,          \* prompts
    Names,        \* names the clients give them
    Labels,       \* labels the clients set
    Latest,       \* the label the service sets itself
    Asked,        \* labels that prompts are asked for by
    NoName,
    Calls,        \* calls that may be in flight at the same time
    MaxVersions,  \* bound: versions of a prompt
    Env           \* "abort": errors and crashes happen

AllLabels == Labels \cup {Latest}

ASSUME RegistryAssumption ==
    /\ Latest \notin Labels
    /\ Asked \subseteq AllLabels
    /\ NoName \notin Names
    /\ MaxVersions \in Nat \ {0}

VARIABLES
    prompt,    \* row of every prompt
    versions,  \* how many versions it has
    label,     \* version a label of a prompt names, 0: no such label
    cache,     \* what is cached for a name and a label
    missed,    \* history: entries nobody will drop that may be stale
    call       \* calls in flight

vars == <<prompt, versions, label, cache, missed, call>>

Row     == [state : {"absent", "live", "deleted"}, name : Names \cup {NoName}]
Absent  == [state |-> "absent", name |-> NoName]
Live(n) == [state |-> "live", name |-> n]

Entry == [id : Ids, version : 1 .. MaxVersions]
None  == [version |-> 0]

\* A call on a prompt: the row as it read it, a version number, the labels it
\* has to remove and to set, and the names whose cache it has to drop.
Working == [at : {"label", "store", "number", "lock", "insert", "save", "delete",
                  "list", "labels"},
            id : Ids, row : Row, num : 0 .. MaxVersions,
            drop : SUBSET Labels, add : SUBSET AllLabels, names : SUBSET Names]

\* A call that has written; one that has found the keys of a name.
Owing   == [at : {"invalidate"}, names : SUBSET Names]
Scanned == [at : {"scanned"}, names : SUBSET Names, name : Names, found : SUBSET Asked]
Idle    == [at |-> "idle", names |-> {}]

\* What a call on a prompt may have at which step.
Fits(c) == c \in Working =>
    /\ c.row.name \in Names
    /\ c.add \subseteq IF c.at \in {"label", "store"} THEN Asked ELSE Labels
    /\ c.at \in {"store", "lock", "insert"} => c.num # 0
    /\ c.names \subseteq {n \in {c.row.name} : c.at = "labels"}

TypeOK ==
    /\ prompt \in [Ids -> Row]
    /\ \A p \in Ids : prompt[p].state = "live" => prompt[p].name \in Names
    /\ versions \in [Ids -> 0 .. MaxVersions]
    /\ label \in [Ids -> [AllLabels -> 0 .. MaxVersions]]
    /\ cache \in [Names -> [Asked -> Entry \cup {None}]]
    /\ missed \subseteq Names \X Asked
    /\ call \in [Calls -> Working \cup Owing \cup Scanned \cup {Idle}]
    /\ \A r \in Calls : Fits(call[r])

Init ==
    /\ prompt = [p \in Ids |-> Absent]
    /\ versions = [p \in Ids |-> 0]
    /\ label = [p \in Ids |-> [l \in AllLabels |-> 0]]
    /\ cache = [n \in Names |-> [l \in Asked |-> None]]
    /\ missed = {}
    /\ call = [r \in Calls |-> Idle]

-----------------------------------------------------------------------------
(* The tables and the cache.                                               *)

\* idx_prompts_project_name: no other live prompt has the name.
Free(n, p) == \A q \in Ids \ {p} : prompt[q] # Live(n)

\* The entry is what the tables say of the name and the label.
Current(e, n, l) == prompt[e.id] = Live(n) /\ label[e.id][l] = e.version

Cached(n) == {l \in Asked : cache[n][l] # None}

Stale(n, l) == cache[n][l] # None /\ ~ Current(cache[n][l], n, l)

-----------------------------------------------------------------------------
(* What the steps of a call have in common.                                *)

At(r, step) == call[r].at = step

\* The prompt's row as the call read it is still its row.
Knows(r) == prompt[call[r].id] = call[r].row

Becomes(r, c) == call' = [call EXCEPT ![r] = c]

\* Mutant: the row is read whether it is deleted or not.
ReadsAny(r, p, step, num, add) ==
    /\ At(r, "idle")
    /\ prompt[p].state # "absent"
    /\ Becomes(r, [at |-> step, id |-> p, row |-> prompt[p], num |-> num,
                   drop |-> {}, add |-> add, names |-> {}])
    /\ UNCHANGED <<prompt, versions, label, cache, missed>>

\* A call begins with the row of a prompt that is not deleted.
Reads(r, p, step, num, add) ==
    /\ At(r, "idle")
    /\ prompt[p].state = "live"
    /\ Becomes(r, [at |-> step, id |-> p, row |-> prompt[p], num |-> num,
                   drop |-> {}, add |-> add, names |-> {}])
    /\ UNCHANGED <<prompt, versions, label, cache, missed>>

\* It goes on to a step, with a version number it learned.
Goes(c, step, num) == [c EXCEPT !.at = step, !.num = num]

\* It still has labels to remove and to set, or the names it has to drop from
\* the cache.
Left(c, drop, add, names) == [c EXCEPT !.at = "labels", !.drop = drop, !.add = add,
                                       !.names = names]
Owes(names) == [at |-> "invalidate", names |-> names]

\* The entries of the names are left as they are.
Leaving(names) == {e \in Names \X Asked : e[1] \in names /\ e[2] \in Cached(e[1])}

\* A call that writes without knowing the prompt's row as it is leaves the
\* entries of the name the prompt has, unless it drops that name too.
Misses(r, names) ==
    missed' = IF Knows(r) THEN missed
              ELSE missed \cup Leaving({prompt[call[r].id].name} \ names)

\* It ends, and has written nothing more.  What it owes is left.
Ends(r) ==
    /\ Becomes(r, Idle)
    /\ missed' = missed \cup Leaving(call[r].names)
    /\ UNCHANGED <<prompt, versions, label, cache>>

-----------------------------------------------------------------------------
(* GetPrompt, by a label, when the cache is not asked or has nothing.      *)

BeginGet(r) == \E p \in Ids, l \in Asked : Reads(r, p, "label", 0, {l})

ReadLabel(r) ==
    /\ At(r, "label")
    /\ \E l \in call[r].add :
         LET v == label[call[r].id][l] IN
         Becomes(r, IF v = 0 THEN Idle ELSE Goes(call[r], "store", v))
    /\ UNCHANGED <<prompt, versions, label, cache, missed>>

\* What is stored may have been overtaken since it was read.
Store(r) ==
    /\ At(r, "store")
    /\ LET n == call[r].row.name
           e == [id |-> call[r].id, version |-> call[r].num] IN
         \E l \in call[r].add :
           /\ cache' = [cache EXCEPT ![n] = [cache[n] EXCEPT ![l] = e]]
           /\ missed' = IF Current(e, n, l) THEN missed \ {<<n, l>>}
                        ELSE missed \cup {<<n, l>>}
    /\ Becomes(r, Idle)
    /\ UNCHANGED <<prompt, versions, label>>

\* A TTL of 0.
SkipStore(r) == At(r, "store") /\ Ends(r)

-----------------------------------------------------------------------------
(* CreatePrompt and CreateVersion, which UpsertPrompt chooses from.        *)

\* Mutant: latest is left where it was.
LabelledAsAsked(p, v, S) ==
    [label EXCEPT ![p] = [l \in AllLabels |-> IF l \in S THEN v ELSE label[p][l]]]

\* The labels of a new version: latest and those of the request.
Labelled(p, v, S) ==
    [label EXCEPT ![p] = [l \in AllLabels |-> IF l \in S \cup {Latest} THEN v ELSE label[p][l]]]

\* One transaction, of a new id; it reads nothing.
CreatePrompt(r) ==
    /\ At(r, "idle")
    /\ \E p \in Ids, n \in Names, S \in SUBSET Labels :
         /\ prompt[p] = Absent
         /\ Free(n, p)
         /\ prompt' = [prompt EXCEPT ![p] = Live(n)]
         /\ versions' = [versions EXCEPT ![p] = 1]
         /\ label' = Labelled(p, 1, S)
         /\ Becomes(r, Owes({n}))
    /\ UNCHANGED <<cache, missed>>

BeginVersion(r) ==
    \E p \in Ids, S \in SUBSET Labels : Reads(r, p, "number", 0, S)

\* GetNextVersionNumber takes the highest number its statement sees, and then
\* waits for who has locked these rows.
ReadNumber(r) ==
    /\ At(r, "number")
    /\ versions[call[r].id] < MaxVersions
    /\ Becomes(r, Goes(call[r], "lock", versions[call[r].id] + 1))
    /\ UNCHANGED <<prompt, versions, label, cache, missed>>

LockVersions(r) ==
    /\ At(r, "lock")
    /\ \A o \in Calls : At(o, "insert") => call[o].id # call[r].id
    /\ Becomes(r, Goes(call[r], "insert", call[r].num))
    /\ UNCHANGED <<prompt, versions, label, cache, missed>>

\* The transaction commits, or idx_prompt_versions_prompt_version refuses a
\* number that was taken while the call waited.
CreateVersion(r) ==
    /\ At(r, "insert")
    /\ LET p == call[r].id
           n == call[r].row.name IN
         IF call[r].num > versions[p]
         THEN /\ versions' = [versions EXCEPT ![p] = call[r].num]
              /\ label' = Labelled(p, call[r].num, call[r].add)
              /\ Becomes(r, Owes({n}))
              /\ Misses(r, {n})
              /\ UNCHANGED <<prompt, cache>>
         ELSE Ends(r)

-----------------------------------------------------------------------------
(* UpdatePrompt and DeletePrompt.                                          *)

BeginUpdate(r) == \E p \in Ids : Reads(r, p, "save", 0, {})

Saved(r, n, names) ==
    /\ prompt' = [prompt EXCEPT ![call[r].id] = Live(n)]
    /\ Becomes(r, Owes(names))
    /\ Misses(r, names)
    /\ UNCHANGED <<versions, label, cache>>

\* Mutant: only the new name is dropped from the cache.
SaveDropsNew(r) ==
    /\ At(r, "save")
    /\ \E n \in Names :
         IF Free(n, call[r].id) THEN Saved(r, n, {n}) ELSE Ends(r)

\* Save writes every column of the row as it was read, or inserts it where it
\* finds none that is not deleted: a deleted prompt is back.
UpdatePrompt(r) ==
    /\ At(r, "save")
    /\ \E n \in Names :
         IF Free(n, call[r].id) THEN Saved(r, n, {call[r].row.name, n}) ELSE Ends(r)

BeginDelete(r) == \E p \in Ids : Reads(r, p, "delete", 0, {})

\* SoftDelete, by the row's id.
DeletePrompt(r) ==
    /\ At(r, "delete")
    /\ LET p == call[r].id
           n == call[r].row.name IN
         /\ prompt' = [prompt EXCEPT ![p] = [state |-> "deleted", name |-> prompt[p].name]]
         /\ Becomes(r, Owes({n}))
         /\ Misses(r, {n})
    /\ UNCHANGED <<versions, label, cache>>

-----------------------------------------------------------------------------
(* SetLabels: the labels of a version are to be those of the request.  It  *)
(* is no transaction: every label is a statement of its own.               *)

\* Mutant: a request may move latest.
BeginAnyLabels(r) ==
    \E p \in Ids, S \in SUBSET AllLabels : \E v \in 1 .. versions[p] :
        Reads(r, p, "list", v, S)

BeginSetLabels(r) ==
    \E p \in Ids, S \in SUBSET Labels : \E v \in 1 .. versions[p] :
        Reads(r, p, "list", v, S)

ListLabels(r) ==
    /\ At(r, "list")
    /\ LET now == {l \in Labels : label[call[r].id][l] = call[r].num} IN
         Becomes(r, Left(call[r], now \ call[r].add, call[r].add, {}))
    /\ UNCHANGED <<prompt, versions, label, cache, missed>>

Labelling(r, l, v) ==
    /\ label' = [label EXCEPT ![call[r].id] = [label[call[r].id] EXCEPT ![l] = v]]
    /\ Becomes(r, Left(call[r], call[r].drop \ {l}, call[r].add \ {l}, {call[r].row.name}))
    /\ Misses(r, {call[r].row.name})
    /\ UNCHANGED <<prompt, versions, cache>>

\* A label that is gone is an error.
RemoveLabel(r) ==
    /\ At(r, "labels")
    /\ \E l \in call[r].drop :
         IF label[call[r].id][l] = 0 THEN Ends(r) ELSE Labelling(r, l, 0)

SetLabel(r) ==
    /\ At(r, "labels") /\ call[r].drop = {}
    /\ \E l \in call[r].add : Labelling(r, l, call[r].num)

\* A label that is protected or has no valid name ends the call, with those
\* before it removed or set, and the cache as it was.
RefuseLabel(r) == At(r, "labels") /\ call[r].drop = {} /\ call[r].add # {} /\ Ends(r)

LabelsDone(r) ==
    /\ At(r, "labels") /\ call[r].drop = {} /\ call[r].add = {}
    /\ Becomes(r, Owes({call[r].row.name}))
    /\ UNCHANGED <<prompt, versions, label, cache, missed>>

-----------------------------------------------------------------------------
(* The end of every call that has written; the cache; failures.            *)

\* InvalidateCache: SCAN of prompt:<project>:<name>:*, and DEL of what it found.
Scan(r) ==
    /\ At(r, "invalidate")
    /\ \E n \in call[r].names :
         Becomes(r, [at |-> "scanned", names |-> call[r].names, name |-> n,
                     found |-> Cached(n)])
    /\ UNCHANGED <<prompt, versions, label, cache, missed>>

Paid(c) == IF c.names = {c.name} THEN Idle ELSE Owes(c.names \ {c.name})

\* An error is only logged.
Drop(r) ==
    /\ At(r, "scanned")
    /\ Becomes(r, Paid(call[r]))
    /\ LET n == call[r].name IN
         \/ /\ cache' = [cache EXCEPT ![n] = [l \in Asked |->
                           IF l \in call[r].found THEN None ELSE cache[n][l]]]
            /\ missed' = missed \ ({n} \X call[r].found)
         \/ /\ "abort" \in Env
            /\ missed' = missed \cup Leaving({n})
            /\ UNCHANGED cache
    /\ UNCHANGED <<prompt, versions, label>>

\* A database error, a crash, or an insert that met another one's label.
Abort(r) == "abort" \in Env /\ call[r] # Idle /\ Ends(r)

\* The TTL of an entry.
Expire(n, l) ==
    /\ cache[n][l] # None
    /\ cache' = [cache EXCEPT ![n] = [cache[n] EXCEPT ![l] = None]]
    /\ missed' = missed \ {<<n, l>>}
    /\ UNCHANGED <<prompt, versions, label, call>>

-----------------------------------------------------------------------------

Begin(r) ==
    \/ BeginGet(r) \/ BeginVersion(r)
    \/ BeginUpdate(r) \/ BeginDelete(r) \/ BeginSetLabels(r)

CallStep(r) ==
    \/ ReadLabel(r) \/ Store(r) \/ SkipStore(r)
    \/ CreatePrompt(r) \/ ReadNumber(r) \/ LockVersions(r) \/ CreateVersion(r)
    \/ UpdatePrompt(r) \/ DeletePrompt(r)
    \/ ListLabels(r) \/ RemoveLabel(r) \/ SetLabel(r) \/ RefuseLabel(r) \/ LabelsDone(r)
    \/ Scan(r) \/ Drop(r)

Next ==
    \/ \E r \in Calls : Begin(r) \/ CallStep(r) \/ Abort(r)
    \/ \E n \in Names, l \in Asked : Expire(n, l)

Spec == Init /\ [][Next]_vars

-----------------------------------------------------------------------------
(* Properties.                                                             *)

\* 20251212170614_create_prompt_labels.up.sql:6 "latest" always points to the
\* highest version number, however calls that create versions and calls that
\* move labels overlap.
LatestIsHighest == \A p \in Ids : label[p][Latest] = versions[p]

\* The call will drop the entry: it has not looked for the keys of the name yet,
\* or it found this one.
WillDrop(r, n, l) ==
    /\ n \in call[r].names
    /\ At(r, "scanned") /\ call[r].name = n => l \in call[r].found

\* Every stale entry is about to be dropped by the call that made it stale, or by
\* another; but for those left by a reader that was overtaken, by a call that
\* failed or was refused half-way, or that knew the prompt by another name.
CacheFollows ==
    \A n \in Names, l \in Asked :
        Stale(n, l) => <<n, l>> \in missed \/ \E r \in Calls : WillDrop(r, n, l)

\* A deleted prompt is not written to by a call that came after its deletion:
\* what brings it back is an update that had read it before.
DeletedStaysDeleted ==
    [][\A p \in Ids :
         prompt[p].state = "deleted" /\ prompt'[p].state = "live" =>
           \E r \in Calls : At(r, "save") /\ call[r].id = p /\ call[r].row.state = "live"]_vars
=============================================================================

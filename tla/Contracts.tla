------------------------------- MODULE Contracts -------------------------------
(***************************************************************************)
(* The enterprise contracts of one organization: the calls of              *)
(* ContractService behind the admin endpoints, and the worker that expires *)
(* contracts, on the rows of contracts and of volume_discount_tiers in one *)
(* usage dimension.                                                        *)
(*                                                                         *)
(* A call reads a contract together with its tiers (Preload).  Save writes *)
(* every column of the row as the call knows it, and puts back those of the*)
(* tiers it had read that are gone.  Transactions are READ COMMITTED: what *)
(* they write becomes visible at their commit, what they read is the rows  *)
(* of that moment.  Start dates are left out: any end date may be valid.   *)
(*                                                                         *)
(* Tiers belong to the request that sent them, numbered in asked.          *)
(***************************************************************************)
EXTENDS TierPricing, Sequences

CONSTANTS
    Ids,          \* contracts
    Calls,        \* calls that may be in flight at the same time
    TierLists,    \* tier lists the clients send
    EndDates,     \* end dates they send
    NoEnd,        \* end_date IS NULL
    MaxTime,      \* bound: the clock stops here
    MaxRequests,  \* bound: requests that send tiers
    MaxFree, MaxUsage,  \* bounds: usage that the pricing is stated for
    FlatPrice,    \* price of a unit without tiers
    Env           \* "abort": errors and crashes happen

ASSUME ContractsAssumption ==
    /\ NoMax \notin Int /\ NoEnd \notin Nat
    /\ EndDates \subseteq Nat
    /\ MaxTime \in Nat /\ MaxRequests \in Nat
    /\ MaxFree \in Nat /\ MaxUsage \in Nat /\ FlatPrice \in Nat
    /\ \A L \in TierLists : IsFiniteSet(L)
    /\ \A L \in TierLists : \A t \in L :
         /\ DOMAIN t = {"min", "max", "price"}
         /\ t.min \in Nat /\ t.price \in Nat
         /\ t.max \in Nat \cup {NoMax}

Tier == UNION TierLists
TierRow == [req : 1 .. MaxRequests, tier : Tier]

Status == {"draft", "active", "expired", "cancelled"}
Row == [status : Status \cup {"absent"}, end : EndDates \cup {NoEnd}]
Absent == [status |-> "absent", end |-> NoEnd]

VARIABLES
    contract,  \* row of every contract
    tiers,     \* tier rows of every contract
    call,      \* calls in flight
    sweep,     \* the expiration worker: contracts it listed, the one it checked
    now,       \* the clock
    asked      \* history: the tier lists of the requests so far

vars == <<contract, tiers, call, sweep, now, asked>>

Idle    == [at |-> "idle"]
NotRead == [row |-> Absent, tiers |-> {}]
Snap    == [row : Row, tiers : SUBSET TierRow]
CallRec == [at : {"tiers", "existing", "update", "activate", "cancel", "replace"},
            id : Ids, read : [Ids -> Snap], req : 0 .. MaxRequests]

TypeOK ==
    /\ contract \in [Ids -> Row]
    /\ tiers \in [Ids -> SUBSET TierRow]
    /\ call \in [Calls -> CallRec \cup {Idle}]
    /\ sweep \in [todo : SUBSET Ids, checked : SUBSET Ids]
    /\ now \in 0 .. MaxTime
    /\ asked \in Seq(SUBSET Tier) /\ Len(asked) <= MaxRequests

Init ==
    /\ contract = [k \in Ids |-> Absent]
    /\ tiers = [k \in Ids |-> {}]
    /\ call = [r \in Calls |-> Idle]
    /\ sweep = [todo |-> {}, checked |-> {}]
    /\ now = 0
    /\ asked = <<>>

-----------------------------------------------------------------------------
(* The database.                                                           *)

\* idx_contracts_active_org: one active contract of an organization.
OneActive(rows) ==
    \A k, l \in Ids : rows[k].status = "active" /\ rows[l].status = "active" => k = l

\* idx_volume_tiers_no_overlap: no two tiers of a contract with one range; two
\* unlimited ranges (NULL) count as different.
RangesDiffer(T) ==
    \A s, t \in T :
        s # t /\ ~Unlimited(s.tier) => s.tier.min # t.tier.min \/ s.tier.max # t.tier.max

RowsOf(n, list) == {[req |-> n, tier |-> t] : t \in list}

\* The rows a call is to insert; an empty list is not counted as a request.
Sent(r) == IF call[r].req = 0 THEN {} ELSE RowsOf(call[r].req, asked[call[r].req])

\* The contracts a call has read and may save.
Known(r) == {k \in Ids : call[r].read[k] # NotRead}

\* Tiers a transaction of another call has deleted and not committed: who
\* inserts them again waits for it.
Unlocked(r) ==
    \A o \in Calls \ {r} : call[o] # Idle /\ call[o].at = "replace" =>
        \A k \in Ids : call[o].read[k].tiers \cap call[r].read[k].tiers = {}

Done(r) == call' = [call EXCEPT ![r] = Idle]

\* Save: every column of the rows the call knows, and the tiers it read; all
\* of it, or nothing when an index refuses a row.
Save(r, rows) ==
    LET kept == [k \in Ids |-> tiers[k] \cup call[r].read[k].tiers] IN
    /\ Unlocked(r)
    /\ IF OneActive(rows) /\ \A k \in Ids : RangesDiffer(kept[k])
       THEN contract' = rows /\ tiers' = kept
       ELSE UNCHANGED <<contract, tiers>>
    /\ Done(r)
    /\ UNCHANGED <<sweep, now, asked>>

-----------------------------------------------------------------------------
(* The calls.                                                              *)

\* A call that keeps nothing of what it read but the contract's id.
Knows(r, k, n, step) ==
    call' = [call EXCEPT ![r] =
        [at |-> step, id |-> k, req |-> n, read |-> [i \in Ids |-> NotRead]]]

\* Mutant: a contract is created under review.
ReviewFirst(end) == [status |-> "review", end |-> end]

Drafted(end) == [status |-> "draft", end |-> end]

\* Create, always as a draft; its tiers are a second call.
Create(r) ==
    /\ call[r] = Idle
    /\ \E k \in Ids, end \in EndDates \cup {NoEnd} :
         /\ contract[k] = Absent
         /\ contract' = [contract EXCEPT ![k] = Drafted(end)]
         /\ \/ UNCHANGED <<call, asked>>
            \/ \E list \in TierLists \ {{}} :
                 /\ Len(asked) < MaxRequests
                 /\ asked' = Append(asked, list)
                 /\ Knows(r, k, Len(asked) + 1, "tiers")
    /\ UNCHANGED <<tiers, sweep, now>>

\* Mutant: the tiers are inserted one by one, and an error stops in between.
InsertSome(r) ==
    /\ call[r] # Idle /\ call[r].at = "tiers"
    /\ LET k == call[r].id
           list == asked[call[r].req] IN
         \E S \in SUBSET list :
           tiers' = [tiers EXCEPT ![k] = @ \cup RowsOf(call[r].req, S)]
    /\ Done(r)
    /\ UNCHANGED <<contract, sweep, now, asked>>

\* Only the new tiers are validated; one statement inserts them all.
AddVolumeTiers(r) ==
    /\ call[r] # Idle /\ call[r].at = "tiers"
    /\ LET k == call[r].id
           added == tiers[k] \cup Sent(r) IN
         tiers' = IF ValidTiers(asked[call[r].req]) /\ RangesDiffer(added)
                  THEN [tiers EXCEPT ![k] = added] ELSE tiers
    /\ Done(r)
    /\ UNCHANGED <<contract, sweep, now, asked>>

ReadOf(k) == [row |-> contract[k], tiers |-> tiers[k]]

Reads(r, k, step) ==
    call' = [call EXCEPT ![r] =
        [at |-> step, id |-> k, req |-> 0,
         read |-> [i \in Ids |-> IF i = k THEN ReadOf(k) ELSE NotRead]]]

BeginUpdate(r) ==
    /\ call[r] = Idle
    /\ \E k \in Ids : contract[k] # Absent /\ Reads(r, k, "update")
    /\ UNCHANGED <<contract, tiers, sweep, now, asked>>

\* The row of its contract as the call read it.
RowRead(r) == call[r].read[call[r].id].row

\* The status, and the end date unless the request has one, are as read.
UpdateContract(r) ==
    /\ call[r] # Idle /\ call[r].at = "update"
    /\ \E end \in EndDates \cup {RowRead(r).end} :
         Save(r, [contract EXCEPT ![call[r].id] = [RowRead(r) EXCEPT !.end = end]])

\* Mutant: any contract may be activated.
BeginActivateAny(r) ==
    /\ call[r] = Idle
    /\ \E k \in Ids : contract[k] # Absent /\ Reads(r, k, "existing")
    /\ UNCHANGED <<contract, tiers, sweep, now, asked>>

\* Only a draft is activated.
BeginActivate(r) ==
    /\ call[r] = Idle
    /\ \E k \in Ids : contract[k].status = "draft" /\ Reads(r, k, "existing")
    /\ UNCHANGED <<contract, tiers, sweep, now, asked>>

\* GetActiveByOrgID: the contract that is active, for now.
WithActive(r) ==
    [k \in Ids |-> IF k # call[r].id /\ contract[k].status = "active"
                   THEN ReadOf(k) ELSE call[r].read[k]]

\* In the same transaction.
ReadExisting(r) ==
    /\ call[r] # Idle /\ call[r].at = "existing"
    /\ call' = [call EXCEPT ![r] = [@ EXCEPT !.at = "activate", !.read = WithActive(r)]]
    /\ UNCHANGED <<contract, tiers, sweep, now, asked>>

\* The transaction commits: the contract that was active is expired, the draft
\* is active, or the unique index rolls both back.
ActivateContract(r) ==
    /\ call[r] # Idle /\ call[r].at = "activate"
    /\ Save(r, [k \in Ids |->
         IF k \notin Known(r) THEN contract[k]
         ELSE [call[r].read[k].row EXCEPT
                 !.status = IF k = call[r].id THEN "active" ELSE "expired"]])

BeginCancel(r) ==
    /\ call[r] = Idle
    /\ \E k \in Ids : /\ contract[k].status \notin {"absent", "cancelled"}
                      /\ Knows(r, k, 0, "cancel")
    /\ UNCHANGED <<contract, tiers, sweep, now, asked>>

\* UPDATE ... SET status WHERE id.
CancelContract(r) ==
    /\ call[r] # Idle /\ call[r].at = "cancel"
    /\ contract' = [contract EXCEPT ![call[r].id].status = "cancelled"]
    /\ Done(r)
    /\ UNCHANGED <<tiers, sweep, now, asked>>

\* UpdateVolumeTiers: valid tiers only; its DELETE takes the rows of now.
BeginReplace(r) ==
    /\ call[r] = Idle
    /\ \E k \in Ids, list \in TierLists \cup {{}} :
         /\ contract[k] # Absent
         /\ ValidTiers(list)
         /\ list # {} => Len(asked) < MaxRequests
         /\ asked' = IF list = {} THEN asked ELSE Append(asked, list)
         /\ call' = [call EXCEPT ![r] =
              [at |-> "replace", id |-> k, req |-> IF list = {} THEN 0 ELSE Len(asked) + 1,
               read |-> [i \in Ids |-> [row |-> Absent,
                                        tiers |-> IF i = k THEN tiers[k] ELSE {}]]]]
    /\ UNCHANGED <<contract, tiers, sweep, now>>

Without(c, k, gone) == [c EXCEPT !.read[k].tiers = @ \ gone]

\* The transaction commits; another one that waited to delete the same rows
\* finds them gone and does not look for others.
UpdateVolumeTiers(r) ==
    /\ call[r] # Idle /\ call[r].at = "replace"
    /\ LET k == call[r].id
           gone == call[r].read[k].tiers
           left == (tiers[k] \ gone) \cup Sent(r) IN
         IF RangesDiffer(left)
         THEN /\ tiers' = [tiers EXCEPT ![k] = left]
              /\ call' = [o \in Calls |->
                   IF o = r THEN Idle
                   ELSE IF call[o] # Idle /\ call[o].at = "replace"
                   THEN Without(call[o], k, gone)
                   ELSE call[o]]
         ELSE UNCHANGED tiers /\ Done(r)
    /\ UNCHANGED <<contract, sweep, now, asked>>

\* A database error, a refused date or a crash: a transaction is rolled back.
Abort(r) ==
    /\ "abort" \in Env
    /\ call[r] # Idle
    /\ Done(r)
    /\ UNCHANGED <<contract, tiers, sweep, now, asked>>

-----------------------------------------------------------------------------
(* The expiration worker, and time.                                        *)

Ended(k) == contract[k].end # NoEnd /\ contract[k].end <= now

\* GetExpiring: active contracts past their end date.
Expiring(k) == contract[k].status = "active" /\ Ended(k)

ListExpiring ==
    /\ sweep.todo = {} /\ sweep.checked = {}
    /\ \E k \in Ids : Expiring(k)
    /\ sweep' = [sweep EXCEPT !.todo = {k \in Ids : Expiring(k)}]
    /\ UNCHANGED <<contract, tiers, call, now, asked>>

\* ExpireContract reads the contract again and looks at its status alone.
CheckActive(k) ==
    /\ sweep.checked = {} /\ k \in sweep.todo
    /\ sweep' = [todo |-> sweep.todo \ {k},
                 checked |-> IF contract[k].status = "active" THEN {k} ELSE {}]
    /\ UNCHANGED <<contract, tiers, call, now, asked>>

\* UPDATE ... SET status WHERE id.
ExpireContract(k) ==
    /\ k \in sweep.checked
    /\ contract' = [contract EXCEPT ![k].status = "expired"]
    /\ sweep' = [sweep EXCEPT !.checked = {}]
    /\ UNCHANGED <<tiers, call, now, asked>>

\* An error of a read or a write leaves the contract to the next run; a crash
\* or the timeout of the run leaves the others too.
SweepError ==
    /\ "abort" \in Env
    /\ sweep.todo # {} \/ sweep.checked # {}
    /\ \E S \in SUBSET sweep.todo : sweep' = [todo |-> S, checked |-> {}]
    /\ UNCHANGED <<contract, tiers, call, now, asked>>

Tick ==
    /\ now < MaxTime
    /\ now' = now + 1
    /\ UNCHANGED <<contract, tiers, call, sweep, asked>>

-----------------------------------------------------------------------------

CallStep(r) ==
    \/ AddVolumeTiers(r) \/ UpdateContract(r)
    \/ ReadExisting(r) \/ ActivateContract(r)
    \/ CancelContract(r) \/ UpdateVolumeTiers(r)

Begin(r) ==
    \/ Create(r) \/ BeginUpdate(r) \/ BeginActivate(r)
    \/ BeginCancel(r) \/ BeginReplace(r)

SweepStep == ListExpiring \/ \E k \in Ids : CheckActive(k) \/ ExpireContract(k)

Next ==
    \/ \E r \in Calls : Begin(r) \/ CallStep(r) \/ Abort(r)
    \/ SweepStep \/ SweepError
    \/ Tick

Spec == Init /\ [][Next]_vars

-----------------------------------------------------------------------------
(* Properties.                                                             *)

TiersOf(k) == {t.tier : t \in tiers[k]}

\* Billing never sees a part of the tiers a request sent: updates, stale saves
\* and errors leave all rows of a request or none.
RequestsWhole ==
    \A k \in Ids : \A t \in tiers[k] : RowsOf(t.req, asked[t.req]) \subseteq tiers[k]

\* A contract whose tiers come from one request is billed unit by unit at the
\* price of the unit's place, whatever is free and however much is used.
BilledByPosition ==
    \A k \in Ids : (\E n \in 1 .. MaxRequests : \A t \in tiers[k] : t.req = n) =>
        \A free \in 0 .. MaxFree, usage \in 0 .. MaxUsage :
            Cost(TiersOf(k), free, usage, FlatPrice)
                = CostByUnit(TiersOf(k), free, usage, FlatPrice)

\* A contract that was cancelled or has expired becomes active or a draft again
\* only by a call that had read it before.
EndedStaysEnded ==
    [][\A k \in Ids :
         /\ contract[k].status \in {"expired", "cancelled"}
         /\ contract'[k].status \in {"draft", "active"}
         => \E r \in Calls : /\ call[r] # Idle /\ call'[r] = Idle
                             /\ call[r].read[k].row.status \in {"draft", "active"}]_vars
=============================================================================

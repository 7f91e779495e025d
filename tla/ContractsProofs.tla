----------------------------- MODULE ContractsProofs -----------------------------
(***************************************************************************)
(* Proofs about Contracts for any contracts, calls, tier lists, dates and  *)
(* errors: type correctness, that the tiers of a request are all there or  *)
(* all gone, that an ended contract comes back only by a stale save, and   *)
(* that a valid list of tiers charges each unit at the price of its place. *)
(***************************************************************************)
EXTENDS Contracts, SumTheorems

LEMMA MaxRequestsNat == MaxRequests \in Nat /\ 0 \in 0 .. MaxRequests
BY ContractsAssumption

\* What is in memory of a row and its tiers is a snapshot of them.
LEMMA ReadType ==
    ASSUME TypeOK, NEW k \in Ids
    PROVE  ReadOf(k) \in Snap
BY DEF ReadOf, TypeOK, Snap

LEMMA NotReadType == NotRead \in Snap
BY DEF NotRead, Snap, Absent, Row, Status

\* The rows of a request, and that they carry its number.
LEMMA RowsType ==
    ASSUME NEW n \in 1 .. MaxRequests, NEW list \in SUBSET Tier
    PROVE  RowsOf(n, list) \subseteq TierRow
BY DEF RowsOf, TierRow

LEMMA RowsNumbered ==
    ASSUME NEW n, NEW list, NEW t \in RowsOf(n, list)
    PROVE  t.req = n
BY DEF RowsOf

LEMMA ListType == \A list \in TierLists \cup {{}} : list \in SUBSET Tier
BY DEF Tier

LEMMA AskedType ==
    ASSUME TypeOK, NEW list \in SUBSET Tier, Len(asked) < MaxRequests
    PROVE  /\ Append(asked, list) \in Seq(SUBSET Tier)
           /\ Len(Append(asked, list)) = Len(asked) + 1
           /\ Len(asked) + 1 \in 1 .. MaxRequests
           /\ \A n \in 1 .. Len(asked) : Append(asked, list)[n] = asked[n]
BY MaxRequestsNat DEF TypeOK

\* A call d is call c with the tiers in S dropped from a snapshot.
Dropped(d, c, k, S) ==
    /\ d.at = c.at /\ d.req = c.req
    /\ \A i \in Ids : d.read[i].tiers = IF i = k THEN c.read[i].tiers \ S
                                        ELSE c.read[i].tiers

LEMMA TiersDropped ==
    ASSUME NEW c \in CallRec, NEW k \in Ids, NEW S
    PROVE  /\ Without(c, k, S) \in CallRec
           /\ Dropped(Without(c, k, S), c, k, S)
<1>0. PICK d : d = Without(c, k, S)
  OBVIOUS
<1>1. c.read \in [Ids -> Snap] /\ c.read[k] \in Snap
  BY DEF CallRec
<1>2. PICK s : s = [c.read[k] EXCEPT !.tiers = @ \ S]
  OBVIOUS
<1>3. s \in Snap /\ s.row = c.read[k].row /\ s.tiers = c.read[k].tiers \ S
  BY <1>1, <1>2 DEF Snap
<1>4. PICK f : f = [c.read EXCEPT ![k] = s]
  OBVIOUS
<1>5. f \in [Ids -> Snap] /\ \A i \in Ids : f[i] = IF i = k THEN s ELSE c.read[i]
  BY <1>1, <1>3, <1>4
<1>6. d = [c EXCEPT !.read = f]
  BY <1>0, <1>2, <1>4 DEF Without
<1>7. d \in CallRec /\ d.at = c.at /\ d.id = c.id /\ d.req = c.req /\ d.read = f
  BY <1>5, <1>6 DEF CallRec
<1> QED
  BY <1>0, <1>3, <1>5, <1>7 DEF Dropped

-----------------------------------------------------------------------------
(* The inductive invariant.  A set of tier rows fits the requests so far   *)
(* when it holds all rows of a request or none.  The tiers of a contract   *)
(* fit, and so does every snapshot that a call may put back; sets that fit *)
(* are closed under what the calls do with them, union and difference.     *)

Fits(T, a) ==
    \A t \in T : /\ t.req \in 1 .. Len(a)
                 /\ t \in RowsOf(t.req, a[t.req])
                 /\ RowsOf(t.req, a[t.req]) \subseteq T

\* A call sends a request that was made, knows whole requests, and activates
\* what was a draft.
CallFits(c, a) ==
    c # Idle => /\ c.req \in 0 .. Len(a)
                /\ \A k \in Ids : Fits(c.read[k].tiers, a)
                /\ c.at \in {"existing", "activate"} => c.read[c.id].row.status = "draft"

Fitting == /\ \A k \in Ids : Fits(tiers[k], asked)
           /\ \A r \in Calls : CallFits(call[r], asked)

IInv == TypeOK /\ Fitting

LEMMA FitsEmpty == \A a : Fits({}, a)
BY DEF Fits

LEMMA FitsUnion ==
    ASSUME NEW a, NEW S, NEW T, Fits(S, a), Fits(T, a)
    PROVE  Fits(S \cup T, a)
BY DEF Fits

\* A row of what is left has its request's rows in T, and none of them in S.
LEMMA FitsMinus ==
    ASSUME NEW a, NEW S, NEW T, Fits(S, a), Fits(T, a)
    PROVE  Fits(T \ S, a)
<1> SUFFICES ASSUME NEW t \in T \ S
             PROVE  /\ t.req \in 1 .. Len(a)
                    /\ t \in RowsOf(t.req, a[t.req])
                    /\ RowsOf(t.req, a[t.req]) \subseteq T \ S
  BY DEF Fits
<1>1. /\ t.req \in 1 .. Len(a)
      /\ t \in RowsOf(t.req, a[t.req])
      /\ RowsOf(t.req, a[t.req]) \subseteq T
  BY DEF Fits
<1>2. ASSUME NEW u \in RowsOf(t.req, a[t.req]), u \in S
      PROVE  FALSE
  <2>1. u.req = t.req
    BY <1>2, RowsNumbered
  <2>2. RowsOf(t.req, a[t.req]) \subseteq S
    BY <1>2, <2>1 DEF Fits
  <2> QED
    BY <1>1, <2>2
<1> QED
  BY <1>1, <1>2

LEMMA FitsRows ==
    ASSUME NEW a, NEW n \in 1 .. Len(a)
    PROVE  Fits(RowsOf(n, a[n]), a)
<1> SUFFICES ASSUME NEW t \in RowsOf(n, a[n])
             PROVE  t.req = n
  BY DEF Fits
<1> QED
  BY RowsNumbered

\* A further request leaves the rows of the others as they are.
LEMMA FitsLonger ==
    ASSUME NEW a, NEW b, NEW T, Fits(T, a),
           1 .. Len(a) \subseteq 1 .. Len(b),
           \A n \in 1 .. Len(a) : b[n] = a[n]
    PROVE  Fits(T, b)
BY DEF Fits

LEMMA SentFits ==
    ASSUME NEW r \in Calls, call[r] # Idle, CallFits(call[r], asked), TypeOK
    PROVE  Fits(Sent(r), asked) /\ Sent(r) \subseteq TierRow
<1>1. CASE call[r].req = 0
  BY <1>1, FitsEmpty DEF Sent
<1>2. CASE call[r].req # 0
  <2>1. PICK n : n = call[r].req
    OBVIOUS
  <2>2. n \in 1 .. Len(asked) /\ n \in 1 .. MaxRequests
    BY <1>2, <2>1, MaxRequestsNat DEF CallFits, TypeOK
  <2>3. Sent(r) = RowsOf(n, asked[n])
    BY <1>2, <2>1 DEF Sent
  <2>4. asked[n] \in SUBSET Tier
    BY <2>2 DEF TypeOK
  <2> QED
    BY <2>2, <2>3, <2>4, FitsRows, RowsType
<1> QED
  BY <1>1, <1>2

-----------------------------------------------------------------------------
(* Type correctness.                                                       *)

Called == call \in [Calls -> CallRec \cup {Idle}]
Stored == contract \in [Ids -> Row] /\ tiers \in [Ids -> SUBSET TierRow]

\* A call at work has a record, and its lists and rows are typed.
LEMMA AtWork ==
    ASSUME TypeOK, NEW r \in Calls, call[r] # Idle
    PROVE  /\ call[r] \in CallRec
           /\ call[r].id \in Ids /\ call[r].req \in 0 .. MaxRequests
           /\ \A k \in Ids : call[r].read[k] \in Snap
BY DEF TypeOK, CallRec

LEMMA BeginType ==
    ASSUME TypeOK, NEW r \in Calls, NEW k \in Ids, NEW n \in 0 .. MaxRequests,
           \/ \E step \in {"tiers", "cancel"} : Knows(r, k, n, step)
           \/ \E step \in {"existing", "update"} : Reads(r, k, step)
    PROVE  Called'
<1>1. \A step \in {"tiers", "cancel"} :
        [at |-> step, id |-> k, req |-> n, read |-> [i \in Ids |-> NotRead]] \in CallRec
  BY NotReadType DEF CallRec
<1>2. \A step \in {"existing", "update"} :
        [at |-> step, id |-> k, req |-> 0,
         read |-> [i \in Ids |-> IF i = k THEN ReadOf(k) ELSE NotRead]] \in CallRec
  BY NotReadType, ReadType, MaxRequestsNat DEF CallRec
<1> QED
  BY <1>1, <1>2 DEF Knows, Reads, Called, TypeOK

LEMMA DoneType ==
    ASSUME TypeOK, NEW r \in Calls, Done(r)
    PROVE  Called'
BY DEF TypeOK, Done, Called

LEMMA SaveType ==
    ASSUME TypeOK, NEW r \in Calls, call[r] # Idle,
           NEW rows \in [Ids -> Row], Save(r, rows)
    PROVE  TypeOK'
<1>1. \A k \in Ids : tiers[k] \cup call[r].read[k].tiers \in SUBSET TierRow
  BY AtWork DEF TypeOK, Snap
<1>2. Stored'
  BY <1>1 DEF Save, Stored, TypeOK
<1>3. Called'
  BY DoneType DEF Save
<1> QED
  BY <1>2, <1>3 DEF Save, TypeOK, Stored, Called

LEMMA RestType ==
    ASSUME TypeOK, Called', Stored', UNCHANGED <<sweep, now, asked>>
    PROVE  TypeOK'
BY DEF TypeOK, Stored, Called

LEMMA TypeStep == IInv /\ [Next]_vars => TypeOK'
<1> SUFFICES ASSUME IInv, [Next]_vars PROVE TypeOK'
  OBVIOUS
<1>t. TypeOK /\ Fitting
  BY DEF IInv
<1>1. ASSUME NEW r \in Calls, Create(r) PROVE TypeOK'
  <2>1. PICK k \in Ids, end \in EndDates \cup {NoEnd} :
          /\ contract' = [contract EXCEPT ![k] = Drafted(end)]
          /\ \/ UNCHANGED <<call, asked>>
             \/ \E list \in TierLists \ {{}} :
                  /\ Len(asked) < MaxRequests
                  /\ asked' = Append(asked, list)
                  /\ Knows(r, k, Len(asked) + 1, "tiers")
    BY <1>1 DEF Create
  <2>2. Stored'
    <3>1. Drafted(end) \in Row /\ tiers' = tiers
      BY <1>1 DEF Create, Drafted, Row, Status
    <3> QED
      BY <1>t, <2>1, <3>1 DEF Stored, TypeOK
  <2>3. Called' /\ (asked \in Seq(SUBSET Tier) /\ Len(asked) <= MaxRequests)'
    <3>1. CASE UNCHANGED <<call, asked>>
      BY <1>t, <3>1 DEF Called, TypeOK
    <3>2. ASSUME NEW list \in TierLists \ {{}}, Len(asked) < MaxRequests,
                 asked' = Append(asked, list), Knows(r, k, Len(asked) + 1, "tiers")
          PROVE  Called' /\ (asked \in Seq(SUBSET Tier) /\ Len(asked) <= MaxRequests)'
      <4>1. Len(asked) + 1 \in 1 .. MaxRequests /\ Len(asked) + 1 \in 0 .. MaxRequests
            /\ Append(asked, list) \in Seq(SUBSET Tier)
            /\ Len(Append(asked, list)) = Len(asked) + 1
        BY <1>t, <3>2, MaxRequestsNat, AskedType, ListType
      <4>2. Called'
        BY <1>t, <3>2, <4>1, BeginType
      <4> QED
        BY <3>2, <4>1, <4>2
    <3> QED
      BY <2>1, <3>1, <3>2
  <2> QED
    BY <1>1, <1>t, <2>2, <2>3 DEF Create, TypeOK, Stored, Called
<1>2. ASSUME NEW r \in Calls, BeginUpdate(r) \/ BeginActivate(r) \/ BeginCancel(r)
      PROVE  TypeOK'
  <2>1. 0 \in 0 .. MaxRequests
    BY MaxRequestsNat
  <2>2. Called'
    BY <1>2, <1>t, <2>1, BeginType DEF BeginUpdate, BeginActivate, BeginCancel
  <2> QED
    BY <1>2, <1>t, <2>2 DEF BeginUpdate, BeginActivate, BeginCancel, TypeOK, Called
<1>3. ASSUME NEW r \in Calls, BeginReplace(r) PROVE TypeOK'
  <2>1. PICK k \in Ids, list \in TierLists \cup {{}} :
          /\ list # {} => Len(asked) < MaxRequests
          /\ asked' = IF list = {} THEN asked ELSE Append(asked, list)
          /\ call' = [call EXCEPT ![r] =
               [at |-> "replace", id |-> k,
                req |-> IF list = {} THEN 0 ELSE Len(asked) + 1,
                read |-> [i \in Ids |-> [row |-> Absent,
                                         tiers |-> IF i = k THEN tiers[k] ELSE {}]]]]
    BY <1>3 DEF BeginReplace
  <2>2. /\ (IF list = {} THEN 0 ELSE Len(asked) + 1) \in 0 .. MaxRequests
        /\ (asked \in Seq(SUBSET Tier) /\ Len(asked) <= MaxRequests)'
    <3>1. CASE list = {}
      BY <1>t, <2>1, <3>1, MaxRequestsNat DEF TypeOK
    <3>2. CASE list # {}
      BY <1>t, <2>1, <3>2, ListType, AskedType, MaxRequestsNat
    <3> QED
      BY <3>1, <3>2
  <2>3. \A i \in Ids : [row |-> Absent, tiers |-> IF i = k THEN tiers[k] ELSE {}] \in Snap
    BY <1>t DEF TypeOK, Snap, Absent, Row, Status
  <2>4. Called'
    BY <1>t, <2>1, <2>2, <2>3 DEF TypeOK, Called, CallRec
  <2> QED
    BY <1>3, <1>t, <2>2, <2>4 DEF BeginReplace, TypeOK, Called
<1>4. ASSUME NEW r \in Calls, AddVolumeTiers(r) PROVE TypeOK'
  <2>1. /\ tiers' \in {tiers, [tiers EXCEPT ![call[r].id] = tiers[call[r].id] \cup Sent(r)]}
        /\ call[r] # Idle
    BY <1>4 DEF AddVolumeTiers
  <2>2. Sent(r) \subseteq TierRow
    BY <1>t, <2>1, SentFits DEF Fitting
  <2>3. Stored'
    BY <1>4, <1>t, <2>1, <2>2 DEF TypeOK, AddVolumeTiers, Stored
  <2>4. Called'
    BY <1>4, <1>t, DoneType DEF AddVolumeTiers
  <2> QED
    BY <1>4, <1>t, <2>3, <2>4, RestType DEF AddVolumeTiers
<1>5. ASSUME NEW r \in Calls, UpdateContract(r) PROVE TypeOK'
  <2>1. call[r] # Idle /\ call[r].id \in Ids /\ RowRead(r) \in Row
    BY <1>5, <1>t, AtWork DEF UpdateContract, RowRead, Snap
  <2>2. PICK end \in EndDates \cup {RowRead(r).end} :
          Save(r, [contract EXCEPT ![call[r].id] = [RowRead(r) EXCEPT !.end = end]])
    BY <1>5 DEF UpdateContract
  <2>3. [RowRead(r) EXCEPT !.end = end] \in Row
    BY <2>1 DEF Row
  <2>4. [contract EXCEPT ![call[r].id] = [RowRead(r) EXCEPT !.end = end]] \in [Ids -> Row]
    BY <1>t, <2>3 DEF TypeOK
  <2> QED
    BY <1>t, <2>1, <2>2, <2>4, SaveType
<1>6. ASSUME NEW r \in Calls, ReadExisting(r) PROVE TypeOK'
  <2>1. /\ call' = [call EXCEPT ![r] = [call[r] EXCEPT !.at = "activate", !.read = WithActive(r)]]
        /\ call[r] # Idle
    BY <1>6 DEF ReadExisting
  <2>2. WithActive(r) \in [Ids -> Snap]
    BY <1>t, <2>1, ReadType, AtWork DEF WithActive
  <2>3. [call[r] EXCEPT !.at = "activate", !.read = WithActive(r)] \in CallRec
    BY <1>t, <2>1, <2>2, AtWork DEF CallRec
  <2>4. Called'
    BY <1>t, <2>1, <2>3 DEF TypeOK, Called
  <2> QED
    BY <1>6, <1>t, <2>4, Zenon DEF ReadExisting, TypeOK, Called
<1>7. ASSUME NEW r \in Calls, ActivateContract(r) PROVE TypeOK'
  <2>1. PICK rows : /\ rows = [k \in Ids |->
                         IF k \notin Known(r) THEN contract[k]
                         ELSE [call[r].read[k].row EXCEPT
                                 !.status = IF k = call[r].id THEN "active" ELSE "expired"]]
                    /\ Save(r, rows) /\ call[r] # Idle
    BY <1>7 DEF ActivateContract
  <2>2. ASSUME NEW k \in Ids, NEW st \in {"active", "expired"}
        PROVE  [call[r].read[k].row EXCEPT !.status = st] \in Row
    BY <1>t, <2>1, AtWork DEF Snap, Row, Status
  <2>3. rows \in [Ids -> Row]
    BY <1>t, <2>1, <2>2 DEF TypeOK
  <2> QED
    BY <1>t, <2>1, <2>3, SaveType
<1>8. ASSUME NEW r \in Calls, CancelContract(r) PROVE TypeOK'
  <2>1. contract' \in [Ids -> Row]
    BY <1>8, <1>t, AtWork DEF CancelContract, TypeOK, Row, Status
  <2>2. Called'
    BY <1>8, <1>t, DoneType DEF CancelContract
  <2> QED
    BY <1>8, <1>t, <2>1, <2>2 DEF CancelContract, TypeOK, Called
<1>9. ASSUME NEW r \in Calls, UpdateVolumeTiers(r) PROVE TypeOK'
  <2>0. PICK k \in Ids : k = call[r].id /\ call[r] # Idle
    BY <1>9, <1>t, AtWork DEF UpdateVolumeTiers
  <2>1. PICK gone : /\ k = call[r].id /\ gone = call[r].read[k].tiers
                    /\ call[r] # Idle
    BY <2>0
  <2>2. /\ tiers' \in {tiers, [tiers EXCEPT ![k] = (tiers[k] \ gone) \cup Sent(r)]}
        /\ \/ Done(r)
           \/ call' = [o \in Calls |->
                IF o = r THEN Idle
                ELSE IF call[o] # Idle /\ call[o].at = "replace"
                THEN Without(call[o], k, gone)
                ELSE call[o]]
    BY <1>9, <2>1 DEF UpdateVolumeTiers
  <2>3. Sent(r) \subseteq TierRow
    BY <1>t, <2>1, SentFits DEF Fitting
  <2>4. Stored'
    <3>1. tiers' \in [Ids -> SUBSET TierRow]
      BY <1>t, <2>2, <2>3 DEF TypeOK
    <3> QED
      BY <1>9, <1>t, <3>1 DEF UpdateVolumeTiers, TypeOK, Stored
  <2>5. \A o \in Calls : call[o] # Idle => Without(call[o], k, gone) \in CallRec
    BY <1>t, AtWork, TiersDropped
  <2>6. Called'
    <3>1. CASE Done(r)
      BY <1>t, <3>1, DoneType
    <3>2. CASE ~Done(r)
      BY <1>t, <2>2, <2>5, <3>2 DEF TypeOK, Called
    <3> QED
      BY <3>1, <3>2
  <2> QED
    BY <1>9, <1>t, <2>4, <2>6, RestType DEF UpdateVolumeTiers
<1>10. ASSUME NEW r \in Calls, Abort(r) PROVE TypeOK'
  <2>1. Called'
    BY <1>10, <1>t, DoneType DEF Abort
  <2> QED
    BY <1>10, <1>t, <2>1 DEF Abort, TypeOK, Called
<1>11. CASE ListExpiring \/ SweepError \/ \E k \in Ids : CheckActive(k)
  <2>1. (sweep \in [todo : SUBSET Ids, checked : SUBSET Ids])'
    BY <1>11, <1>t DEF ListExpiring, SweepError, CheckActive, TypeOK
  <2> QED
    BY <1>11, <1>t, <2>1 DEF ListExpiring, SweepError, CheckActive, TypeOK
<1>12. ASSUME NEW k \in Ids, ExpireContract(k) PROVE TypeOK'
  <2>1. contract' \in [Ids -> Row]
    <3>1. contract' = [contract EXCEPT ![k] = [contract[k] EXCEPT !.status = "expired"]]
      BY <1>12 DEF ExpireContract
    <3>2. contract \in [Ids -> Row] /\ contract[k] \in Row
      BY <1>t DEF TypeOK
    <3>3. [contract[k] EXCEPT !.status = "expired"] \in Row
      BY <3>2 DEF Row, Status
    <3> QED
      BY <3>1, <3>2, <3>3
  <2>2. (sweep \in [todo : SUBSET Ids, checked : SUBSET Ids])'
    BY <1>12, <1>t DEF ExpireContract, TypeOK
  <2> QED
    BY <1>12, <1>t, <2>1, <2>2, Zenon DEF ExpireContract, TypeOK
<1>13. CASE Tick
  BY <1>13, <1>t, ContractsAssumption DEF Tick, TypeOK
<1>14. CASE UNCHANGED vars
  BY <1>14, <1>t DEF vars, TypeOK
<1> QED
  BY <1>1, <1>2, <1>3, <1>4, <1>5, <1>6, <1>7, <1>8, <1>9, <1>10, <1>11, <1>12, <1>13,
     <1>14
  DEF Next, Begin, CallStep, SweepStep

-----------------------------------------------------------------------------
(* Whole requests.                                                         *)

\* The calls fit again when one of them is replaced by one that fits and no
\* request is added.
LEMMA OneCallFits ==
    ASSUME TypeOK, Fitting, NEW r \in Calls, NEW c, CallFits(c, asked),
           call' = [call EXCEPT ![r] = c], asked' = asked
    PROVE  \A o \in Calls : CallFits(call'[o], asked')
BY DEF TypeOK, Fitting

LEMMA DoneFits ==
    ASSUME TypeOK, Fitting, NEW r \in Calls, Done(r), asked' = asked
    PROVE  \A o \in Calls : CallFits(call'[o], asked')
<1>1. CallFits(Idle, asked)
  BY DEF CallFits
<1> QED
  BY <1>1, OneCallFits DEF Done

\* A call that begins with what it reads, of no request.
LEMMA ReadsFit ==
    ASSUME TypeOK, Fitting, NEW k \in Ids, NEW step,
           step = "existing" => contract[k].status = "draft"
    PROVE  /\ step # "activate" =>
                CallFits([at |-> step, id |-> k, req |-> 0,
                          read |-> [i \in Ids |-> IF i = k THEN ReadOf(k) ELSE NotRead]],
                         asked)
           /\ step \notin {"existing", "activate"} => \A n \in 0 .. Len(asked) :
                CallFits([at |-> step, id |-> k, req |-> n,
                          read |-> [i \in Ids |-> NotRead]], asked)
<1>1. Fits(NotRead.tiers, asked) /\ Fits(ReadOf(k).tiers, asked)
  BY FitsEmpty DEF NotRead, ReadOf, Fitting
<1>2. 0 \in 0 .. Len(asked)
  BY DEF TypeOK
<1>3. ReadOf(k).row.status = contract[k].status
  BY DEF ReadOf
<1> QED
  BY <1>1, <1>2, <1>3 DEF CallFits

\* What was asked for before is still asked for.
LEMMA AppendFits ==
    ASSUME TypeOK, Fitting, NEW list \in SUBSET Tier, Len(asked) < MaxRequests
    PROVE  /\ Len(asked) + 1 \in 0 .. Len(Append(asked, list))
           /\ \A T : Fits(T, asked) => Fits(T, Append(asked, list))
           /\ \A c : CallFits(c, asked) => CallFits(c, Append(asked, list))
<1>1. /\ Len(asked) \in Nat
      /\ Len(Append(asked, list)) = Len(asked) + 1
      /\ \A n \in 1 .. Len(asked) : Append(asked, list)[n] = asked[n]
  BY AskedType DEF TypeOK
<1>2. /\ 1 .. Len(asked) \subseteq 1 .. Len(Append(asked, list))
      /\ 0 .. Len(asked) \subseteq 0 .. Len(Append(asked, list))
      /\ Len(asked) + 1 \in 0 .. Len(Append(asked, list))
  BY <1>1
<1>3. \A T : Fits(T, asked) => Fits(T, Append(asked, list))
  BY <1>1, <1>2, FitsLonger
<1> QED
  BY <1>2, <1>3 DEF CallFits

LEMMA SaveFits ==
    ASSUME TypeOK, Fitting, NEW r \in Calls, call[r] # Idle,
           NEW rows, Save(r, rows)
    PROVE  Fitting'
<1>1. \A k \in Ids : Fits(tiers[k] \cup call[r].read[k].tiers, asked)
  BY FitsUnion DEF Fitting, CallFits
<1>2. \A k \in Ids : Fits(tiers'[k], asked)
  BY <1>1 DEF Save, Fitting
<1> QED
  BY <1>2, DoneFits DEF Save, Fitting

LEMMA FittingStep == IInv /\ [Next]_vars => Fitting'
<1> SUFFICES ASSUME IInv, [Next]_vars PROVE Fitting'
  OBVIOUS
<1>t. TypeOK /\ Fitting
  BY DEF IInv
<1>1. ASSUME NEW r \in Calls, Create(r) PROVE Fitting'
  <2>1. tiers' = tiers
    BY <1>1 DEF Create
  <2>2. CASE UNCHANGED <<call, asked>>
    BY <1>t, <2>1, <2>2 DEF Fitting
  <2>3. ASSUME NEW k \in Ids, NEW list \in TierLists \ {{}}, Len(asked) < MaxRequests,
               asked' = Append(asked, list), Knows(r, k, Len(asked) + 1, "tiers")
        PROVE  Fitting'
    <3>1. list \in SUBSET Tier
      BY ListType
    <3>2. /\ Len(asked) + 1 \in 0 .. Len(asked')
          /\ \A T : Fits(T, asked) => Fits(T, asked')
          /\ \A c : CallFits(c, asked) => CallFits(c, asked')
      BY <1>t, <2>3, <3>1, AppendFits
    <3>3. PICK c : /\ c = [at |-> "tiers", id |-> k, req |-> Len(asked) + 1,
                           read |-> [i \in Ids |-> NotRead]]
                   /\ call' = [call EXCEPT ![r] = c]
      BY <2>3 DEF Knows
    <3>4. CallFits(c, asked')
      BY <3>2, <3>3, FitsEmpty DEF CallFits, NotRead
    <3>5. \A o \in Calls : CallFits(call'[o], asked')
      BY <1>t, <3>2, <3>3, <3>4 DEF TypeOK, Fitting
    <3> QED
      BY <1>t, <2>1, <3>2, <3>5 DEF Fitting
  <2> QED
    BY <1>1, <2>2, <2>3 DEF Create
<1>2. ASSUME NEW r \in Calls, BeginUpdate(r) \/ BeginActivate(r) \/ BeginCancel(r)
      PROVE  Fitting'
  <2>1. PICK k \in Ids :
          \/ Reads(r, k, "update")
          \/ Reads(r, k, "existing") /\ contract[k].status = "draft"
          \/ Knows(r, k, 0, "cancel")
    BY <1>2 DEF BeginUpdate, BeginActivate, BeginCancel
  <2>2. tiers' = tiers /\ asked' = asked
    BY <1>2 DEF BeginUpdate, BeginActivate, BeginCancel
  <2>3. 0 \in 0 .. Len(asked)
    BY <1>t DEF TypeOK
  <2>4. \E c : CallFits(c, asked) /\ call' = [call EXCEPT ![r] = c]
    <3>1. CASE Reads(r, k, "update")
      BY <1>t, <3>1, ReadsFit DEF Reads
    <3>2. CASE Reads(r, k, "existing") /\ contract[k].status = "draft"
      BY <1>t, <3>2, ReadsFit DEF Reads
    <3>3. CASE Knows(r, k, 0, "cancel")
      BY <1>t, <2>3, <3>3, ReadsFit DEF Knows
    <3> QED
      BY <2>1, <3>1, <3>2, <3>3
  <2>5. \A o \in Calls : CallFits(call'[o], asked')
    BY <1>t, <2>2, <2>4, OneCallFits
  <2> QED
    BY <1>t, <2>2, <2>5 DEF Fitting
<1>3. ASSUME NEW r \in Calls, BeginReplace(r) PROVE Fitting'
  <2>0. PICK k \in Ids, list \in TierLists \cup {{}} : \E c :
          /\ list # {} => Len(asked) < MaxRequests
          /\ asked' = IF list = {} THEN asked ELSE Append(asked, list)
          /\ c = [at |-> "replace", id |-> k,
                  req |-> IF list = {} THEN 0 ELSE Len(asked) + 1,
                  read |-> [i \in Ids |-> [row |-> Absent,
                                           tiers |-> IF i = k THEN tiers[k] ELSE {}]]]
          /\ call' = [call EXCEPT ![r] = c]
    BY <1>3 DEF BeginReplace
  <2>1. PICK c :
          /\ list # {} => Len(asked) < MaxRequests
          /\ asked' = IF list = {} THEN asked ELSE Append(asked, list)
          /\ c = [at |-> "replace", id |-> k,
                  req |-> IF list = {} THEN 0 ELSE Len(asked) + 1,
                  read |-> [i \in Ids |-> [row |-> Absent,
                                           tiers |-> IF i = k THEN tiers[k] ELSE {}]]]
          /\ call' = [call EXCEPT ![r] = c]
    BY <2>0
  <2>2. /\ c.req \in 0 .. Len(asked')
        /\ \A T : Fits(T, asked) => Fits(T, asked')
        /\ \A d : CallFits(d, asked) => CallFits(d, asked')
    <3>1. CASE list = {}
      BY <1>t, <2>1, <3>1 DEF TypeOK
    <3>2. CASE list # {}
      BY <1>t, <2>1, <3>2, ListType, AppendFits
    <3> QED
      BY <3>1, <3>2
  <2>3. \A i \in Ids : Fits(c.read[i].tiers, asked')
    BY <1>t, <2>1, <2>2, FitsEmpty DEF Fitting
  <2>4. CallFits(c, asked')
    BY <2>1, <2>2, <2>3 DEF CallFits
  <2>5. \A o \in Calls : CallFits(call'[o], asked')
    BY <1>t, <2>1, <2>2, <2>4 DEF TypeOK, Fitting
  <2>6. tiers' = tiers
    BY <1>3 DEF BeginReplace
  <2> QED
    BY <1>t, <2>2, <2>5, <2>6 DEF Fitting
<1>4. ASSUME NEW r \in Calls, AddVolumeTiers(r) PROVE Fitting'
  <2>1. /\ tiers' \in {tiers, [tiers EXCEPT ![call[r].id] = tiers[call[r].id] \cup Sent(r)]}
        /\ call[r] # Idle /\ asked' = asked /\ Done(r)
    BY <1>4 DEF AddVolumeTiers
  <2>2. \A k \in Ids : Fits(tiers[k] \cup Sent(r), asked)
    BY <1>t, <2>1, SentFits, FitsUnion DEF Fitting
  <2>3. \A k \in Ids : Fits(tiers'[k], asked')
    BY <1>t, <2>1, <2>2 DEF TypeOK, Fitting
  <2> QED
    BY <1>t, <2>1, <2>3, DoneFits DEF Fitting
<1>5. ASSUME NEW r \in Calls, UpdateContract(r) PROVE Fitting'
  <2>1. call[r] # Idle /\ \E rows : Save(r, rows)
    BY <1>5 DEF UpdateContract
  <2> QED
    BY <1>t, <2>1, SaveFits
<1>6. ASSUME NEW r \in Calls, ReadExisting(r) PROVE Fitting'
  <2>1. /\ call' = [call EXCEPT ![r] = [call[r] EXCEPT !.at = "activate", !.read = WithActive(r)]]
        /\ call[r] # Idle /\ call[r].at = "existing"
        /\ tiers' = tiers /\ asked' = asked
    BY <1>6 DEF ReadExisting
  <2>2. PICK c : c = [call[r] EXCEPT !.at = "activate", !.read = WithActive(r)]
    OBVIOUS
  <2>3. /\ c.id = call[r].id /\ c.req = call[r].req /\ c.read = WithActive(r)
        /\ c.id \in Ids
    BY <1>t, <2>1, <2>2, AtWork DEF CallRec
  <2>4. CallFits(call[r], asked)
    BY <1>t DEF Fitting
  <2>5. \A i \in Ids : Fits(c.read[i].tiers, asked)
    BY <1>t, <2>1, <2>3, <2>4 DEF WithActive, ReadOf, Fitting, CallFits
  <2>6. c.read[c.id] = call[r].read[call[r].id]
    BY <2>3 DEF WithActive
  <2>7. CallFits(c, asked)
    BY <2>1, <2>3, <2>4, <2>5, <2>6 DEF CallFits
  <2>8. \A o \in Calls : CallFits(call'[o], asked')
    BY <1>t, <2>1, <2>2, <2>7, OneCallFits
  <2> QED
    BY <1>t, <2>1, <2>8 DEF Fitting
<1>7. ASSUME NEW r \in Calls, ActivateContract(r) PROVE Fitting'
  <2>1. call[r] # Idle /\ \E rows : Save(r, rows)
    BY <1>7 DEF ActivateContract
  <2> QED
    BY <1>t, <2>1, SaveFits
<1>8. ASSUME NEW r \in Calls, CancelContract(r) \/ Abort(r) PROVE Fitting'
  <2>1. Done(r) /\ tiers' = tiers /\ asked' = asked
    BY <1>8 DEF CancelContract, Abort
  <2> QED
    BY <1>t, <2>1, DoneFits DEF Fitting
<1>9. ASSUME NEW r \in Calls, UpdateVolumeTiers(r) PROVE Fitting'
  <2>0. PICK k \in Ids : k = call[r].id /\ call[r] # Idle /\ asked' = asked
    BY <1>9, <1>t, AtWork DEF UpdateVolumeTiers
  <2>1. PICK gone : /\ k = call[r].id /\ gone = call[r].read[k].tiers
                    /\ call[r] # Idle /\ asked' = asked
    BY <2>0
  <2>2. /\ tiers' \in {tiers, [tiers EXCEPT ![k] = (tiers[k] \ gone) \cup Sent(r)]}
        /\ \/ Done(r)
           \/ call' = [o \in Calls |->
                IF o = r THEN Idle
                ELSE IF call[o] # Idle /\ call[o].at = "replace"
                THEN Without(call[o], k, gone)
                ELSE call[o]]
    BY <1>9, <2>1 DEF UpdateVolumeTiers
  <2>3. Fits(gone, asked) /\ Fits(Sent(r), asked)
    BY <1>t, <2>1, SentFits DEF Fitting, CallFits
  <2>4. \A i \in Ids : Fits(tiers'[i], asked')
    <3>1. Fits((tiers[k] \ gone) \cup Sent(r), asked)
      BY <1>t, <2>3, FitsMinus, FitsUnion DEF Fitting
    <3> QED
      BY <1>t, <2>1, <2>2, <3>1 DEF TypeOK, Fitting
  <2>5. ASSUME NEW o \in Calls, call[o] # Idle, call[o].at = "replace"
        PROVE  CallFits(Without(call[o], k, gone), asked)
    <3>1. call[o] \in CallRec /\ CallFits(call[o], asked)
      BY <1>t, <2>5, AtWork DEF Fitting
    <3>2. Dropped(Without(call[o], k, gone), call[o], k, gone)
      BY <3>1, TiersDropped
    <3>3. PICK d : d = Without(call[o], k, gone)
      OBVIOUS
    <3>4. ASSUME NEW i \in Ids PROVE Fits(d.read[i].tiers, asked)
      <4>1. Fits(call[o].read[i].tiers, asked)
        BY <2>5, <3>1 DEF CallFits
      <4>2. Fits(call[o].read[i].tiers \ gone, asked)
        BY <2>3, <4>1, FitsMinus
      <4> QED
        BY <3>2, <3>3, <4>1, <4>2 DEF Dropped
    <3> QED
      BY <2>5, <3>1, <3>2, <3>3, <3>4 DEF CallFits, Dropped
  <2>6. CallFits(Idle, asked)
    BY DEF CallFits
  <2>7. \A o \in Calls : CallFits(call'[o], asked')
    <3>1. CASE Done(r)
      BY <1>t, <2>1, <3>1, DoneFits
    <3>2. CASE ~Done(r)
      BY <1>t, <2>1, <2>2, <2>5, <2>6, <3>2 DEF Fitting
    <3> QED
      BY <3>1, <3>2
  <2> QED
    BY <2>4, <2>7 DEF Fitting
<1>10. CASE SweepStep \/ SweepError \/ Tick \/ UNCHANGED vars
  <2>1. UNCHANGED <<tiers, call, asked>>
    BY <1>10
    DEF SweepStep, ListExpiring, CheckActive, ExpireContract, SweepError, Tick, vars
  <2> QED
    BY <1>t, <2>1 DEF Fitting
<1> QED
  BY <1>1, <1>2, <1>3, <1>4, <1>5, <1>6, <1>7, <1>8, <1>9, <1>10
  DEF Next, Begin, CallStep

-----------------------------------------------------------------------------

LEMMA InitIInv == Init => IInv
<1> SUFFICES ASSUME Init PROVE IInv
  OBVIOUS
<1>1. contract \in [Ids -> Row] /\ tiers \in [Ids -> SUBSET TierRow]
  BY DEF Init, Absent, Row, Status
<1>2. TypeOK
  BY <1>1, MaxRequestsNat, ContractsAssumption DEF Init, TypeOK
<1>3. Fitting
  BY FitsEmpty DEF Init, Fitting, CallFits
<1> QED
  BY <1>2, <1>3 DEF IInv

THEOREM InductiveInvariant == Spec => []IInv
<1>1. IInv /\ [Next]_vars => IInv'
  BY TypeStep, FittingStep DEF IInv
<1> QED
  BY <1>1, InitIInv, PTL DEF Spec

\* Every variable keeps its type: whatever calls save and delete, the rows of
\* tiers are those of some request, and every status is one of the four.
THEOREM TypeCorrect == Spec => []TypeOK
BY InductiveInvariant, PTL DEF IInv

\* Billing never sees a part of a request's tiers, for any number of contracts,
\* calls and requests: stale saves, replacements, errors and crashes included.
THEOREM RequestsStayWhole == Spec => []RequestsWhole
<1>1. IInv => RequestsWhole
  BY DEF IInv, Fitting, Fits, RequestsWhole
<1> QED
  BY <1>1, InductiveInvariant, PTL

-----------------------------------------------------------------------------
(* Ended contracts.                                                        *)

Revived(k) == /\ contract[k].status \in {"expired", "cancelled"}
              /\ contract'[k].status \in {"draft", "active"}

\* Of all the steps only a save revives a contract, and it saves the status
\* that its call had read, or activates the draft that it had read.
LEMMA RevivedBySave ==
    ASSUME IInv, [Next]_vars, NEW k \in Ids, Revived(k)
    PROVE  \E r \in Calls : /\ call[r] # Idle /\ call'[r] = Idle
                            /\ call[r].read[k].row.status \in {"draft", "active"}
<1>t. TypeOK /\ Fitting
  BY DEF IInv
<1>1. \A r \in Calls : Done(r) => call'[r] = Idle
  BY <1>t DEF TypeOK, Done
<1>2. ASSUME NEW r \in Calls, UpdateContract(r)
      PROVE  call[r].read[k].row.status \in {"draft", "active"}
  <2>1. PICK end : contract' \in {contract, [contract EXCEPT
                                    ![call[r].id] = [RowRead(r) EXCEPT !.end = end]]}
    BY <1>2 DEF UpdateContract, Save
  <2>2. RowRead(r) \in Row
    BY <1>2, <1>t, AtWork DEF UpdateContract, RowRead, Snap
  <2>3. [RowRead(r) EXCEPT !.end = end].status = RowRead(r).status
    BY <2>2 DEF Row
  <2>4. k = call[r].id /\ contract'[k].status = RowRead(r).status
    BY <1>t, <2>1, <2>3 DEF Revived, TypeOK
  <2> QED
    BY <2>4 DEF Revived, RowRead
<1>3. ASSUME NEW r \in Calls, ActivateContract(r)
      PROVE  call[r].read[k].row.status \in {"draft", "active"}
  <2>1. /\ call[r] # Idle /\ call[r].at = "activate"
        /\ \/ contract' = contract
           \/ contract'[k] = IF k \notin Known(r) THEN contract[k]
                ELSE [call[r].read[k].row EXCEPT
                        !.status = IF k = call[r].id THEN "active" ELSE "expired"]
    BY <1>3 DEF ActivateContract, Save
  <2>2. call[r].read[k].row \in Row
    BY <1>t, <2>1, AtWork DEF Snap
  <2>3. k = call[r].id
    BY <2>1, <2>2 DEF Revived, Row
  <2>4. call[r].read[k].row.status = "draft"
    BY <1>t, <2>1, <2>3 DEF Fitting, CallFits
  <2> QED
    BY <2>4
<1>4. ASSUME NEW r \in Calls, Create(r) PROVE FALSE
  <2>1. PICK i \in Ids, end \in EndDates \cup {NoEnd} :
          contract[i] = Absent /\ contract' = [contract EXCEPT ![i] = Drafted(end)]
    BY <1>4 DEF Create
  <2> QED
    BY <1>t, <2>1 DEF Revived, TypeOK, Absent
<1>5. ASSUME NEW i \in Ids, NEW st \in {"cancelled", "expired"},
             contract' = [contract EXCEPT ![i].status = st]
      PROVE  FALSE
  <2>1. contract[i] \in Row /\ contract' = [contract EXCEPT ![i] = [contract[i] EXCEPT !.status = st]]
    BY <1>5, <1>t DEF TypeOK
  <2>2. [contract[i] EXCEPT !.status = st].status = st
    BY <2>1 DEF Row
  <2> QED
    BY <1>t, <2>1, <2>2 DEF Revived, TypeOK
<1>6. ASSUME NEW r \in Calls, CancelContract(r) PROVE FALSE
  BY <1>6, <1>5, <1>t, AtWork DEF CancelContract
<1>7. ASSUME NEW i \in Ids, ExpireContract(i) PROVE FALSE
  BY <1>7, <1>5 DEF ExpireContract
<1>8. ASSUME contract' = contract PROVE FALSE
  BY <1>8 DEF Revived
<1>9. ASSUME NEW r \in Calls,
             \/ BeginUpdate(r) \/ BeginActivate(r) \/ BeginCancel(r) \/ BeginReplace(r)
             \/ AddVolumeTiers(r) \/ ReadExisting(r) \/ UpdateVolumeTiers(r) \/ Abort(r)
      PROVE  contract' = contract
  BY <1>9 DEF BeginUpdate, BeginActivate, BeginCancel, BeginReplace,
              AddVolumeTiers, ReadExisting, UpdateVolumeTiers, Abort
<1>10. CASE ListExpiring \/ (\E i \in Ids : CheckActive(i)) \/ SweepError \/ Tick
            \/ UNCHANGED vars
  BY <1>8, <1>10 DEF ListExpiring, CheckActive, SweepError, Tick, vars
<1>11. \A r \in Calls : UpdateContract(r) \/ ActivateContract(r) =>
          call[r] # Idle /\ call'[r] = Idle
  BY <1>1 DEF UpdateContract, ActivateContract, Save
<1> QED
  BY <1>2, <1>3, <1>4, <1>6, <1>7, <1>8, <1>9, <1>10, <1>11
  DEF Next, Begin, CallStep, SweepStep

\* Only a call that had read a contract before it ended brings it back, for any
\* number of contracts, calls and errors.
THEOREM EndedContractsStayEnded == Spec => EndedStaysEnded
<1>1. IInv /\ [Next]_vars =>
        [\A k \in Ids :
           /\ contract[k].status \in {"expired", "cancelled"}
           /\ contract'[k].status \in {"draft", "active"}
           => \E r \in Calls : /\ call[r] # Idle /\ call'[r] = Idle
                               /\ call[r].read[k].row.status \in {"draft", "active"}]_vars
  BY RevivedBySave DEF Revived
<1> QED
  BY <1>1, InductiveInvariant, PTL DEF Spec, EndedStaysEnded

-----------------------------------------------------------------------------
(* Prices.  Under a valid list the tiers that are not visited lie beyond   *)
(* the usage, so the visited ones charge what all would; and one unit more *)
(* is charged by the tiers that have a place for it.                       *)

\* A list of tiers as a client may send it.
TierList(T) ==
    /\ IsFiniteSet(T)
    /\ \A t \in T : t.min \in Nat /\ t.price \in Nat /\ t.max \in Nat \cup {NoMax}

\* A tier of a valid list ends where another begins, or before.
LEMMA TiersInOrder ==
    ASSUME NEW T, TierList(T), ValidTiers(T), NoMax \notin Int,
           NEW s \in T, NEW t \in T, s.min < t.min
    PROVE  s.max \in Nat /\ s.max <= t.min
<1> DEFINE S == {x \in Nat : s.min < x /\ \E r \in T : r.min = x}
<1>1. S \subseteq Nat /\ t.min \in S
  BY DEF TierList
<1>2. PICK x \in S : \A y \in S : x <= y
  BY <1>1, LeastNatural
<1>3. PICK r \in T : r.min = x /\ s.min < x
  BY <1>2
<1>4. Follows(r, s, T)
  <2>1. ASSUME NEW q \in T, s.min < q.min, q.min < r.min PROVE FALSE
    <3>1. q.min \in S
      BY <2>1 DEF TierList
    <3>2. x <= q.min /\ x \in Nat /\ q.min \in Nat
      BY <1>2, <3>1
    <3> QED
      BY <1>3, <2>1, <3>2
  <2> QED
    BY <1>3, <2>1 DEF Follows
<1>5. s.max = x
  BY <1>3, <1>4 DEF ValidTiers
<1> QED
  BY <1>1, <1>2, <1>5

\* Tiers that are not visited have nothing to charge.
LEMMA NothingLeft ==
    ASSUME NEW T, TierList(T), ValidTiers(T), NoMax \notin Int,
           NEW free \in Nat, NEW usage \in Nat, NEW t \in T \ Visited(T, free, usage)
    PROVE  Charge(t, free, usage) = 0
<1>1. PICK s \in T : s.min < t.min /\ Ends(s, free, usage)
  BY DEF Visited
<1>2. s.max \in Nat /\ s.max <= t.min
  BY <1>1, TiersInOrder
<1>3. usage <= t.min /\ t.min \in Nat /\ t.price \in Nat /\ t.max \in Nat \cup {NoMax}
  BY <1>1, <1>2 DEF Ends, Unlimited, TierList
<1>4. Larger(0, Overlap(t, free, usage)) = 0
  BY <1>3 DEF Larger, Smaller, Overlap, Unlimited
<1> QED
  BY <1>3, <1>4 DEF Charge

\* The tier has a place for the unit x.
Holds(t, x) == t.min <= x /\ (Unlimited(t) \/ x < t.max)

\* One unit more is charged by the tiers that have a place for it.
LEMMA OneMoreUnit ==
    ASSUME NEW t, t.min \in Nat, t.price \in Nat, t.max \in Nat \cup {NoMax},
           NoMax \notin Int, NEW free \in Nat, NEW u \in Nat, free <= u
    PROVE  /\ Charge(t, free, u) \in Int
           /\ Charge(t, free, u + 1)
                = Charge(t, free, u) + (IF Holds(t, u) THEN t.price ELSE 0)
<1> DEFINE a == Larger(0, Overlap(t, free, u))
           b == Larger(0, Overlap(t, free, u + 1))
<1>1. a \in Int /\ b = a + (IF Holds(t, u) THEN 1 ELSE 0)
  BY DEF Larger, Smaller, Overlap, Unlimited, Holds
<1>2. Charge(t, free, u) = a * t.price /\ Charge(t, free, u + 1) = b * t.price
  BY DEF Charge
<1> HIDE DEF a, b
<1>3. a * t.price \in Int /\ (a + 1) * t.price = a * t.price + t.price
  BY <1>1
<1> QED
  BY <1>1, <1>2, <1>3

LEMMA NothingBeforeFree ==
    ASSUME NEW t, t.min \in Nat, t.price \in Nat, t.max \in Nat \cup {NoMax},
           NoMax \notin Int, NEW free \in Nat
    PROVE  Charge(t, free, free) = 0
<1>1. Larger(0, Overlap(t, free, free)) = 0
  BY DEF Larger, Smaller, Overlap, Unlimited
<1> QED
  BY <1>1 DEF Charge

\* The sums over tiers and over units are totals.
LEMMA SumOfCharges ==
    ASSUME NEW free, NEW usage, NEW S, IsFiniteSet(S),
           NEW f, \A x \in S : f[x] = Charge(x, free, usage)
    PROVE  MapThenSumSet(LAMBDA t : Charge(t, free, usage), S) = Total(f, S)
<1> DEFINE g == CHOOSE g : g = [s \in SUBSET S |->
                    IF s = {} THEN 0
                    ELSE Charge(AnyOf(s), free, usage) + g[s \ {AnyOf(s)}]]
<1>1. MapThenSumSet(LAMBDA t : Charge(t, free, usage), S) = g[S]
  BY DEF MapThenSumSet, MapThenFoldSet, AnyOf
<1>2. PICK h : IsFold(f, S, h) /\ Total(f, S) = h[S]
  BY TotalIsFold
<1>3. \A s \in SUBSET S : s # {} => f[AnyOf(s)] = Charge(AnyOf(s), free, usage)
  BY AnyOfIsIn
<1>4. h = [s \in SUBSET S |->
             IF s = {} THEN 0 ELSE Charge(AnyOf(s), free, usage) + h[s \ {AnyOf(s)}]]
  BY <1>2, <1>3 DEF IsFold
<1>5. g = [s \in SUBSET S |->
             IF s = {} THEN 0 ELSE Charge(AnyOf(s), free, usage) + g[s \ {AnyOf(s)}]]
  BY <1>4, Zenon
<1> HIDE DEF g
<1>6. IsFold(f, S, g)
  BY <1>3, <1>5 DEF IsFold
<1>7. g[S] = h[S]
  BY <1>2, <1>6, FoldsAgree
<1> QED
  BY <1>1, <1>2, <1>7

LEMMA SumOfPrices ==
    ASSUME NEW S, IsFiniteSet(S),
           NEW f, \A x \in S : f[x] = x.price
    PROVE  MapThenSumSet(LAMBDA t : t.price, S) = Total(f, S)
<1> DEFINE g == CHOOSE g : g = [s \in SUBSET S |->
                    IF s = {} THEN 0
                    ELSE AnyOf(s).price + g[s \ {AnyOf(s)}]]
<1>1. MapThenSumSet(LAMBDA t : t.price, S) = g[S]
  BY DEF MapThenSumSet, MapThenFoldSet, AnyOf
<1>2. PICK h : IsFold(f, S, h) /\ Total(f, S) = h[S]
  BY TotalIsFold
<1>3. \A s \in SUBSET S : s # {} => f[AnyOf(s)] = AnyOf(s).price
  BY AnyOfIsIn
<1>4. h = [s \in SUBSET S |->
             IF s = {} THEN 0 ELSE AnyOf(s).price + h[s \ {AnyOf(s)}]]
  BY <1>2, <1>3 DEF IsFold
<1>5. g = [s \in SUBSET S |->
             IF s = {} THEN 0 ELSE AnyOf(s).price + g[s \ {AnyOf(s)}]]
  BY <1>4, Zenon
<1> HIDE DEF g
<1>6. IsFold(f, S, g)
  BY <1>3, <1>5 DEF IsFold
<1>7. g[S] = h[S]
  BY <1>2, <1>6, FoldsAgree
<1> QED
  BY <1>1, <1>2, <1>7

LEMMA SumOfUnits ==
    ASSUME NEW T, NEW flat, NEW S, IsFiniteSet(S),
           NEW f, \A x \in S : f[x] = UnitPrice(T, x, flat)
    PROVE  MapThenSumSet(LAMBDA x : UnitPrice(T, x, flat), S) = Total(f, S)
<1> DEFINE g == CHOOSE g : g = [s \in SUBSET S |->
                    IF s = {} THEN 0
                    ELSE UnitPrice(T, AnyOf(s), flat) + g[s \ {AnyOf(s)}]]
<1>1. MapThenSumSet(LAMBDA x : UnitPrice(T, x, flat), S) = g[S]
  BY DEF MapThenSumSet, MapThenFoldSet, AnyOf
<1>2. PICK h : IsFold(f, S, h) /\ Total(f, S) = h[S]
  BY TotalIsFold
<1>3. \A s \in SUBSET S : s # {} => f[AnyOf(s)] = UnitPrice(T, AnyOf(s), flat)
  BY AnyOfIsIn
<1>4. h = [s \in SUBSET S |->
             IF s = {} THEN 0 ELSE UnitPrice(T, AnyOf(s), flat) + h[s \ {AnyOf(s)}]]
  BY <1>2, <1>3 DEF IsFold
<1>5. g = [s \in SUBSET S |->
             IF s = {} THEN 0 ELSE UnitPrice(T, AnyOf(s), flat) + g[s \ {AnyOf(s)}]]
  BY <1>4, Zenon
<1> HIDE DEF g
<1>6. IsFold(f, S, g)
  BY <1>3, <1>5 DEF IsFold
<1>7. g[S] = h[S]
  BY <1>2, <1>6, FoldsAgree
<1> QED
  BY <1>1, <1>2, <1>7

LEMMA UnitPriceIsTotal ==
    ASSUME NEW T, TierList(T), T # {}, NEW x, NEW flat
    PROVE  /\ UnitPrice(T, x, flat)
                = Total([t \in T |-> t.price], T \cap {t \in T : Holds(t, x)})
           /\ UnitPrice(T, x, flat) \in Int
<1> DEFINE A == T \cap {t \in T : Holds(t, x)}
           p == [t \in T |-> t.price]
<1>1. A = {t \in T : t.min <= x /\ (Unlimited(t) \/ x < t.max)}
  BY DEF Holds
<1>2. UnitPrice(T, x, flat) = MapThenSumSet(LAMBDA t : t.price, A)
  BY <1>1, Zenon DEF UnitPrice
<1>3. IsFiniteSet(A) /\ A \subseteq T
  BY FS_Subset DEF TierList
<1>4. \A t \in A : p[t] = t.price /\ p[t] \in Int
  BY DEF TierList
<1> HIDE DEF A, p
<1>5. MapThenSumSet(LAMBDA t : t.price, A) = Total(p, A) /\ Total(p, A) \in Int
  BY <1>3, <1>4, SumOfPrices, TotalInteger
<1> QED
  BY <1>2, <1>5 DEF A, p

LEMMA MoreCharged ==
    ASSUME NEW T, TierList(T), NoMax \notin Int,
           NEW free \in Nat, NEW u \in Nat, free <= u, NEW c, NEW d, NEW p,
           \A t \in T : /\ c[t] = Charge(t, free, u)
                        /\ d[t] = Charge(t, free, u + 1)
                        /\ p[t] = t.price
    PROVE  Total(d, T) = Total(c, T) + Total(p, T \cap {t \in T : Holds(t, u)})
<1> DEFINE A == {t \in T : Holds(t, u)}
<1>1. IsFiniteSet(T)
  BY DEF TierList
<1>2. Added(d, c, p, A, T)
  BY OneMoreUnit DEF Added, TierList
<1> HIDE DEF A
<1>3. Total(d, T) = Total(c, T) + Total(p, T \cap A)
  BY <1>1, <1>2, TotalOfMore
<1> QED
  BY <1>3 DEF A

LEMMA ByUnitIsTotal ==
    ASSUME NEW T, NEW free \in Nat, NEW usage \in Nat, NEW flat,
           NEW f, \A x \in Nat : f[x] = UnitPrice(T, x, flat)
    PROVE  CostByUnit(T, free, usage, flat) = Total(f, free .. (usage - 1))
<1> DEFINE R == free .. (usage - 1)
<1>1. IsFiniteSet(R) /\ R \subseteq Nat
  BY FS_Interval
<1>2. CostByUnit(T, free, usage, flat) = MapThenSumSet(LAMBDA x : UnitPrice(T, x, flat), R)
  BY DEF CostByUnit
<1> HIDE DEF R
<1>3. MapThenSumSet(LAMBDA x : UnitPrice(T, x, flat), R) = Total(f, R)
  BY <1>1, SumOfUnits, Zenon
<1> QED
  BY <1>2, <1>3 DEF R

\* Without tiers every unit has the same price.
LEMMA FlatByUnit ==
    ASSUME NEW T, T = {}, NEW flat \in Nat,
           NEW free \in Nat, NEW usage \in Nat, free <= usage
    PROVE  CostByUnit(T, free, usage, flat) = (usage - free) * flat
<1> DEFINE f == [x \in Nat |-> flat]
           Bad == {u \in Nat : free <= u /\ Total(f, free .. (u - 1)) # (u - free) * flat}
<1>1. CostByUnit(T, free, usage, flat) = Total(f, free .. (usage - 1))
  <2>1. \A x \in Nat : f[x] = UnitPrice(T, x, flat)
    BY DEF UnitPrice
  <2> HIDE DEF f
  <2> QED
    BY <2>1, ByUnitIsTotal
<1>2. \A x \in Nat : f[x] = flat
  OBVIOUS
<1> HIDE DEF f
<1>3. Bad = {}
  <2> SUFFICES ASSUME Bad # {} PROVE FALSE
    OBVIOUS
  <2>1. PICK u \in Bad : \A n \in Bad : u <= n
    BY LeastNatural
  <2>2. u \in Nat /\ free <= u /\ Total(f, free .. (u - 1)) # (u - free) * flat
    OBVIOUS
  <2>3. CASE u = free
    <3>1. free .. (u - 1) = {} /\ (u - free) * flat = 0
      BY <2>3
    <3>2. Total(f, free .. (u - 1)) = 0
      BY <3>1, TotalOfNone, Zenon
    <3> QED
      BY <2>2, <3>1, <3>2
  <2>4. CASE u # free
    <3>1. PICK v \in Nat : u = v + 1 /\ v = u - 1 /\ free <= v
      BY <2>2, <2>4
    <3>2. v \notin Bad
      BY <2>1, <3>1
    <3>3. Total(f, free .. (v - 1)) = (v - free) * flat
      BY <3>1, <3>2
    <3> HIDE DEF Bad
    <3>4. Total(f, free .. v) = Total(f, free .. (v - 1)) + flat
      BY <1>2, <3>1, LastOne
    <3>5. Total(f, free .. (u - 1)) = Total(f, free .. v)
      BY <3>1, Zenon
    <3>6. (u - free) * flat = (v - free) * flat + flat
      BY <3>1
    <3> QED
      BY <2>2, <3>3, <3>4, <3>5, <3>6
  <2> QED
    BY <2>3, <2>4
<1> QED
  BY <1>1, <1>3

\* Tiers charge every unit beyond the free ones at the price of its place.
LEMMA ChargedByUnit ==
    ASSUME NEW T, TierList(T), T # {}, NoMax \notin Int,
           NEW free \in Nat, NEW usage \in Nat, free <= usage, NEW flat
    PROVE  Total([t \in T |-> Charge(t, free, usage)], T)
             = CostByUnit(T, free, usage, flat)
<1> DEFINE c(u) == [t \in T |-> Charge(t, free, u)]
           p == [t \in T |-> t.price]
           f == [x \in Nat |-> UnitPrice(T, x, flat)]
           Bad == {u \in Nat : free <= u /\ Total(c(u), T) # Total(f, free .. (u - 1))}
<1>1. CostByUnit(T, free, usage, flat) = Total(f, free .. (usage - 1))
  <2>1. \A x \in Nat : f[x] = UnitPrice(T, x, flat)
    OBVIOUS
  <2> HIDE DEF f
  <2> QED
    BY <2>1, ByUnitIsTotal
<1>2. \A x \in Nat : f[x] \in Int /\ f[x] = Total(p, T \cap {t \in T : Holds(t, x)})
  BY UnitPriceIsTotal
<1>3. \A t \in T : /\ t.min \in Nat /\ t.price \in Nat /\ t.max \in Nat \cup {NoMax}
                   /\ p[t] = t.price
  BY DEF TierList
<1>4. \A u \in Nat : \A t \in T : c(u)[t] = Charge(t, free, u)
  OBVIOUS
<1>5. IsFiniteSet(T)
  BY DEF TierList
<1> HIDE DEF f, p, c
<1>6. Bad = {}
  <2> SUFFICES ASSUME Bad # {} PROVE FALSE
    OBVIOUS
  <2>1. PICK u \in Bad : \A n \in Bad : u <= n
    BY LeastNatural
  <2>2. u \in Nat /\ free <= u /\ Total(c(u), T) # Total(f, free .. (u - 1))
    OBVIOUS
  <2>3. CASE u = free
    <3>1. free .. (u - 1) = {}
      BY <2>3
    <3>2. Total(f, free .. (u - 1)) = 0
      BY <3>1, TotalOfNone, Zenon
    <3>3. \A t \in T : c(u)[t] = 0
      BY <1>3, <1>4, <2>3, NothingBeforeFree
    <3>4. Total(c(u), {}) = Total(c(u), T)
      BY <1>5, <3>3, TotalOfOthers
    <3> QED
      BY <2>2, <3>2, <3>4, TotalOfNone
  <2>4. CASE u # free
    <3>1. PICK v \in Nat : u = v + 1 /\ v = u - 1 /\ free <= v
      BY <2>2, <2>4
    <3>2. v \notin Bad
      BY <2>1, <3>1
    <3>3. Total(c(v), T) = Total(f, free .. (v - 1))
      BY <3>1, <3>2
    <3> HIDE DEF Bad
    <3>4. Total(f, free .. v) = Total(f, free .. (v - 1)) + f[v]
      <4>1. \A x \in Nat : f[x] \in Int
        BY <1>2
      <4> QED
        BY <3>1, <4>1, LastOne
    <3>5. Total(f, free .. (u - 1)) = Total(f, free .. v)
      BY <3>1, Zenon
    <3>6. f[v] = Total(p, T \cap {t \in T : Holds(t, v)})
      BY <1>2
    <3>7. Total(c(u), T) = Total(c(v), T) + Total(p, T \cap {t \in T : Holds(t, v)})
      BY <1>3, <1>4, <3>1, MoreCharged
    <3> QED
      BY <2>2, <3>3, <3>4, <3>5, <3>6, <3>7
  <2> QED
    BY <2>3, <2>4
<1>7. Total(c(usage), T) = Total(f, free .. (usage - 1))
  BY <1>6
<1> QED
  BY <1>1, <1>7 DEF c

\* CalculateDimensionWithTiers charges a valid list of tiers as one would unit
\* by unit: the tiers it does not visit have nothing to charge.
THEOREM PricedByUnit ==
    ASSUME NoMax \notin Int, NEW T, TierList(T), ValidTiers(T),
           NEW free \in Nat, NEW usage \in Nat, NEW flat \in Nat
    PROVE  Cost(T, free, usage, flat) = CostByUnit(T, free, usage, flat)
<1>1. CASE usage <= free
  <2>1. PICK f : f = [x \in Nat |-> UnitPrice(T, x, flat)]
    OBVIOUS
  <2>2. CostByUnit(T, free, usage, flat) = Total(f, free .. (usage - 1))
    BY <2>1, ByUnitIsTotal
  <2>3. free .. (usage - 1) = {}
    BY <1>1
  <2>4. CostByUnit(T, free, usage, flat) = 0
    BY <2>2, <2>3, TotalOfNone, Zenon
  <2> QED
    BY <1>1, <2>4 DEF Cost
<1>2. CASE free < usage /\ T = {}
  BY <1>2, FlatByUnit DEF Cost
<1>3. CASE ~(usage <= free) /\ T # {}
  <2> DEFINE c == [t \in T |-> Charge(t, free, usage)]
             V == Visited(T, free, usage)
  <2>1. V \subseteq T /\ IsFiniteSet(V) /\ IsFiniteSet(T)
    BY FS_Subset DEF Visited, TierList
  <2>2. \A t \in T : c[t] = Charge(t, free, usage)
    OBVIOUS
  <2>3. \A t \in T : c[t] \in Int
    BY <1>3, OneMoreUnit DEF TierList
  <2>4. \A t \in T \ V : c[t] = 0
    BY NothingLeft
  <2>5. Total(c, T) = CostByUnit(T, free, usage, flat)
    BY <1>3, ChargedByUnit
  <2>6. Cost(T, free, usage, flat) = MapThenSumSet(LAMBDA t : Charge(t, free, usage), V)
    BY <1>3, Zenon DEF Cost
  <2> HIDE DEF c, V
  <2>7. MapThenSumSet(LAMBDA t : Charge(t, free, usage), V) = Total(c, V)
    BY <2>1, <2>2, SumOfCharges, ZenonT(30)
  <2>8. Total(c, V) = Total(c, T)
    BY <2>1, <2>3, <2>4, TotalOfOthers
  <2> QED
    BY <2>5, <2>6, <2>7, <2>8
<1> QED
  BY <1>1, <1>2, <1>3

-----------------------------------------------------------------------------
(* Every request whose rows are stored, or may be put back, was validated. *)

Valid(n) == ValidTiers(asked[n])

\* A row that is there, or that a call has read.
Seen(t) ==
    \/ \E k \in Ids : t \in tiers[k]
    \/ \E r \in Calls, k \in Ids : call[r] # Idle /\ t \in call[r].read[k].tiers

\* A call that is to replace tiers was let through by the validation.
ValidCall(c, a) ==
    c # Idle /\ c.at = "replace" /\ c.req # 0 => ValidTiers(a[c.req])

Offered == \A n \in 1 .. Len(asked) : asked[n] \in TierLists

Validated ==
    /\ Offered
    /\ \A t \in TierRow : Seen(t) => Valid(t.req)
    /\ \A r \in Calls : ValidCall(call[r], asked)

\* A row that is seen is one of a request that was made.
LEMMA SeenIsAsked ==
    ASSUME IInv, NEW t, Seen(t)
    PROVE  t \in TierRow /\ t.req \in 1 .. Len(asked)
BY AtWork DEF IInv, TypeOK, Fitting, CallFits, Fits, Seen, Snap

\* What was validated stays so when lists are offered in addition.
Asks == \/ asked' = asked
        \/ \E list \in TierLists : Len(asked) < MaxRequests /\ asked' = Append(asked, list)

LEMMA AsksMore ==
    ASSUME IInv, Validated, Asks
    PROVE  /\ Offered'
           /\ \A n \in 1 .. Len(asked) : asked'[n] = asked[n]
           /\ \A r \in Calls : ValidCall(call[r], asked')
<1>t. TypeOK /\ Fitting
  BY DEF IInv
<1>1. CASE asked' = asked
  BY <1>1 DEF Validated, Offered
<1>2. ASSUME NEW list \in TierLists, Len(asked) < MaxRequests, asked' = Append(asked, list)
      PROVE  Offered' /\ \A n \in 1 .. Len(asked) : asked'[n] = asked[n]
  <2>1. /\ \A n \in 1 .. Len(asked) : asked'[n] = asked[n]
        /\ Len(asked') = Len(asked) + 1 /\ asked'[Len(asked) + 1] = list
        /\ Len(asked) \in Nat
    BY <1>t, <1>2, ListType DEF TypeOK
  <2>2. Offered'
    BY <1>2, <2>1 DEF Offered, Validated
  <2> QED
    BY <2>1, <2>2
<1>3. Offered' /\ \A n \in 1 .. Len(asked) : asked'[n] = asked[n]
  BY <1>1, <1>2 DEF Asks
<1>4. \A r \in Calls : call[r] # Idle => call[r].req \in 0 .. Len(asked)
  BY <1>t DEF Fitting, CallFits
<1>5. Len(asked) \in Nat
  BY <1>t DEF TypeOK
<1>6. \A r \in Calls : ValidCall(call[r], asked')
  BY <1>3, <1>4, <1>5 DEF Validated, ValidCall
<1> QED
  BY <1>3, <1>6

\* It is enough that the rows seen after a step were seen before or belong to a
\* request that was validated, and that the calls are as before or Idle or valid.
LEMMA StaysValidated ==
    ASSUME IInv, IInv', Validated, Asks,
           \A t \in TierRow : Seen(t)' => Seen(t) \/ (t.req \in 1 .. Len(asked) /\ Valid(t.req)),
           \A r \in Calls : \/ call'[r] = call[r]
                            \/ ValidCall(call'[r], asked')
    PROVE  Validated'
<1>1. Offered' /\ \A r \in Calls : ValidCall(call'[r], asked')
  BY AsksMore
<1>2. ASSUME NEW t \in TierRow, Seen(t)'
      PROVE  ValidTiers(asked'[t.req])
  <2>1. t.req \in 1 .. Len(asked) /\ Valid(t.req)
    BY <1>2, SeenIsAsked DEF Validated
  <2> QED
    BY <2>1, AsksMore DEF Valid
<1> QED
  BY <1>1, <1>2 DEF Validated, Valid

\* After a step that changes one call only, and adds to tiers what it had read.
LEMMA SeenAfter ==
    ASSUME TypeOK, NEW r \in Calls, NEW c, call' = [call EXCEPT ![r] = c],
           \A k \in Ids : c # Idle => \A t \in c.read[k].tiers : Seen(t),
           \A k \in Ids : \A t \in tiers'[k] : Seen(t)
    PROVE  \A t \in TierRow : Seen(t)' => Seen(t)
<1> SUFFICES ASSUME NEW t \in TierRow, Seen(t)' PROVE Seen(t)
  OBVIOUS
<1>1. CASE \E k \in Ids : t \in tiers'[k]
  BY <1>1
<1>2. ASSUME NEW o \in Calls, NEW k \in Ids, call'[o] # Idle, t \in call'[o].read[k].tiers
      PROVE  Seen(t)
  <2>1. CASE o = r
    <3>1. call'[o] = c
      BY <2>1 DEF TypeOK
    <3> QED
      BY <1>2, <3>1
  <2>2. CASE o # r
    <3>1. call'[o] = call[o]
      BY <2>2 DEF TypeOK
    <3> QED
      BY <1>2, <3>1 DEF Seen
  <2> QED
    BY <2>1, <2>2
<1> QED
  BY <1>1, <1>2 DEF Seen

\* Nothing new is seen by a step that leaves the calls and the tiers alone, or
\* ends a call and stores no more than it had read.
LEMMA SeenAfterSave ==
    ASSUME TypeOK, NEW r \in Calls, call[r] # Idle, NEW rows, Save(r, rows)
    PROVE  \A t \in TierRow : Seen(t)' => Seen(t)
<1>1. \A k \in Ids : \A t \in tiers'[k] : Seen(t)
  BY DEF Save, Seen
<1> QED
  BY <1>1, SeenAfter DEF Save, Done

\* The rows a call sends have its number.
LEMMA SentNumbered ==
    ASSUME NEW r \in Calls, NEW t \in Sent(r)
    PROVE  call[r].req # 0 /\ t.req = call[r].req
<1>1. call[r].req # 0
  BY DEF Sent
<1>2. t \in RowsOf(call[r].req, asked[call[r].req])
  BY <1>1 DEF Sent
<1> QED
  BY <1>1, <1>2, RowsNumbered

LEMMA ValidatedStep == IInv /\ Validated /\ [Next]_vars /\ IInv' => Validated'
<1> SUFFICES ASSUME IInv, Validated, [Next]_vars, IInv' PROVE Validated'
  OBVIOUS
<1>t. TypeOK /\ Fitting
  BY DEF IInv
<1>s. \A k \in Ids : \A t \in tiers[k] : Seen(t)
  BY DEF Seen
<1>i. \A a : ValidCall(Idle, a)
  BY DEF ValidCall
<1>1. ASSUME NEW r \in Calls, Create(r) PROVE Validated'
  <2>1. tiers' = tiers /\ Asks
    BY <1>1 DEF Create, Asks
  <2>2. CASE call' = call
    BY <2>1, <2>2, StaysValidated DEF Seen
  <2>3. ASSUME NEW k \in Ids, NEW n, Knows(r, k, n, "tiers") PROVE Validated'
    <3>1. PICK c : /\ c = [at |-> "tiers", id |-> k, req |-> n,
                           read |-> [i \in Ids |-> NotRead]]
                   /\ call' = [call EXCEPT ![r] = c]
      BY <2>3 DEF Knows
    <3>2. ValidCall(c, asked') /\ \A i \in Ids : c.read[i].tiers = {}
      BY <3>1 DEF ValidCall, NotRead
    <3>3. \A t \in TierRow : Seen(t)' => Seen(t)
      BY <1>t, <1>s, <2>1, <3>1, <3>2, SeenAfter
    <3>4. \A o \in Calls : call'[o] = call[o] \/ ValidCall(call'[o], asked')
      BY <1>t, <3>1, <3>2 DEF TypeOK
    <3> QED
      BY <2>1, <3>3, <3>4, StaysValidated
  <2> QED
    BY <1>1, <2>2, <2>3 DEF Create
<1>2. ASSUME NEW r \in Calls, BeginUpdate(r) \/ BeginActivate(r) \/ BeginCancel(r)
      PROVE  Validated'
  <2>1. tiers' = tiers /\ Asks
    BY <1>2 DEF BeginUpdate, BeginActivate, BeginCancel, Asks
  <2>2. PICK k \in Ids :
          Reads(r, k, "update") \/ Reads(r, k, "existing") \/ Knows(r, k, 0, "cancel")
    BY <1>2 DEF BeginUpdate, BeginActivate, BeginCancel
  <2>3. PICK c : /\ call' = [call EXCEPT ![r] = c]
                 /\ c.at # "replace"
                 /\ \A i \in Ids : c.read[i].tiers \subseteq tiers[k]
    <3>1. ASSUME NEW step \in {"update", "existing"}, Reads(r, k, step)
          PROVE  \E c : /\ call' = [call EXCEPT ![r] = c]
                        /\ c.at # "replace"
                        /\ \A i \in Ids : c.read[i].tiers \subseteq tiers[k]
      <4>1. PICK c : /\ c = [at |-> step, id |-> k, req |-> 0,
                             read |-> [i \in Ids |-> IF i = k THEN ReadOf(k) ELSE NotRead]]
                     /\ call' = [call EXCEPT ![r] = c]
        BY <3>1 DEF Reads
      <4>2. c.at # "replace" /\ \A i \in Ids : c.read[i].tiers \subseteq tiers[k]
        BY <4>1 DEF ReadOf, NotRead
      <4> QED
        BY <4>1, <4>2
    <3>2. ASSUME Knows(r, k, 0, "cancel")
          PROVE  \E c : /\ call' = [call EXCEPT ![r] = c]
                        /\ c.at # "replace"
                        /\ \A i \in Ids : c.read[i].tiers \subseteq tiers[k]
      <4>1. PICK c : /\ c = [at |-> "cancel", id |-> k, req |-> 0,
                             read |-> [i \in Ids |-> NotRead]]
                     /\ call' = [call EXCEPT ![r] = c]
        BY <3>2 DEF Knows
      <4>2. c.at # "replace" /\ \A i \in Ids : c.read[i].tiers \subseteq tiers[k]
        BY <4>1 DEF NotRead
      <4> QED
        BY <4>1, <4>2
    <3> QED
      BY <2>2, <3>1, <3>2
  <2>4. ValidCall(c, asked')
    BY <2>3 DEF ValidCall
  <2>5. \A t \in TierRow : Seen(t)' => Seen(t)
    BY <1>t, <1>s, <2>1, <2>3, SeenAfter
  <2>6. \A o \in Calls : call'[o] = call[o] \/ ValidCall(call'[o], asked')
    BY <1>t, <2>3, <2>4 DEF TypeOK
  <2> QED
    BY <2>1, <2>5, <2>6, StaysValidated
<1>3. ASSUME NEW r \in Calls, BeginReplace(r) PROVE Validated'
  <2>0. PICK k \in Ids, list \in TierLists \cup {{}} : \E c :
          /\ ValidTiers(list)
          /\ list # {} => Len(asked) < MaxRequests
          /\ asked' = IF list = {} THEN asked ELSE Append(asked, list)
          /\ c = [at |-> "replace", id |-> k,
                  req |-> IF list = {} THEN 0 ELSE Len(asked) + 1,
                  read |-> [i \in Ids |-> [row |-> Absent,
                                           tiers |-> IF i = k THEN tiers[k] ELSE {}]]]
          /\ call' = [call EXCEPT ![r] = c]
    BY <1>3 DEF BeginReplace
  <2>1. PICK c :
          /\ ValidTiers(list)
          /\ list # {} => Len(asked) < MaxRequests
          /\ asked' = IF list = {} THEN asked ELSE Append(asked, list)
          /\ c = [at |-> "replace", id |-> k,
                  req |-> IF list = {} THEN 0 ELSE Len(asked) + 1,
                  read |-> [i \in Ids |-> [row |-> Absent,
                                           tiers |-> IF i = k THEN tiers[k] ELSE {}]]]
          /\ call' = [call EXCEPT ![r] = c]
    BY <2>0
  <2>2. tiers' = tiers /\ Asks
    BY <1>3, <2>1 DEF BeginReplace, Asks
  <2>3. ValidCall(c, asked')
    <3>1. CASE list = {}
      BY <2>1, <3>1 DEF ValidCall
    <3>2. CASE list # {}
      <4>1. asked'[Len(asked) + 1] = list /\ c.req = Len(asked) + 1
        BY <1>t, <2>1, <3>2, ListType DEF TypeOK
      <4> QED
        BY <2>1, <4>1 DEF ValidCall
    <3> QED
      BY <3>1, <3>2
  <2>4. \A i \in Ids : c.read[i].tiers \subseteq tiers[k]
    BY <2>1
  <2>5. \A t \in TierRow : Seen(t)' => Seen(t)
    BY <1>t, <1>s, <2>1, <2>2, <2>4, SeenAfter
  <2>6. \A o \in Calls : call'[o] = call[o] \/ ValidCall(call'[o], asked')
    BY <1>t, <2>1, <2>3 DEF TypeOK
  <2> QED
    BY <2>2, <2>5, <2>6, StaysValidated
<1>4. ASSUME NEW r \in Calls, AddVolumeTiers(r) \/ UpdateVolumeTiers(r) PROVE Validated'
  <2>1. asked' = asked /\ Asks /\ call[r] # Idle
    BY <1>4 DEF AddVolumeTiers, UpdateVolumeTiers, Asks
  <2>2. \A k \in Ids : \A t \in tiers'[k] : t \in tiers[k] \/ (t \in Sent(r) /\ Valid(call[r].req))
    <3>1. CASE AddVolumeTiers(r)
      BY <1>t, <3>1 DEF AddVolumeTiers, Valid, TypeOK
    <3>2. CASE UpdateVolumeTiers(r)
      <4>1. \A t \in Sent(r) : Valid(call[r].req)
        BY <3>2, SentNumbered DEF UpdateVolumeTiers, Validated, ValidCall, Valid
      <4>2. \/ tiers' = tiers
            \/ tiers' = [tiers EXCEPT ![call[r].id] =
                  (tiers[call[r].id] \ call[r].read[call[r].id].tiers) \cup Sent(r)]
        BY <3>2 DEF UpdateVolumeTiers
      <4> QED
        BY <1>t, <4>1, <4>2 DEF TypeOK
    <3> QED
      BY <1>4, <3>1, <3>2
  <2>3. \A o \in Calls :
           \/ call'[o] = Idle
           \/ call'[o] = call[o]
           \/ /\ call[o] # Idle
              /\ call'[o] = Without(call[o], call[r].id, call[r].read[call[r].id].tiers)
    BY <1>4, <1>t DEF AddVolumeTiers, UpdateVolumeTiers, Done, TypeOK
  <2>4. \A o \in Calls : call[o] # Idle =>
          Dropped(Without(call[o], call[r].id, call[r].read[call[r].id].tiers),
                  call[o], call[r].id, call[r].read[call[r].id].tiers)
    BY <1>t, <2>1, AtWork, TiersDropped
  <2>5. \A o \in Calls : call'[o] # Idle =>
          /\ call[o] # Idle /\ call'[o].at = call[o].at /\ call'[o].req = call[o].req
          /\ \A k \in Ids : call'[o].read[k].tiers \subseteq call[o].read[k].tiers
    <3> SUFFICES ASSUME NEW o \in Calls, call'[o] # Idle
                 PROVE  /\ call[o] # Idle /\ call'[o].at = call[o].at
                        /\ call'[o].req = call[o].req
                        /\ \A k \in Ids : call'[o].read[k].tiers \subseteq call[o].read[k].tiers
      OBVIOUS
    <3>1. CASE call'[o] = call[o]
      BY <3>1, Zenon
    <3>2. CASE /\ call[o] # Idle
               /\ call'[o] = Without(call[o], call[r].id, call[r].read[call[r].id].tiers)
      <4>1. PICK c, d, l, S : c = call[o] /\ d = call'[o] /\ Dropped(d, c, l, S)
        BY <2>4, <3>2, Zenon
      <4>2. /\ d.at = c.at /\ d.req = c.req
            /\ \A k \in Ids : d.read[k].tiers \subseteq c.read[k].tiers
        BY <4>1 DEF Dropped
      <4> QED
        BY <3>2, <4>1, <4>2, Zenon
    <3> QED
      BY <2>3, <3>1, <3>2
  <2>6. \A o \in Calls : ValidCall(call'[o], asked')
    BY <2>1, <2>5 DEF Validated, ValidCall
  <2>7. ASSUME NEW t \in TierRow, Seen(t)'
        PROVE  Seen(t) \/ (t.req \in 1 .. Len(asked) /\ Valid(t.req))
    <3>1. CASE \E k \in Ids : t \in tiers'[k]
      <4>1. CASE \E k \in Ids : t \in tiers[k]
        BY <4>1 DEF Seen
      <4>2. CASE t \in Sent(r) /\ Valid(call[r].req)
        <5>1. t.req = call[r].req /\ call[r].req # 0
          BY <4>2, SentNumbered
        <5>2. call[r].req \in 0 .. Len(asked) /\ Len(asked) \in Nat
          BY <1>t, <2>1 DEF Fitting, CallFits, TypeOK
        <5> QED
          BY <4>2, <5>1, <5>2
      <4> QED
        BY <2>2, <3>1, <4>1, <4>2
    <3>2. CASE \E o \in Calls, k \in Ids : call'[o] # Idle /\ t \in call'[o].read[k].tiers
      BY <2>5, <3>2 DEF Seen
    <3> QED
      BY <2>7, <3>1, <3>2 DEF Seen
  <2> QED
    BY <2>1, <2>6, <2>7, StaysValidated
<1>5. ASSUME NEW r \in Calls, UpdateContract(r) \/ ActivateContract(r) PROVE Validated'
  <2>1. PICK rows : Save(r, rows) /\ call[r] # Idle
    BY <1>5 DEF UpdateContract, ActivateContract
  <2>2. Asks /\ \A t \in TierRow : Seen(t)' => Seen(t)
    BY <1>t, <2>1, SeenAfterSave DEF Save, Asks
  <2>3. \A o \in Calls : call'[o] = call[o] \/ ValidCall(call'[o], asked')
    BY <1>t, <1>i, <2>1 DEF Save, Done, TypeOK
  <2> QED
    BY <2>2, <2>3, StaysValidated
<1>6. ASSUME NEW r \in Calls, ReadExisting(r) PROVE Validated'
  <2>1. /\ call' = [call EXCEPT ![r] = [call[r] EXCEPT !.at = "activate", !.read = WithActive(r)]]
        /\ call[r] # Idle
        /\ tiers' = tiers /\ Asks
    BY <1>6 DEF ReadExisting, Asks
  <2>2. PICK c : c = [call[r] EXCEPT !.at = "activate", !.read = WithActive(r)]
    OBVIOUS
  <2>3. c.at = "activate" /\ c.read = WithActive(r)
    BY <1>t, <2>1, <2>2, AtWork DEF CallRec
  <2>4. \A i \in Ids : \A t \in c.read[i].tiers : Seen(t)
    BY <2>1, <2>3 DEF WithActive, ReadOf, Seen
  <2>5. \A t \in TierRow : Seen(t)' => Seen(t)
    BY <1>t, <1>s, <2>1, <2>2, <2>4, SeenAfter
  <2>6. ValidCall(c, asked')
    BY <2>3 DEF ValidCall
  <2>7. \A o \in Calls : call'[o] = call[o] \/ ValidCall(call'[o], asked')
    BY <1>t, <2>1, <2>2, <2>6 DEF TypeOK
  <2> QED
    BY <2>1, <2>5, <2>7, StaysValidated
<1>7. ASSUME NEW r \in Calls, CancelContract(r) \/ Abort(r) PROVE Validated'
  <2>1. call' = [call EXCEPT ![r] = Idle] /\ tiers' = tiers /\ Asks
    BY <1>7 DEF CancelContract, Abort, Done, Asks
  <2>2. \A t \in TierRow : Seen(t)' => Seen(t)
    BY <1>t, <1>s, <2>1, SeenAfter
  <2>3. \A o \in Calls : call'[o] = call[o] \/ ValidCall(call'[o], asked')
    BY <1>t, <1>i, <2>1 DEF TypeOK
  <2> QED
    BY <2>1, <2>2, <2>3, StaysValidated
<1>8. CASE SweepStep \/ SweepError \/ Tick \/ UNCHANGED vars
  <2>1. UNCHANGED <<tiers, call, asked>>
    BY <1>8
    DEF SweepStep, ListExpiring, CheckActive, ExpireContract, SweepError, Tick, vars
  <2> QED
    BY <2>1 DEF Validated, Offered, Seen, Valid
<1> QED
  BY <1>1, <1>2, <1>3, <1>4, <1>5, <1>6, <1>7, <1>8 DEF Next, Begin, CallStep

THEOREM ValidatedRows == Spec => [](IInv /\ Validated)
<1>1. Init => Validated
  BY DEF Init, Validated, Offered, Seen, ValidCall
<1> QED
  BY <1>1, InductiveInvariant, ValidatedStep, PTL DEF Spec

\* Tiers of one request that were validated are all of that request's.
LEMMA TiersOfRequest ==
    ASSUME IInv, Validated, NEW k \in Ids, NEW n, \A t \in tiers[k] : t.req = n
    PROVE  TierList(TiersOf(k)) /\ ValidTiers(TiersOf(k))
<1>1. CASE tiers[k] = {}
  <2>1. TiersOf(k) = {}
    BY <1>1 DEF TiersOf
  <2> QED
    BY <2>1, FS_EmptySet DEF TierList, ValidTiers
<1>2. ASSUME NEW t \in tiers[k]
      PROVE  TierList(TiersOf(k)) /\ ValidTiers(TiersOf(k))
  <2>1. Fits(tiers[k], asked) /\ Seen(t) /\ t.req = n
    BY DEF IInv, Fitting, Seen
  <2>2. n \in 1 .. Len(asked) /\ Valid(n)
    BY <2>1, SeenIsAsked DEF Validated
  <2>3. RowsOf(n, asked[n]) = tiers[k]
    BY <2>1 DEF Fits
  <2>4. TiersOf(k) = asked[n]
    <3>1. PICK L : L = asked[n] /\ tiers[k] = {[req |-> n, tier |-> x] : x \in L}
      BY <2>3 DEF RowsOf
    <3>2. \A x \in L : [req |-> n, tier |-> x] \in tiers[k]
      BY <3>1
    <3>3. ASSUME NEW x \in L PROVE x \in TiersOf(k)
      <4>1. PICK u \in tiers[k] : u = [req |-> n, tier |-> x]
        BY <3>2
      <4>2. u.tier = x
        BY <4>1
      <4> QED
        BY <4>2, Zenon DEF TiersOf
    <3>4. \A x \in TiersOf(k) : x \in L
      BY <3>1 DEF TiersOf
    <3> QED
      BY <3>1, <3>3, <3>4
  <2>5. asked[n] \in TierLists
    BY <2>2 DEF Validated, Offered
  <2>6. TierList(asked[n])
    BY <2>5, ContractsAssumption DEF TierList
  <2> QED
    BY <2>2, <2>4, <2>6 DEF Valid
<1> QED
  BY <1>1, <1>2

\* A contract whose tiers come from one request is billed unit by unit at the
\* price of the unit's place: for any lists the clients send, any free units and
\* any usage, and whatever calls, stale saves and errors left of the requests.
THEOREM BilledAsListed == Spec => []BilledByPosition
<1>1. ASSUME IInv, Validated PROVE BilledByPosition
  <2> SUFFICES ASSUME NEW k \in Ids, NEW n, \A t \in tiers[k] : t.req = n,
                      NEW free \in 0 .. MaxFree, NEW usage \in 0 .. MaxUsage
               PROVE  Cost(TiersOf(k), free, usage, FlatPrice)
                        = CostByUnit(TiersOf(k), free, usage, FlatPrice)
    BY DEF BilledByPosition
  <2>1. TierList(TiersOf(k)) /\ ValidTiers(TiersOf(k))
    BY <1>1, TiersOfRequest
  <2>2. free \in Nat /\ usage \in Nat /\ FlatPrice \in Nat /\ NoMax \notin Int
    BY ContractsAssumption
  <2> QED
    BY <2>1, <2>2, PricedByUnit
<1>2. IInv /\ Validated => BilledByPosition
  BY <1>1
<1> QED
  BY <1>2, ValidatedRows, PTL
=============================================================================

--------------------------- MODULE UsageBillingProofs ---------------------------
(***************************************************************************)
(* Proofs that no threshold of a budget is emailed twice and that nothing  *)
(* is billed or counted twice, for any number of aggregation workers,      *)
(* thresholds, periods and failures.                                       *)
(*                                                                         *)
(* The first says nothing of how much is used: whoever is to send an email *)
(* has inserted the alert himself, so nobody has sent it or is about to.   *)
(* The second is about sums over hours, and rests on lemmas about those.   *)
(***************************************************************************)
EXTENDS UsageBilling, SumTheorems

-----------------------------------------------------------------------------
(* Emails.                                                                  *)

\* A cycle has one threshold at most to alert about.
Single(A) == A \subseteq Thresholds /\ \A s, t \in A : s = t

Shapes ==
    /\ alerts \subseteq Thresholds
    /\ emails \in [Thresholds -> Nat]
    /\ worker = [w \in Workers |-> worker[w]]
    /\ \A w \in Workers : Single(worker[w].alert)

\* An email is queued after its alert is there, by the one who put it there.
Notifying ==
    /\ \A w \in Workers : At(w, "notify") =>
         worker[w].alert \subseteq alerts /\ \A t \in worker[w].alert : emails[t] = 0
    /\ \A v, w \in Workers : At(v, "notify") /\ At(w, "notify") /\ v # w =>
         worker[v].alert \cap worker[w].alert = {}
    /\ \A t \in Thresholds \ alerts : emails[t] = 0

AInv == Shapes /\ Notifying /\ EmailedOnce

\* evaluateBudget alerts about the highest threshold reached.
LEMMA TriggeredHighest == Single(Triggered)
<1> SUFFICES ASSUME NEW s \in Triggered, NEW t \in Triggered
             PROVE  s = t
  BY DEF Triggered, Single
<1>1. s \in Nat /\ t \in Nat
  BY BillingAssumption DEF Triggered
<1>2. s <= t /\ t <= s
  BY DEF Triggered
<1> QED
  BY <1>1, <1>2

\* What a worker carries on is in its record, and the others keep theirs.
LEMMA CarriesEffect ==
    ASSUME AInv, NEW w \in Workers, NEW step, NEW total, NEW spent, NEW alert,
           Carries(w, step, total, spent, alert)
    PROVE  /\ worker'[w].at = step /\ worker'[w].alert = alert
           /\ \A v \in Workers : v # w => worker'[v] = worker[v]
           /\ worker' = [v \in Workers |-> worker'[v]]
<1>1. PICK x : x = [at |-> step, total |-> total, spent |-> spent, alert |-> alert]
  OBVIOUS
<1>2. worker' = [worker EXCEPT ![w] = x] /\ x.at = step /\ x.alert = alert
  BY <1>1 DEF Carries
<1> QED
  BY <1>2 DEF AInv, Shapes

\* A worker that does not go to notify leaves the alerts as they are.
LEMMA Elsewhere ==
    ASSUME AInv, NEW w \in Workers, NEW step, NEW total, NEW spent, NEW alert,
           Carries(w, step, total, spent, alert),
           step # "notify", Single(alert), UNCHANGED <<alerts, emails>>
    PROVE  AInv'
<1>1. /\ worker'[w].at = step /\ worker'[w].alert = alert
      /\ \A v \in Workers : v # w => worker'[v] = worker[v]
      /\ worker' = [v \in Workers |-> worker'[v]]
  BY CarriesEffect
<1>2. Shapes'
  BY <1>1 DEF AInv, Shapes, Single
<1>3. \A v \in Workers : At(v, "notify")' => v # w /\ At(v, "notify")
  BY <1>1 DEF At
<1>4. Notifying'
  BY <1>1, <1>3 DEF AInv, Notifying
<1> QED
  BY <1>2, <1>4 DEF AInv, EmailedOnce

LEMMA NoneSingle == Single({})
BY DEF Single

LEMMA StopsElsewhere ==
    ASSUME AInv, NEW w \in Workers, Stops(w), UNCHANGED <<alerts, emails>>
    PROVE  AInv'
BY NoneSingle, Elsewhere DEF Stops

\* Who inserts the alert finds neither an email nor another worker about it.
LEMMA CreateStep ==
    ASSUME AInv, NEW w \in Workers, CreateAlert(w)
    PROVE  AInv'
<1>1. CASE worker[w].alert \subseteq alerts
  BY <1>1, StopsElsewhere DEF CreateAlert
<1>2. CASE ~(worker[w].alert \subseteq alerts)
  <2>1. PICK t \in Thresholds : worker[w].alert = {t} /\ t \notin alerts
    BY <1>2 DEF AInv, Shapes, Single
  <2>2. /\ Goes(w, "notify") /\ alerts' = alerts \cup {t} /\ emails' = emails
    BY <1>2, <2>1 DEF CreateAlert
  <2>3. /\ worker'[w].at = "notify" /\ worker'[w].alert = {t}
        /\ \A v \in Workers : v # w => worker'[v] = worker[v]
        /\ worker' = [v \in Workers |-> worker'[v]]
    BY <2>1, <2>2, CarriesEffect DEF Goes
  <2>5. Shapes'
    BY <2>2, <2>3 DEF AInv, Shapes, Single
  <2>6. /\ emails[t] = 0
        /\ \A v \in Workers : At(v, "notify") => t \notin worker[v].alert
    BY <2>1 DEF AInv, Notifying
  <2>7. Notifying'
    BY <2>2, <2>3, <2>6 DEF AInv, Notifying, At
  <2> QED
    BY <2>2, <2>5, <2>7 DEF AInv, EmailedOnce
<1> QED
  BY <1>1, <1>2

\* The email is the first of its threshold, and the worker is done with it.
LEMMA NotifyStep ==
    ASSUME AInv, NEW w \in Workers, SendAlertNotification(w)
    PROVE  AInv'
<1>1. /\ worker'[w].at = "idle" /\ worker'[w].alert = {}
      /\ \A v \in Workers : v # w => worker'[v] = worker[v]
      /\ worker' = [v \in Workers |-> worker'[v]]
  BY CarriesEffect DEF SendAlertNotification, Stops
<1>2. /\ alerts' = alerts
      /\ emails' = [t \in Thresholds |->
                      IF t \in worker[w].alert THEN emails[t] + 1 ELSE emails[t]]
      /\ worker[w].alert \subseteq alerts
      /\ \A t \in worker[w].alert : emails[t] = 0
      /\ \A t \in Thresholds : emails[t] \in Nat
  BY DEF SendAlertNotification, AInv, Shapes, Notifying
<1>3. Shapes'
  <2>1. emails' \in [Thresholds -> Nat]
    BY <1>2
  <2>2. \A v \in Workers : Single(worker'[v].alert)
    BY <1>1, NoneSingle DEF AInv, Shapes
  <2>3. alerts' \subseteq Thresholds
    BY <1>2 DEF AInv, Shapes
  <2> QED
    BY <1>1, <2>1, <2>2, <2>3, Zenon DEF Shapes, Single
<1>4. \A t \in Thresholds : t \notin worker[w].alert => emails'[t] = emails[t]
  BY <1>2
<1>5. ASSUME NEW v \in Workers, At(v, "notify")'
      PROVE  /\ v # w /\ At(v, "notify") /\ worker'[v] = worker[v]
             /\ worker[v].alert \cap worker[w].alert = {}
             /\ worker[v].alert \subseteq Thresholds
  <2>1. v # w
    BY <1>1, <1>5 DEF At
  <2>2. At(v, "notify") /\ worker'[v] = worker[v]
    BY <1>1, <1>5, <2>1 DEF At
  <2>3. worker[v].alert \cap worker[w].alert = {}
    BY <2>1, <2>2 DEF AInv, Notifying, SendAlertNotification
  <2> QED
    BY <2>1, <2>2, <2>3 DEF AInv, Shapes, Single
<1>6. Notifying'
  <2>1. \A v \in Workers : At(v, "notify")' =>
          worker'[v].alert \subseteq alerts' /\ \A t \in worker'[v].alert : emails'[t] = 0
    BY <1>2, <1>4, <1>5 DEF AInv, Notifying
  <2>2. \A u, v \in Workers : At(u, "notify")' /\ At(v, "notify")' /\ u # v =>
          worker'[u].alert \cap worker'[v].alert = {}
    BY <1>5 DEF AInv, Notifying
  <2>3. \A t \in Thresholds \ alerts' : emails'[t] = 0
    BY <1>2, <1>4 DEF AInv, Notifying
  <2> QED
    BY <2>1, <2>2, <2>3 DEF Notifying
<1>7. EmailedOnce'
  BY <1>2 DEF AInv, EmailedOnce
<1> QED
  BY <1>3, <1>6, <1>7 DEF AInv

LEMMA AlertStep == AInv /\ [Next]_vars => AInv'
<1> SUFFICES ASSUME AInv, [Next]_vars PROVE AInv'
  OBVIOUS
<1>1. ASSUME UNCHANGED <<worker, alerts, emails>> PROVE AInv'
  BY <1>1 DEF AInv, Shapes, Notifying, At, EmailedOnce
<1>2. CASE \/ Tick \/ Ingest \/ ProvisionOrganizationBilling \/ CreateBudget
           \/ BeginUpdate \/ UpdateBudget \/ DeleteBudget \/ UNCHANGED vars
  BY <1>1, <1>2, Zenon
  DEF Tick, Ingest, ProvisionOrganizationBilling, CreateBudget, BeginUpdate,
      UpdateBudget, DeleteBudget, vars
<1>3. ASSUME NEW w \in Workers, BeginCycle(w) PROVE AInv'
  <2>1. PICK step \in {"check", "reset", "query"} : Goes(w, step)
    BY <1>3 DEF BeginCycle
  <2>2. UNCHANGED <<alerts, emails>> /\ Single(worker[w].alert)
    BY <1>3 DEF BeginCycle, AInv, Shapes
  <2> QED
    BY <2>1, <2>2, Elsewhere DEF Goes
<1>4. ASSUME NEW w \in Workers, ResetPeriod(w) \/ RefuseAlert(w) \/ Abort(w) PROVE AInv'
  BY <1>4, StopsElsewhere DEF ResetPeriod, RefuseAlert, Abort
<1>5. ASSUME NEW w \in Workers, GetUsageSummary(w) PROVE AInv'
  BY <1>5, NoneSingle, Elsewhere DEF GetUsageSummary
<1>6. ASSUME NEW w \in Workers, QueryBudget(w) PROVE AInv'
  <2>1. PICK S : Carries(w, "commit", worker[w].total, S, {})
    BY <1>6, Zenon DEF QueryBudget
  <2> QED
    BY <1>6, <2>1, NoneSingle, Elsewhere DEF QueryBudget
<1>7. ASSUME NEW w \in Workers, Commit(w) PROVE AInv'
  BY <1>7, Elsewhere DEF Commit, Goes, AInv, Shapes
<1>8. ASSUME NEW w \in Workers, CheckBudgets(w) PROVE AInv'
  <2>1. PICK step \in {"idle", "create", "overflow"} :
          Carries(w, step, 0, {}, Triggered)
    BY <1>8 DEF CheckBudgets
  <2> QED
    BY <1>8, <2>1, TriggeredHighest, Elsewhere DEF CheckBudgets
<1> QED
  BY <1>2, <1>3, <1>4, <1>5, <1>6, <1>7, <1>8, CreateStep, NotifyStep DEF Next, Step

\* Every threshold is emailed once at most, however many workers see it reached
\* and however their cycles overtake each other, fail and start again.
THEOREM AlertsEmailedOnce == Spec => []EmailedOnce
<1>1. Init => AInv
  <2> SUFFICES ASSUME Init PROVE AInv
    OBVIOUS
  <2>1. /\ alerts = {} /\ emails = [t \in Thresholds |-> 0]
        /\ worker = [w \in Workers |-> Idle]
    BY DEF Init
  <2> QED
    BY <2>1, NoneSingle DEF AInv, Shapes, Notifying, At, EmailedOnce, Idle
<1> QED
  BY <1>1, AlertStep, PTL DEF Spec, AInv

-----------------------------------------------------------------------------
(* Nothing is billed or counted twice.  Every figure on its way from the    *)
(* usage tables to a row, wherever it is, is no more than what was used     *)
(* since the organization was provisioned: usage only grows, and the        *)
(* billing period of the model starts once.                                 *)

\* What was used since the organization was provisioned.
Most == IF bill.start = NoStart THEN 0 ELSE UsageSince(bill.start + 1)

\* Every figure: of the rows, of a row that was read, and of the cycles.
Within(m) ==
    /\ bill.billed <= m
    /\ budget.current <= m
    /\ edit # NoEdit => edit.current <= m
    /\ \A w \in Workers :
         worker[w].total <= m /\ \A n \in worker[w].spent : n <= m

\* Whoever asks for the usage knows since when.
Provisioned ==
    \A w \in Workers : worker[w].at \in {"query", "budgets"} => bill.start # NoStart

BInv == TypeOK /\ Provisioned /\ Within(Most)

LEMMA HoursFinite == IsFiniteSet(Hours) /\ \A S \in SUBSET Hours : IsFiniteSet(S)
<1>1. IsFiniteSet(Hours)
  BY BillingAssumption, FS_Interval DEF Hours
<1> QED
  BY <1>1, FS_Subset

\* What ClickHouse sums is a sum in the sense of the lemmas.
LEMMA UsageIsTotal == ASSUME NEW S PROVE UsageOf(S) = Total(used, S)
BY DEF UsageOf, Total

LEMMA SinceType ==
    ASSUME TypeOK, NEW first PROVE UsageSince(first) \in Nat
<1>1. \A h \in {h \in Hours : h >= first} : used[h] \in Nat
  BY DEF TypeOK
<1> QED
  BY <1>1, HoursFinite, TotalType, UsageIsTotal DEF UsageSince

LEMMA MostType == TypeOK => Most \in Nat
BY SinceType DEF Most

\* The later the period starts, the less was used in it.
LEMMA SinceLater ==
    ASSUME TypeOK, NEW first \in Nat, NEW last \in Nat, first <= last
    PROVE  UsageSince(last) <= UsageSince(first)
<1> DEFINE A == {h \in Hours : h >= last}
           B == {h \in Hours : h >= first}
<1>1. A \subseteq B /\ IsFiniteSet(B) /\ \A h \in B : used[h] \in Nat
  BY HoursFinite DEF TypeOK, Hours
<1> HIDE DEF A, B
<1>2. Total(used, A) <= Total(used, B)
  BY <1>1, TotalOfSubset
<1> QED
  BY <1>2, UsageIsTotal DEF UsageSince, A, B

\* A day starts no later than any hour of it.
LEMMA DayStarts ==
    ASSUME NEW h \in Nat PROVE Day(h) * HoursPerDay <= h
BY BillingAssumption DEF Day

\* By days or by hours, no more is summed than was used.
LEMMA SummaryBounded ==
    ASSUME TypeOK, NEW first \in Nat
    PROVE  Summary(first) \in Nat /\ Summary(first) <= UsageSince(first)
<1> DEFINE A == {h \in 0 .. now :
              (IF now - first >= Window THEN Day(h) * HoursPerDay ELSE h) >= first}
           B == {h \in Hours : h >= first}
<1>1. ASSUME NEW h \in A PROVE h \in B
  <2>1. h \in Nat /\ h \in Hours
    BY BillingAssumption DEF TypeOK, Hours
  <2>2. Day(h) * HoursPerDay <= h /\ Day(h) * HoursPerDay \in Int
    BY <2>1, DayStarts, BillingAssumption DEF Day
  <2>3. h >= first
    BY <1>1, <2>1, <2>2
  <2> QED
    BY <2>1, <2>3
<1>2. IsFiniteSet(B) /\ \A h \in B : used[h] \in Nat
  BY HoursFinite DEF TypeOK
<1>3. Summary(first) = Total(used, A) /\ UsageSince(first) = Total(used, B)
  BY UsageIsTotal DEF Summary, UsageSince
<1> HIDE DEF A, B
<1>4. A \in SUBSET B /\ IsFiniteSet(A) /\ \A h \in A : used[h] \in Nat
  BY <1>1, <1>2, FS_Subset
<1> QED
  BY <1>2, <1>3, <1>4, TotalType, TotalOfSubset

\* There is a budget period that now is in.
LEMMA BudgetPeriod == ASSUME TypeOK PROVE BudgetStart \in Nat
<1> DEFINE S == {s \in BudgetStarts : s <= now}
           H == 0 .. now
           T == {s .. now : s \in S}
<1>1. now \in Nat /\ 0 \in S /\ S \subseteq Nat
  <2>1. now \in Nat
    BY BillingAssumption DEF TypeOK, Hours
  <2>2. 0 \in BudgetStarts /\ BudgetStarts \subseteq Nat
    BY BillingAssumption
  <2>3. 0 <= now
    BY <2>1
  <2>4. 0 \in S
    BY <2>2, <2>3
  <2>5. S \subseteq Nat
    BY <2>2
  <2> QED
    BY <2>1, <2>4, <2>5
<1>2. IsFiniteSet(H)
  BY <1>1, FS_Interval
<1>3. T \subseteq SUBSET H /\ T # {}
  BY <1>1
<1> HIDE DEF H, T
<1>4. PICK m \in T : \A y \in T : y \subseteq m => y = m
  BY <1>2, <1>3, MinimalMember
<1>5. PICK s \in S : m = s .. now
  BY DEF T
<1>6. ASSUME NEW r \in S, s < r PROVE FALSE
  <2>1. r \in Nat /\ s \in Nat /\ s <= now /\ r <= now
    BY <1>1
  <2>2. r .. now \subseteq m /\ s \in m /\ s \notin r .. now
    BY <1>1, <1>5, <1>6, <2>1
  <2>3. r .. now \in T
    BY Zenon DEF T
  <2> QED
    BY <1>4, <2>2, <2>3
<1>7. \E x : x \in BudgetStarts /\ x <= now /\ \A r \in BudgetStarts : r <= now => r <= x
  BY <1>1, <1>6
<1>8. BudgetStart \in BudgetStarts
  BY <1>7 DEF BudgetStart
<1> QED
  BY <1>8, BillingAssumption

\* Usage only grows, and so does what was used in a period.
LEMMA MoreUsed ==
    ASSUME TypeOK, TypeOK', NEW first,
           \A h \in Hours : used[h] <= used'[h]
    PROVE  UsageSince(first) <= UsageSince(first)'
<1> DEFINE B == {h \in Hours : h >= first}
<1>1. PICK f, g : f = used /\ g = used'
  OBVIOUS
<1>2. /\ IsFiniteSet(B)
      /\ \A h \in B : f[h] \in Nat /\ g[h] \in Nat /\ f[h] <= g[h]
  BY <1>1, HoursFinite DEF TypeOK
<1>3. UsageSince(first)' = Total(used', B)
  BY Zenon DEF UsageSince, UsageOf, Total, MapThenSumSet, MapThenFoldSet
<1>4. UsageSince(first) = Total(used, B)
  BY DEF UsageSince, UsageOf, Total
<1> HIDE DEF B
<1> QED
  BY <1>1, <1>2, <1>3, <1>4, TotalMonotone

\* A larger bound bounds what a smaller one does.
LEMMA WithinMore ==
    ASSUME TypeOK, NEW m \in Nat, NEW n \in Nat, m <= n, Within(m)
    PROVE  Within(n)
<1>1. bill.billed \in Nat /\ budget.current \in Nat
  BY DEF TypeOK, Budget
<1>2. edit # NoEdit => edit.current \in Nat
  BY DEF TypeOK, Budget
<1>3. \A w \in Workers : worker[w].total \in Nat /\ worker[w].spent \subseteq Nat
  BY DEF TypeOK
<1> QED
  BY <1>1, <1>2, <1>3 DEF Within

\* The bound, before and after a step, as sums whose terms are spelled out.
LEMMA MostIs ==
    /\ Most = IF bill.start = NoStart THEN 0
              ELSE Total(used, {h \in 0 .. MaxTime : h >= bill.start + 1})
    /\ Most' = IF bill'.start = NoStart THEN 0
               ELSE Total(used', {h \in 0 .. MaxTime : h >= bill'.start + 1})
BY Zenon DEF Most, UsageSince, UsageOf, Hours, Total, MapThenSumSet, MapThenFoldSet

\* The bound moves with the usage and the start of the period only.
LEMMA SameMost ==
    ASSUME used' = used, bill'.start = bill.start PROVE Most' = Most
BY MostIs

\* A cycle goes on, with figures that are within the bound.
LEMMA CycleStep ==
    ASSUME BInv, NEW w \in Workers,
           NEW step \in Steps, NEW total \in Nat, NEW spent \in SUBSET Nat,
           NEW alert \in SUBSET Thresholds,
           Cardinality(alert) = IF step \in {"create", "overflow", "notify"} THEN 1 ELSE 0,
           Carries(w, step, total, spent, alert),
           total <= Most, \A n \in spent : n <= Most,
           step \in {"query", "budgets"} => bill.start # NoStart,
           UNCHANGED <<now, used, bill, edit, edits>>,
           budget' \in Budget, budget'.current <= Most,
           alerts' \subseteq Thresholds, emails' \in [Thresholds -> Nat]
    PROVE  BInv'
<1>1. PICK x : x = [at |-> step, total |-> total, spent |-> spent, alert |-> alert]
  OBVIOUS
<1>2. /\ x \in [at : Steps, total : Nat, spent : SUBSET Nat, alert : SUBSET Thresholds]
      /\ x.at = step /\ x.total = total /\ x.spent = spent /\ x.alert = alert
  BY <1>1
<1>3. worker' = [worker EXCEPT ![w] = x]
  BY <1>1 DEF Carries
<1>4. worker \in [Workers -> [at : Steps, total : Nat, spent : SUBSET Nat,
                              alert : SUBSET Thresholds]]
  BY DEF BInv, TypeOK
<1>5. /\ worker' \in [Workers -> [at : Steps, total : Nat, spent : SUBSET Nat,
                                  alert : SUBSET Thresholds]]
      /\ worker'[w] = x
      /\ \A v \in Workers : v # w => worker'[v] = worker[v]
  BY <1>2, <1>3, <1>4
<1>6. \A v \in Workers : Cardinality(worker'[v].alert) =
            IF worker'[v].at \in {"create", "overflow", "notify"} THEN 1 ELSE 0
  BY <1>2, <1>5 DEF BInv, TypeOK
<1>7. TypeOK'
  BY <1>5, <1>6 DEF BInv, TypeOK, Hours
<1>8. Provisioned'
  BY <1>2, <1>5 DEF BInv, Provisioned
<1>9. PICK m : m = Most
  OBVIOUS
<1>10. Most' = m
  BY <1>9, SameMost
<1>11. Within(m)'
  BY <1>2, <1>5, <1>9 DEF BInv, Within
<1> QED
  BY <1>7, <1>8, <1>10, <1>11 DEF BInv

\* The row of a cycle that needs no figures.
LEMMA GoesOn ==
    ASSUME BInv, NEW w \in Workers, NEW step \in Steps, NEW alert \in SUBSET Thresholds,
           Cardinality(alert) = IF step \in {"create", "overflow", "notify"} THEN 1 ELSE 0,
           Carries(w, step, 0, {}, alert),
           step \in {"query", "budgets"} => bill.start # NoStart,
           UNCHANGED <<now, used, bill, budget, edit, edits>>,
           alerts' \subseteq Thresholds, emails' \in [Thresholds -> Nat]
    PROVE  BInv'
<1>1. 0 <= Most
  BY MostType DEF BInv
<1>2. budget' \in Budget /\ budget'.current <= Most
  BY DEF BInv, TypeOK, Within
<1> QED
  BY <1>1, <1>2, CycleStep

LEMMA StopsOn ==
    ASSUME BInv, NEW w \in Workers, Stops(w),
           UNCHANGED <<now, used, bill, budget, edit, edits>>,
           alerts' \subseteq Thresholds, emails' \in [Thresholds -> Nat]
    PROVE  BInv'
<1>1. Cardinality({}) = 0
  BY FS_EmptySet
<1> QED
  BY <1>1, GoesOn DEF Stops, Steps

\* Provisioning starts the period; until then there are no figures.
LEMMA ProvisionStep ==
    ASSUME BInv, ProvisionOrganizationBilling
    PROVE  BInv'
<1>1. bill' = [start |-> now, billed |-> 0] /\ UNCHANGED <<now, used, budget, edit, edits, alerts, emails, worker>>
  BY DEF ProvisionOrganizationBilling
<1>2. TypeOK'
  BY <1>1 DEF BInv, TypeOK, Hours
<1>3. Provisioned'
  BY <1>1, BillingAssumption DEF BInv, Provisioned, TypeOK, Hours
<1>4. PICK n : n = Most'
  OBVIOUS
<1>5. n \in Nat
  <2>1. (Most \in Nat)'
    BY <1>2, MostType, PTL
  <2> QED
    BY <1>4, <2>1
<1>6. Within(0)
  BY DEF BInv, Most, ProvisionOrganizationBilling
<1>7. Within(n)
  BY <1>5, <1>6, WithinMore DEF BInv
<1>8. Within(n)'
  BY <1>1, <1>5, <1>7 DEF Within
<1> QED
  BY <1>2, <1>3, <1>4, <1>8 DEF BInv

\* Usage grows, and with it what may be billed.
LEMMA IngestStep ==
    ASSUME BInv, Ingest
    PROVE  BInv'
<1>1. PICK hour \in Hours : used' = [used EXCEPT ![hour] = @ + 1]
  <2>1. PICK hour \in 0 .. now : used' = [used EXCEPT ![hour] = @ + 1]
    BY DEF Ingest
  <2>2. hour \in Hours
    BY BillingAssumption DEF BInv, TypeOK, Hours
  <2> QED
    BY <2>1, <2>2
<1>2. UNCHANGED <<now, bill, budget, edit, edits, alerts, emails, worker>>
  BY DEF Ingest
<1>3. used' \in [Hours -> Nat] /\ \A x \in Hours : used[x] <= used'[x]
  BY <1>1 DEF BInv, TypeOK
<1>4. TypeOK'
  BY <1>2, <1>3 DEF BInv, TypeOK, Hours
<1>5. Provisioned'
  BY <1>2 DEF BInv, Provisioned
<1>6. PICK first : first = bill.start + 1
  OBVIOUS
<1>7. UsageSince(first) <= UsageSince(first)'
  BY <1>3, <1>4, MoreUsed DEF BInv
<1>8. PICK m, n : m = Most /\ n = Most'
  OBVIOUS
<1>9. m <= n
  <2>1. UsageSince(first) = Total(used, {h \in 0 .. MaxTime : h >= first})
    BY Zenon DEF UsageSince, UsageOf, Hours, Total, MapThenSumSet, MapThenFoldSet
  <2>2. UsageSince(first)' = Total(used', {h \in 0 .. MaxTime : h >= first})
    BY Zenon DEF UsageSince, UsageOf, Hours, Total, MapThenSumSet, MapThenFoldSet
  <2>3. /\ bill.start = NoStart => m = 0 /\ n = 0
        /\ bill.start # NoStart => m = UsageSince(first) /\ n = UsageSince(first)'
    BY <1>2, <1>6, <1>8, <2>1, <2>2, MostIs
  <2> QED
    BY <1>7, <2>3
<1>10. m \in Nat /\ n \in Nat
  <2>1. (Most \in Nat)'
    BY <1>4, MostType, PTL
  <2> QED
    BY <1>8, <2>1, MostType DEF BInv
<1>11. Within(n)
  BY <1>8, <1>9, <1>10, WithinMore DEF BInv
<1>12. Within(n)'
  BY <1>2, <1>11 DEF Within
<1> QED
  BY <1>4, <1>5, <1>8, <1>12 DEF BInv

\* A period is asked for from its first whole hour on.
LEMMA PeriodFirst ==
    ASSUME BInv, bill.start # NoStart
    PROVE  /\ bill.start + 1 \in Nat
           /\ Most = UsageSince(bill.start + 1)
           /\ BudgetFirst \in Nat
           /\ bill.start + 1 <= BudgetFirst
<1>1. bill.start \in Nat
  BY BillingAssumption DEF BInv, TypeOK, Hours
<1>2. BudgetStart \in Nat
  BY BudgetPeriod DEF BInv
<1> QED
  BY <1>1, <1>2 DEF BudgetFirst, Larger, Most

LEMMA QueryStep ==
    ASSUME BInv, NEW w \in Workers, GetUsageSummary(w) \/ QueryBudget(w)
    PROVE  BInv'
<1>1. Cardinality({}) = 0
  BY FS_EmptySet
<1>2. budget' \in Budget /\ budget'.current <= Most
  BY DEF BInv, TypeOK, Within, GetUsageSummary, QueryBudget
<1>3. UNCHANGED <<now, used, bill, budget, edit, edits, alerts, emails>>
  BY DEF GetUsageSummary, QueryBudget
<1>4. alerts' \subseteq Thresholds /\ emails' \in [Thresholds -> Nat]
  BY <1>3 DEF BInv, TypeOK
<1>5. bill.start # NoStart
  BY DEF BInv, Provisioned, At, GetUsageSummary, QueryBudget
<1>6. CASE GetUsageSummary(w)
  <2>1. PICK total : total = Summary(bill.start + 1)
    OBVIOUS
  <2>2. Carries(w, "budgets", total, {}, {})
    BY <1>6, <2>1 DEF GetUsageSummary
  <2>3. total \in Nat /\ total <= Most
    BY <1>5, <2>1, PeriodFirst, SummaryBounded DEF BInv
  <2> QED
    BY <1>1, <1>2, <1>3, <1>4, <1>5, <2>2, <2>3, CycleStep DEF Steps
<1>7. CASE QueryBudget(w)
  <2>1. PICK n : n = Summary(BudgetFirst)
    OBVIOUS
  <2>2. n \in Nat /\ n <= Most
    <3>1. PICK late : late = BudgetFirst
      OBVIOUS
    <3>2. PICK first : first = bill.start + 1
      OBVIOUS
    <3>3. /\ late \in Nat /\ first \in Nat /\ first <= late
          /\ Most = UsageSince(first) /\ TypeOK
      BY <1>5, <3>1, <3>2, PeriodFirst DEF BInv
    <3>4. n \in Nat /\ n <= UsageSince(late) /\ UsageSince(late) <= UsageSince(first)
      BY <2>1, <3>1, <3>3, SummaryBounded, SinceLater
    <3>5. UsageSince(late) \in Nat /\ UsageSince(first) \in Nat
      BY <3>3, SinceType
    <3> QED
      BY <3>3, <3>4, <3>5
  <2>3. PICK spent : /\ Carries(w, "commit", worker[w].total, spent, {})
                     /\ spent = {} \/ spent = {n}
    BY <1>7, <2>1, Zenon DEF QueryBudget
  <2>4. worker[w].total \in Nat /\ worker[w].total <= Most
    BY DEF BInv, TypeOK, Within
  <2>5. spent \in SUBSET Nat /\ \A x \in spent : x <= Most
    BY <2>2, <2>3
  <2> QED
    BY <1>1, <1>2, <1>3, <1>4, <2>3, <2>4, <2>5, CycleStep DEF Steps
<1> QED
  BY <1>6, <1>7

\* SetUsage and UpdateUsage write figures that are within the bound.
LEMMA CommitStep ==
    ASSUME BInv, NEW w \in Workers, Commit(w)
    PROVE  BInv'
<1>1. Cardinality(worker[w].alert) = 0 /\ worker[w].alert \subseteq Thresholds
  BY DEF BInv, TypeOK, Commit, At
<1>2. /\ worker[w].total \in Nat /\ worker[w].total <= Most
      /\ worker[w].spent \subseteq Nat /\ \A n \in worker[w].spent : n <= Most
  BY DEF BInv, TypeOK, Within
<1>3. /\ bill' = [bill EXCEPT !.billed = worker[w].total]
      /\ budget' = IF worker[w].spent = {} THEN budget
                   ELSE [budget EXCEPT !.current = CHOOSE n \in worker[w].spent : TRUE]
      /\ UNCHANGED <<now, used, edit, edits, alerts, emails>>
  BY DEF Commit
<1>4. budget' \in Budget /\ budget'.current <= Most
  <2>1. budget \in Budget /\ budget.current <= Most
    BY DEF BInv, TypeOK, Within
  <2>2. CASE worker[w].spent = {}
    BY <1>3, <2>1, <2>2
  <2>3. CASE worker[w].spent # {}
    <3>1. PICK n \in worker[w].spent : budget' = [budget EXCEPT !.current = n]
      BY <1>3, <2>3
    <3> QED
      BY <1>2, <2>1, <3>1 DEF Budget
  <2> QED
    BY <2>2, <2>3
<1>5. /\ bill' \in [start : Hours \cup {NoStart}, billed : Nat]
      /\ bill'.start = bill.start /\ bill'.billed <= Most
  BY <1>2, <1>3 DEF BInv, TypeOK
<1>6. PICK x : x = [at |-> "check", total |-> 0, spent |-> {}, alert |-> worker[w].alert]
  OBVIOUS
<1>7. /\ x \in [at : Steps, total : Nat, spent : SUBSET Nat, alert : SUBSET Thresholds]
      /\ x.at = "check" /\ x.total = 0 /\ x.spent = {} /\ x.alert = worker[w].alert
  BY <1>1, <1>6 DEF Steps
<1>8. worker' = [worker EXCEPT ![w] = x]
  BY <1>6 DEF Commit, Goes, Carries
<1>9. worker \in [Workers -> [at : Steps, total : Nat, spent : SUBSET Nat,
                              alert : SUBSET Thresholds]]
  BY DEF BInv, TypeOK
<1>10. /\ worker' \in [Workers -> [at : Steps, total : Nat, spent : SUBSET Nat,
                                   alert : SUBSET Thresholds]]
       /\ worker'[w] = x
       /\ \A v \in Workers : v # w => worker'[v] = worker[v]
  BY <1>7, <1>8, <1>9
<1>11. \A v \in Workers : Cardinality(worker'[v].alert) =
             IF worker'[v].at \in {"create", "overflow", "notify"} THEN 1 ELSE 0
  BY <1>1, <1>7, <1>10 DEF BInv, TypeOK
<1>12. TypeOK'
  BY <1>3, <1>4, <1>5, <1>10, <1>11 DEF BInv, TypeOK, Hours
<1>13. Provisioned'
  BY <1>5, <1>7, <1>10 DEF BInv, Provisioned
<1>14. PICK m : m = Most /\ m \in Nat
  BY MostType DEF BInv
<1>15. Most' = m
  BY <1>3, <1>5, <1>14, SameMost
<1>16. Within(m)'
  BY <1>3, <1>4, <1>5, <1>7, <1>10, <1>14 DEF BInv, Within
<1> QED
  BY <1>12, <1>13, <1>15, <1>16 DEF BInv

\* Users and stale saves move figures that are within the bound, or none.
LEMMA BudgetStep ==
    ASSUME BInv, CreateBudget \/ BeginUpdate \/ UpdateBudget \/ DeleteBudget
    PROVE  BInv'
<1>1. UNCHANGED <<now, used, bill, alerts, emails, worker>>
  BY Zenon DEF CreateBudget, BeginUpdate, UpdateBudget, DeleteBudget
<1>2. budget \in Budget /\ edit \in Budget \cup {NoEdit} /\ edits \in 0 .. MaxEdits
  BY DEF BInv, TypeOK
<1>3. PICK m : m = Most
  OBVIOUS
<1>4. budget.current <= m /\ (edit # NoEdit => edit.current <= m)
  BY <1>3 DEF BInv, Within
<1>5. /\ budget' \in Budget /\ edit' \in Budget \cup {NoEdit} /\ edits' \in 0 .. MaxEdits
      /\ budget'.current <= m /\ (edit' # NoEdit => edit'.current <= m)
  <2>1. MaxEdits \in Nat
    BY BillingAssumption
  <2>2. CASE CreateBudget
    BY <1>2, <1>4, <2>2 DEF CreateBudget, Budget
  <2>3. CASE BeginUpdate
    BY <1>2, <1>4, <2>1, <2>3 DEF BeginUpdate
  <2>4. CASE UpdateBudget
    <3>1. PICK s \in {"active", "inactive"}, n \in Limits :
             budget' = [edit EXCEPT !.status = s, !.limit = n]
      BY <2>4, Zenon DEF UpdateBudget
    <3>2. edit \in Budget /\ edit' = NoEdit /\ edits' = edits
      BY <1>2, <2>4, Zenon DEF UpdateBudget
    <3>3. budget' \in Budget /\ budget'.current = edit.current
      BY <3>1, <3>2 DEF Budget
    <3> QED
      BY <1>2, <1>4, <2>4, <3>2, <3>3, Zenon DEF UpdateBudget
  <2>5. CASE DeleteBudget
    BY <1>2, <1>4, <2>1, <2>5 DEF DeleteBudget, Budget
  <2> QED
    BY <2>2, <2>3, <2>4, <2>5
<1>6. TypeOK'
  BY <1>1, <1>5 DEF BInv, TypeOK, Hours
<1>7. Provisioned'
  BY <1>1 DEF BInv, Provisioned
<1>8. Most' = m
  BY <1>1, <1>3, SameMost
<1>9. Within(m)'
  BY <1>1, <1>3, <1>5 DEF BInv, Within
<1> QED
  BY <1>6, <1>7, <1>8, <1>9 DEF BInv

\* Only the clock moves, or nothing does.
LEMMA ClockStep ==
    ASSUME BInv, Tick \/ UNCHANGED vars
    PROVE  BInv'
<1>1. UNCHANGED <<used, bill, budget, edit, edits, alerts, emails, worker>>
  BY DEF Tick, vars
<1>2. now' \in Hours
  BY BillingAssumption DEF BInv, TypeOK, Tick, vars, Hours
<1>3. TypeOK'
  BY <1>1, <1>2 DEF BInv, TypeOK, Hours
<1>4. PICK m : m = Most
  OBVIOUS
<1>5. Most' = m
  BY <1>1, <1>4, SameMost
<1>6. Within(m)' /\ Provisioned'
  BY <1>1, <1>4 DEF BInv, Within, Provisioned
<1> QED
  BY <1>3, <1>5, <1>6 DEF BInv

\* Steps that move no figure: their effect on the rows, the alerts and emails.
LEMMA AlertingStep ==
    ASSUME BInv, NEW w \in Workers,
           CheckBudgets(w) \/ CreateAlert(w) \/ SendAlertNotification(w)
    PROVE  BInv'
<1>1. UNCHANGED <<now, used, bill, budget, edit, edits>>
  BY DEF CheckBudgets, CreateAlert, SendAlertNotification
<1>2. /\ alerts \subseteq Thresholds /\ emails \in [Thresholds -> Nat]
      /\ worker[w].alert \subseteq Thresholds
  BY DEF BInv, TypeOK
<1>3. CASE CheckBudgets(w)
  <2>1. Triggered \subseteq Thresholds
    BY DEF Triggered
  <2>2. UNCHANGED <<alerts, emails>>
    BY <1>3 DEF CheckBudgets
  <2>3. CASE Triggered = {}
    <3>1. Carries(w, "idle", 0, {}, {})
      BY <1>3, <2>3, Zenon DEF CheckBudgets
    <3> QED
      BY <1>1, <1>2, <2>2, <3>1, StopsOn DEF Stops
  <2>4. CASE Triggered # {}
    <3>1. PICK t : Triggered = {t}
      BY <2>4, TriggeredHighest DEF Single
    <3>2. Cardinality(Triggered) = 1
      BY <3>1, FS_Singleton
    <3>3. PICK step \in {"create", "overflow"} : Carries(w, step, 0, {}, Triggered)
      BY <1>3, <2>4, Zenon DEF CheckBudgets
    <3> QED
      BY <1>1, <1>2, <2>1, <2>2, <3>2, <3>3, GoesOn DEF Steps
  <2> QED
    BY <2>3, <2>4
<1>4. CASE CreateAlert(w)
  <2>1. alerts' \subseteq Thresholds /\ emails' \in [Thresholds -> Nat]
    BY <1>2, <1>4 DEF CreateAlert
  <2>2. CASE worker[w].alert \subseteq alerts
    BY <1>1, <1>4, <2>1, <2>2, StopsOn DEF CreateAlert
  <2>3. CASE ~(worker[w].alert \subseteq alerts)
    <3>1. Carries(w, "notify", 0, {}, worker[w].alert)
      BY <1>4, <2>3 DEF CreateAlert, Goes
    <3>2. Cardinality(worker[w].alert) = 1
      BY <1>4 DEF CreateAlert, At, BInv, TypeOK
    <3> QED
      BY <1>1, <1>2, <2>1, <3>1, <3>2, GoesOn DEF Steps
  <2> QED
    BY <2>2, <2>3
<1>5. CASE SendAlertNotification(w)
  <2>1. alerts' \subseteq Thresholds /\ emails' \in [Thresholds -> Nat]
    BY <1>2, <1>5 DEF SendAlertNotification
  <2> QED
    BY <1>1, <1>5, <2>1, StopsOn DEF SendAlertNotification
<1> QED
  BY <1>3, <1>4, <1>5

\* The first step of a cycle, and its ends before its time.
LEMMA CycleEndsStep ==
    ASSUME BInv, NEW w \in Workers,
           BeginCycle(w) \/ ResetPeriod(w) \/ RefuseAlert(w) \/ Abort(w)
    PROVE  BInv'
<1>1. UNCHANGED <<now, used, bill, budget, edit, edits, alerts, emails>>
  BY DEF BeginCycle, ResetPeriod, RefuseAlert, Abort
<1>2. alerts' \subseteq Thresholds /\ emails' \in [Thresholds -> Nat]
  BY <1>1 DEF BInv, TypeOK
<1>3. CASE ResetPeriod(w) \/ RefuseAlert(w) \/ Abort(w)
  BY <1>1, <1>2, <1>3, StopsOn DEF ResetPeriod, RefuseAlert, Abort
<1>4. CASE BeginCycle(w)
  <2>1. PICK step \in {"check", "reset", "query"} :
          /\ Goes(w, step)
          /\ step = "query" => bill.start # NoStart
    BY <1>4, Zenon DEF BeginCycle
  <2>2. Cardinality(worker[w].alert) = 0 /\ worker[w].alert \subseteq Thresholds
    BY <1>4 DEF BeginCycle, At, BInv, TypeOK
  <2> QED
    BY <1>1, <1>2, <2>1, <2>2, GoesOn DEF Goes, Steps
<1> QED
  BY <1>3, <1>4

LEMMA FiguresStep == BInv /\ [Next]_vars => BInv'
BY ClockStep, IngestStep, ProvisionStep, BudgetStep, CycleEndsStep, QueryStep,
   CommitStep, AlertingStep
DEF Next, Step

LEMMA FiguresInit == Init => BInv
<1> SUFFICES ASSUME Init PROVE BInv
  OBVIOUS
<1>1. PICK n \in Limits : budget = [status |-> "absent", limit |-> n, current |-> 0]
  BY DEF Init
<1>2. Cardinality({}) = 0
  BY FS_EmptySet
<1>3. Idle \in [at : Steps, total : Nat, spent : SUBSET Nat, alert : SUBSET Thresholds]
  BY DEF Idle, Steps
<1>4. worker = [w \in Workers |-> Idle] /\ \A w \in Workers : worker[w] = Idle
  BY DEF Init
<1>5. \A w \in Workers : Cardinality(worker[w].alert) =
          IF worker[w].at \in {"create", "overflow", "notify"} THEN 1 ELSE 0
  BY <1>2, <1>4 DEF Idle
<1>6. /\ now = 0 /\ used = [h \in Hours |-> 0]
      /\ bill = [start |-> NoStart, billed |-> 0]
      /\ edit = NoEdit /\ edits = 0 /\ alerts = {}
      /\ emails = [t \in Thresholds |-> 0]
  BY DEF Init
<1>7. TypeOK
  BY <1>1, <1>3, <1>4, <1>5, <1>6, BillingAssumption DEF TypeOK, Hours, Budget
<1>8. Provisioned
  BY <1>4 DEF Provisioned, Idle
<1>9. Most = 0
  BY <1>6 DEF Most
<1>10. Within(0)
  BY <1>1, <1>4, <1>6 DEF Within, Idle
<1> QED
  BY <1>7, <1>8, <1>9, <1>10 DEF BInv

\* The rows, the edits and the cycles of the billing keep their types.
THEOREM TypeCorrect == Spec => []TypeOK
BY FiguresInit, FiguresStep, PTL DEF Spec, BInv

\* Whatever workers query and commit in whatever order, and whatever stale
\* budget rows are saved, no figure exceeds what was used since the
\* organization was provisioned.
THEOREM NothingBilledTwice == Spec => []NeverOverbilled
<1>1. BInv => NeverOverbilled
  BY DEF BInv, Within, Most, NeverOverbilled
<1> QED
  BY <1>1, FiguresInit, FiguresStep, PTL DEF Spec
=============================================================================

----------------------------- MODULE UsageBilling -----------------------------
(***************************************************************************)
(* Usage billing of one organization in one dimension: what ClickHouse     *)
(* counts, the billing row it is provisioned with, one budget of the whole *)
(* organization, and the usage aggregation workers, one in every process,  *)
(* that copy the usage into both and alert when the budget's limit nears.  *)
(*                                                                         *)
(* The clock counts hours.  An instant of an hour is never its start, so   *)
(* the hours counted from such an instant begin with the next one, while   *)
(* days, budget periods and billing periods end at the start of an hour.   *)
(***************************************************************************)
EXTENDS Integers, FiniteSets, FiniteSetsExt, Sequences

CONSTANTS
    Workers,      \* usage aggregation workers
    Thresholds,   \* alert thresholds of the budget, in percent of its limit
    Limits,       \* limits its users set
    NoStart,      \* the organization has no billing row
    HoursPerDay,
    MonthStart,   \* first day of every month
    BudgetStarts, \* hours at which a budget period starts: weeks or months
    Window,       \* longest period that is summed by the hour
    MaxPercent,   \* percentages from here on do not fit in an alert's column
    MaxTime,      \* bound: the clock stops here
    MaxUsage,     \* bound: usage there is to count
    MaxEdits,     \* bound: updates of the budget
    Env           \* "abort": errors, crashes and a full notification queue

Hours == 0 .. MaxTime

ASSUME BillingAssumption ==
    /\ Thresholds \subseteq Nat \ {0} /\ IsFiniteSet(Thresholds)
    /\ Limits \subseteq Nat \ {0} /\ Limits # {}
    /\ NoStart \notin Nat
    /\ HoursPerDay \in Nat \ {0}
    /\ MaxPercent \in Nat \ {0}
    /\ Window \in Nat /\ MaxTime \in Nat /\ MaxUsage \in Nat /\ MaxEdits \in Nat
    /\ 0 \in BudgetStarts /\ BudgetStarts \subseteq Nat

VARIABLES
    now,     \* the clock
    used,    \* usage ClickHouse has counted in every hour
    bill,    \* the row of organization_billings
    budget,  \* the row of usage_budgets
    edit,    \* an update of the budget in flight, with the row it read
    edits,   \* updates so far
    alerts,  \* thresholds with a row in usage_alerts
    emails,  \* history: emails queued for a threshold
    worker   \* aggregation cycles in progress

vars == <<now, used, bill, budget, edit, edits, alerts, emails, worker>>

Budget == [status : {"absent", "active", "inactive"}, limit : Limits, current : Nat]
NoEdit == [status |-> "none"]
Idle   == [at |-> "idle", total |-> 0, spent |-> {}, alert |-> {}]

Steps == {"idle", "reset", "query", "budgets", "commit", "check", "create", "overflow",
          "notify"}

TypeOK ==
    /\ now \in Hours
    /\ used \in [Hours -> Nat]
    /\ bill \in [start : Hours \cup {NoStart}, billed : Nat]
    /\ budget \in Budget
    /\ edit \in Budget \cup {NoEdit}
    /\ edits \in 0 .. MaxEdits
    /\ alerts \subseteq Thresholds
    /\ emails \in [Thresholds -> Nat]
    /\ worker \in [Workers -> [at : Steps, total : Nat, spent : SUBSET Nat,
                               alert : SUBSET Thresholds]]
    /\ \A w \in Workers :
         Cardinality(worker[w].alert) =
             IF worker[w].at \in {"create", "overflow", "notify"} THEN 1 ELSE 0

Init ==
    /\ now = 0
    /\ used = [h \in Hours |-> 0]
    /\ bill = [start |-> NoStart, billed |-> 0]
    /\ \E n \in Limits : budget = [status |-> "absent", limit |-> n, current |-> 0]
    /\ edit = NoEdit
    /\ edits = 0
    /\ alerts = {}
    /\ emails = [t \in Thresholds |-> 0]
    /\ worker = [w \in Workers |-> Idle]

-----------------------------------------------------------------------------
(* Time and the usage tables.                                              *)

Larger(a, b) == IF a < b THEN b ELSE a

Day(h) == h \div HoursPerDay

MonthOf(d) == CHOOSE m \in 1 .. (Len(MonthStart) - 1) :
                  MonthStart[m] <= d /\ d < MonthStart[m + 1]

\* calculatePeriodEnd: AddDate(0, 1, 0), which runs over into the month after
\* when the next one has no such day, and then the first of that month.
PeriodEnd(start) ==
    LET m == MonthOf(Day(start))
        d == Day(start) - MonthStart[m]
        next == IF MonthStart[m + 1] + d < MonthStart[m + 2] THEN m + 1 ELSE m + 2
    IN MonthStart[next] * HoursPerDay

PeriodOver == bill.start # NoStart /\ now >= PeriodEnd(bill.start)

\* getBudgetPeriodStart: of the week or the month that now is in.
BudgetStart == CHOOSE s \in BudgetStarts :
                   s <= now /\ \A r \in BudgetStarts : r <= now => r <= s

\* A budget's period, clamped to the billing period.
BudgetFirst == Larger(BudgetStart, bill.start + 1)

UsageOf(hours) == MapThenSumSet(LAMBDA h : used[h], hours)

\* Mutant: the bucket of the running hour or day is left for the next sync.
ClosedBuckets(first) ==
    UsageOf({h \in 0 .. now :
        IF now - first >= Window
        THEN Day(h) * HoursPerDay >= first /\ Day(h) # Day(now)
        ELSE h >= first /\ h # now})

\* GetUsageSummary until now: a long period is summed by the days that start
\* in it, a short one by the hours.
Summary(first) ==
    UsageOf({h \in 0 .. now :
        (IF now - first >= Window THEN Day(h) * HoursPerDay ELSE h) >= first})

-----------------------------------------------------------------------------
(* The surroundings.                                                       *)

Tick ==
    /\ now < MaxTime
    /\ now' = now + 1
    /\ UNCHANGED <<used, bill, budget, edit, edits, alerts, emails, worker>>

\* A span reaches the hour it started in, which may be long past.
Ingest ==
    /\ UsageOf(Hours) < MaxUsage
    /\ \E h \in 0 .. now : used' = [used EXCEPT ![h] = @ + 1]
    /\ UNCHANGED <<now, bill, budget, edit, edits, alerts, emails, worker>>

\* Another attempt meets the unique key and changes nothing.
ProvisionOrganizationBilling ==
    /\ bill.start = NoStart
    /\ bill' = [start |-> now, billed |-> 0]
    /\ UNCHANGED <<now, used, budget, edit, edits, alerts, emails, worker>>

CreateBudget ==
    /\ budget.status = "absent"
    /\ budget' = [budget EXCEPT !.status = "active"]
    /\ UNCHANGED <<now, used, bill, edit, edits, alerts, emails, worker>>

BeginUpdate ==
    /\ edit = NoEdit /\ edits < MaxEdits
    /\ budget.status # "absent"
    /\ edit' = budget
    /\ edits' = edits + 1
    /\ UNCHANGED <<now, used, bill, budget, alerts, emails, worker>>

\* Save: every column, the usage counted so far as it was read.
UpdateBudget ==
    /\ edit # NoEdit
    /\ \E s \in {"active", "inactive"}, n \in Limits :
         budget' = [edit EXCEPT !.status = s, !.limit = n]
    /\ edit' = NoEdit
    /\ UNCHANGED <<now, used, bill, edits, alerts, emails, worker>>

DeleteBudget ==
    /\ budget.status = "active" /\ edits < MaxEdits
    /\ budget' = [budget EXCEPT !.status = "inactive"]
    /\ edits' = edits + 1
    /\ UNCHANGED <<now, used, bill, edit, alerts, emails, worker>>

-----------------------------------------------------------------------------
(* A worker's cycle.                                                       *)

At(w, step) == worker[w].at = step

\* The cycle goes on to a step with what it still needs of its results.
Carries(w, step, total, spent, alert) ==
    worker' = [worker EXCEPT
        ![w] = [at |-> step, total |-> total, spent |-> spent, alert |-> alert]]

Goes(w, step) == Carries(w, step, 0, {}, worker[w].alert)
Stops(w) == Carries(w, "idle", 0, {}, {})

\* Without a billing row there is no usage to sync, and the budgets are checked.
BeginCycle(w) ==
    /\ At(w, "idle")
    /\ Goes(w, IF bill.start = NoStart THEN "check"
               ELSE IF PeriodOver THEN "reset" ELSE "query")
    /\ UNCHANGED <<now, used, bill, budget, edit, edits, alerts, emails>>

\* The statement reads a table organization_billing; there is only
\* organization_billings.  The cycle skips the organization and its budgets.
ResetPeriod(w) ==
    /\ At(w, "reset")
    /\ Stops(w)
    /\ UNCHANGED <<now, used, bill, budget, edit, edits, alerts, emails>>

GetUsageSummary(w) ==
    /\ At(w, "query")
    /\ Carries(w, "budgets", Summary(bill.start + 1), {}, {})
    /\ UNCHANGED <<now, used, bill, budget, edit, edits, alerts, emails>>

\* SetUsage locks the billing row until the transaction ends; then the active
\* budget's usage is queried, clamped to the billing period.  When that fails
\* the budget is left as it is.
QueryBudget(w) ==
    /\ At(w, "budgets")
    /\ \A o \in Workers : ~At(o, "commit")
    /\ \E failed \in {FALSE, "abort" \in Env} :
         Carries(w, "commit", worker[w].total,
                 IF budget.status # "active" \/ failed THEN {}
                 ELSE {Summary(BudgetFirst)}, {})
    /\ UNCHANGED <<now, used, bill, budget, edit, edits, alerts, emails>>

\* Mutant: the summary is added to what is billed.
AddUsage(w) ==
    /\ At(w, "commit")
    /\ bill' = [bill EXCEPT !.billed = @ + worker[w].total]
    /\ budget' = IF worker[w].spent = {} THEN budget
                 ELSE [budget EXCEPT !.current = CHOOSE n \in worker[w].spent : TRUE]
    /\ Goes(w, "check")
    /\ UNCHANGED <<now, used, edit, edits, alerts, emails>>

\* SetUsage and UpdateUsage replace what was there.
Commit(w) ==
    /\ At(w, "commit")
    /\ bill' = [bill EXCEPT !.billed = worker[w].total]
    /\ budget' = IF worker[w].spent = {} THEN budget
                 ELSE [budget EXCEPT !.current = CHOOSE n \in worker[w].spent : TRUE]
    /\ Goes(w, "check")
    /\ UNCHANGED <<now, used, edit, edits, alerts, emails>>

\* Mutant: a limit that is reached exactly does not count.
Exceeded(t) == 100 * budget.current > t * budget.limit

Reached(t) == 100 * budget.current >= t * budget.limit

\* Mutant: an alert for every threshold reached.
EveryReached ==
    IF budget.status # "active" THEN {} ELSE {t \in Thresholds : Reached(t)}

\* evaluateBudget: only the highest threshold reached.
Triggered ==
    IF budget.status # "active" THEN {}
    ELSE {t \in Thresholds : Reached(t) /\ \A s \in Thresholds : Reached(s) => s <= t}

\* percent_used is DECIMAL(5,2): there is no room for 1000, nor for what
\* rounds to it.
Overflows == 100 * budget.current >= MaxPercent * budget.limit

CheckBudgets(w) ==
    /\ At(w, "check")
    /\ Carries(w, IF Triggered = {} THEN "idle"
                  ELSE IF Overflows THEN "overflow" ELSE "create", 0, {}, Triggered)
    /\ UNCHANGED <<now, used, bill, budget, edit, edits, alerts, emails>>

\* Mutant: an alert that exists is created again.
CreateAnyway(w) ==
    /\ At(w, "create")
    /\ alerts' = alerts \cup worker[w].alert
    /\ Goes(w, "notify")
    /\ UNCHANGED <<now, used, bill, budget, edit, edits, emails>>

\* hasRecentAlert, or else the unique index on alerts that are not resolved,
\* which none ever is, ends the cycle of who finds the alert there.
CreateAlert(w) ==
    /\ At(w, "create")
    /\ IF worker[w].alert \subseteq alerts
       THEN Stops(w) /\ UNCHANGED alerts
       ELSE Goes(w, "notify") /\ alerts' = alerts \cup worker[w].alert
    /\ UNCHANGED <<now, used, bill, budget, edit, edits, emails>>

\* The database refuses a percentage its column has no room for; the error is
\* logged and the alert skipped, in this cycle and in every other.
RefuseAlert(w) ==
    /\ At(w, "overflow")
    /\ Stops(w)
    /\ UNCHANGED <<now, used, bill, budget, edit, edits, alerts, emails>>

\* QueueEmail drops the job when the queue is full; nobody sends it again.
SendAlertNotification(w) ==
    /\ At(w, "notify")
    /\ emails' = [t \in Thresholds |->
                    IF t \in worker[w].alert THEN emails[t] + 1 ELSE emails[t]]
    /\ Stops(w)
    /\ UNCHANGED <<now, used, bill, budget, edit, edits, alerts>>

\* An error, the timeout of the cycle, a crash, or a full queue.
Abort(w) ==
    /\ "abort" \in Env
    /\ ~At(w, "idle")
    /\ Stops(w)
    /\ UNCHANGED <<now, used, bill, budget, edit, edits, alerts, emails>>

-----------------------------------------------------------------------------

Step(w) ==
    \/ BeginCycle(w) \/ ResetPeriod(w) \/ GetUsageSummary(w) \/ QueryBudget(w)
    \/ Commit(w) \/ CheckBudgets(w) \/ CreateAlert(w) \/ RefuseAlert(w)
    \/ SendAlertNotification(w)

Next ==
    \/ Tick \/ Ingest
    \/ ProvisionOrganizationBilling
    \/ CreateBudget \/ BeginUpdate \/ UpdateBudget \/ DeleteBudget
    \/ \E w \in Workers : Step(w) \/ Abort(w)

Spec == Init /\ [][Next]_vars

\* The figure of an active budget could be queried.
Counted(w) == budget.status = "active" => worker[w].spent # {}

\* The ticker starts cycle after cycle, and a step that is tried again and
\* again succeeds in some cycle of some worker.
Fairness ==
    /\ \A w \in Workers : WF_vars(Step(w))
    /\ SF_vars(\E w \in Workers : GetUsageSummary(w))
    /\ SF_vars(\E w \in Workers : QueryBudget(w) /\ Counted(w)')
    /\ SF_vars(\E w \in Workers : Commit(w) /\ Counted(w))
    /\ SF_vars(\E w \in Workers : CheckBudgets(w))
    /\ SF_vars(\E w \in Workers : CreateAlert(w))

FairSpec == Spec /\ Fairness

-----------------------------------------------------------------------------
(* Properties.                                                             *)

\* What was used in the hours from first on, whatever table counts it.
UsageSince(first) == UsageOf({h \in Hours : h >= first})

\* The first hour of the first whole day of a period.
WholeDays(first) == ((first + HoursPerDay - 1) \div HoursPerDay) * HoursPerDay

\* With workers that query and commit in any order, and saves of stale budget
\* rows, nothing is billed or counted twice: neither figure ever exceeds what
\* was used since the organization was provisioned.
NeverOverbilled ==
    LET most == IF bill.start = NoStart THEN 0 ELSE UsageSince(bill.start + 1)
    IN bill.billed <= most /\ budget.current <= most

\* Every threshold is emailed once, however many workers see it reached.
EmailedOnce == \A t \in Thresholds : emails[t] <= 1

\* Until the period ends the bill returns, again and again, to what was used,
\* but for the hours before the first whole day.
CatchesUp ==
    []<>(\/ bill.start = NoStart \/ PeriodOver
         \/ /\ bill.billed >= UsageSince(WholeDays(bill.start + 1))
            /\ bill.billed <= UsageSince(bill.start + 1))

\* Every threshold that the running period's whole days have used up, or a
\* higher one, has an alert, of this period or of an earlier one, unless the
\* usage is past what an alert can say.
Alerted ==
    \A t \in Thresholds :
        /\ 100 * UsageSince(WholeDays(BudgetFirst)) >= t * budget.limit
        /\ 100 * UsageSince(BudgetFirst) < MaxPercent * budget.limit
        => \E s \in alerts : s >= t

\* As long as a budget is active and a threshold of its limit is used up in the
\* running period, it is alerted about, at that threshold or at a higher one,
\* unless the usage is past what the alert's column has room for.
LimitAlerted ==
    []<>(\/ bill.start = NoStart \/ PeriodOver \/ budget.status # "active"
         \/ Alerted)

\* usage_aggregation_worker.go:214 "Check if we need to reset the billing
\* period": when a period is over, the next one starts.
PeriodRolls == PeriodOver ~> ~PeriodOver

=============================================================================

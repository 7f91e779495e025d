---------------------------- MODULE MCUsageBilling ----------------------------
(* Small instances of UsageBilling for TLC. *)
EXTENDS UsageBilling

CONSTANTS w1, w2

\* Months of two days, one day, two days and one day; one budget a month.
ShortMonths == <<0, 2, 3, 5, 6>>
FirstHours == {MonthStart[m] * HoursPerDay : m \in DOMAIN MonthStart}

\* One unit is half of one limit, and more than an alert can say of the other.
QuarterAndHalf == {25, 50}
TwoLimits == {1, 2}
Errors == {"abort"}
=============================================================================

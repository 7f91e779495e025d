SPECIFICATION FairSpec
CONSTANTS
    w1 = w1  w2 = w2
    NoStart = NoStart
    Workers = {w1}
    Thresholds <- QuarterAndHalf
    Limits <- TwoLimits
    HoursPerDay = 2
    MonthStart <- ShortMonths
    BudgetStarts <- FirstHours
    Window = 2
    MaxPercent = 100
    MaxTime = 4
    MaxUsage = 1
    MaxEdits = 1
    Env = {}
PROPERTY PeriodRolls

\* Two submissions of one day, overlapping.
SPECIFICATION DailyLogSpec
CONSTANTS
    LogSlot = {l1, l2}
    MaxFreezes = 2
    LastDay = 0
    MaxRecounts = 0
    MonthOf <- MCMonthOf
    WorkingDays <- MCWorkingDays
SYMMETRY MCSymmetry
INVARIANT OneIncrementPerDay

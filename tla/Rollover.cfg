\* The rollover of a day nobody logged.
SPECIFICATION DailyLogSpec
CONSTANTS
    LogSlot = {l1}
    MaxFreezes = 2
    LastDay = 2
    MaxRecounts = 0
    MonthOf <- MCMonthOf
    WorkingDays <- MCWorkingDays
SYMMETRY MCSymmetry
INVARIANT RolloverLeavesAnEntry

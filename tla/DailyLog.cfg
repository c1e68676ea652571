\* The daily log of one membership, two requests in flight.
SPECIFICATION DailyLogSpec
CONSTANTS
    LogSlot = {l1, l2}
    MaxFreezes = 1
    LastDay = 2
    MaxRecounts = 1
    MonthOf <- MCMonthOf
    WorkingDays <- MCWorkingDays
SYMMETRY MCSymmetry
INVARIANTS
    DailyLogTypeOK
    FreezeLimit
    StreakHasDays
PROPERTY ClosedDayStaysClosed

------------------------------ MODULE MCDailyLog -----------------------------
(* Three days across the turn of a month, the middle one a working day.     *)
EXTENDS DailyLog, TLC

MCMonthOf == [d \in Day |-> IF d < 2 THEN 1 ELSE 2]

MCWorkingDays == {d \in Day : d = 1}

MCSymmetry == Permutations(LogSlot)

=============================================================================

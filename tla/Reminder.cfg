\* The streak reminder of one user, three days, nothing going wrong.
SPECIFICATION RemindersSpec
CONSTANTS
    Zone <- MCZone
    Horizon <- MCHorizon
    MaxMishaps = 0
    Event = {e1}
    BatchSize = 1
    NudgeLimit = 1
    Attempts = 1
    MaxFaults = 0
    Goal = {g1}
    LastWeek = 0
    MaxLapses = 0
    NoGoal = None
CHECK_DEADLOCK FALSE
INVARIANTS
    ReminderBeforeMidnight

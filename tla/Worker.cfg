\* Three events in two batches, two attempts each; two goals over two weeks;
\* every feature of the companion; one fault in each behaviour.
SPECIFICATION WorkerSpec
CONSTANTS
    Event = {e1, e2, e3}
    BatchSize = 2
    NudgeLimit = 1
    Attempts = 2
    MaxFaults = 1
    Goal = {g1, g2}
    LastWeek = 1
    MaxLapses = 1
    NoGoal = None
    Zone <- MCZone
    Horizon <- MCHorizon
    MaxMishaps = 1
CHECK_DEADLOCK FALSE
INVARIANTS
    WorkerTypeOK
    NudgesAccountedFor
    RecapsAccountedFor
    LimitsHold
    RecapUnlessKeyTaken
PROPERTIES
    EveryEventIsProcessed

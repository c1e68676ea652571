\* The goals service, and check-ins of an active goal with their evidence; two
\* requests in flight.
SPECIFICATION MCReviewsSpec
CONSTANTS
    owner = owner
    buddy = buddy
    peer = peer
    circle1 = circle1
    circle2 = circle2
    goal1 = goal1
    None = None
    User = {owner, buddy}
    Circle = {circle1, circle2}
    Goal = {goal1, goal2}
    GoalSlot = {r1, r2}
    RefineLimit = 1
    InitMembers <- MCTwoCircles
    CheckIn = {k1, k2}
    CheckInSlot = {r1, r2}
    Participant = {buddy}
    EvidenceKinds = {"text", "file"}
    MaxEvidence = 1
    MaxReviews = 2
    MaxUploads = 3
SYMMETRY MCSymmetry
CHECK_DEADLOCK FALSE
INVARIANTS
    LoopTypeOK
    PactAgreement
    OneOpenGoalPerCircle
    OneAcceptanceEvent
    StreakIsReplayOfReviews
    DecisionIsOnRecord
    EventsAreBacked
    CountedLimits
    FilesAreStored
PROPERTIES
    DeadInviteStaysDead
    SettledIsFinal
    EvidenceIsFrozen

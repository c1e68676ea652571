\* The transitions the documentation forbids, two requests in flight.
SPECIFICATION MCActiveGoalSpec
CONSTANTS
    owner = owner
    buddy = buddy
    peer = peer
    circle1 = circle1
    goal1 = goal1
    None = None
    User = {owner, buddy}
    Circle = {circle1}
    Goal = {goal1}
    GoalSlot = {}
    RefineLimit = 1
    InitMembers <- MCInitMembers
    CheckIn = {k1, k2}
    CheckInSlot = {r1, r2}
    Participant = {buddy}
    EvidenceKinds = {}
    MaxEvidence = 1
    MaxReviews = 2
    MaxUploads = 0
SYMMETRY MCSymmetry
CHECK_DEADLOCK FALSE
PROPERTY ForbiddenTransitionsNeverHappen

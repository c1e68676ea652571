\* The whole loop from an empty goals table, one request of each service at a
\* time: the service implements the documented review loop.
SPECIFICATION LoopSpec
CONSTANTS
    owner = owner
    buddy = buddy
    peer = peer
    circle1 = circle1
    goal1 = goal1
    None = None
    User = {owner, buddy}
    Circle = {circle1}
    Goal = {goal1}
    GoalSlot = {q1}
    RefineLimit = 1
    InitMembers <- MCInitMembers
    CheckIn = {k1, k2}
    CheckInSlot = {r1}
    Participant = {}
    EvidenceKinds = {}
    MaxEvidence = 1
    MaxReviews = 3
    MaxUploads = 1
SYMMETRY MCLoopSymmetry
CHECK_DEADLOCK FALSE
PROPERTY ReviewLoopSpec

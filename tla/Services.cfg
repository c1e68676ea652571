\* Two requests in flight on one service at a time.
SPECIFICATION ServicesSpec
CONSTANTS
    Person = {a, b, c}
    Ring = {r}
    Season = {r}
    CircleSlot = {s1, s2}
    MemberLimit = 2
    Nobody = None
    Mate = {a, b, c}
    TeamSlot = {s1, s2}
    TeamLimit = 2
    NoMate = None
    Proof = {p, q}
    Entry = {p, q}
    ProofSlot = {s1, s2}
    NoProof = None
    Stake = {r}
    Milestone = {a, b, c}
    Contract = {k}
    DutySlot = {s1, s2}
    MaxPlace = 1
    NoDuty = None
    Token = {a, b, c}
    SessionSlot = {s1, s2}
    NoToken = None
    Caller = {s1, s2}
    TokenLimit = 2
    MaxCost = 2
    MaxMislaid = 1
    Fellow = {p, q}
    Community = {p, q}
    Teamspace = {r}
    Slug = {r}
    Initiative = {r}
    Part = {a, b, c}
    SpaceSlot = {s1, s2}
    NoPart = None
    Account = {p, q}
    Chat = {p, q}
    LinkToken = {a, b, c}
    LinkSlot = {s1, s2}
SYMMETRY MCSymmetry
CHECK_DEADLOCK FALSE
INVARIANTS
    ServicesTypeOK
    JoinLimit
    CrewWithinLimit
    OneLead
    EntryInOneProof
    ProofDecisionOnRecord
    ForfeitureBacked
    PlacesShared
    RotationKeepsALiveToken
    SpendingBounded
    OneGoalPerParticipant
PROPERTIES
    DeadCircleStaysDead
    ArchivedTeamTakesNobody
    ProofSettled
    SettledObligationsAreFinal
    DeadLineStaysDead
    CutOffStaysCutOff

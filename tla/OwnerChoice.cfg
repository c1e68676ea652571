\* A circle of two, one request at a time; the clock ends the season.
SPECIFICATION CirclesSpec
CONSTANTS
    Person = {a, b}
    Ring = {r}
    Season = {s}
    CircleSlot = {s1}
    MemberLimit = 2
    Nobody = None
CHECK_DEADLOCK FALSE
INVARIANTS
    OwnerCanStillChoose

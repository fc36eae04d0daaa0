SPECIFICATION FairSpec
CONSTANTS
    Runs = {r1}
    Polls = {p1, p2}
    MaxEvents = 3
    PageSize = 2
    None = None
CHECK_DEADLOCK FALSE
INVARIANT EndIsReal
PROPERTY EndIsShown

SPECIFICATION Spec
CONSTANTS
    Runs = {r1, r2}
    Polls = {p1, p2}
    MaxEvents = 2
    PageSize = 2
    None = None
CHECK_DEADLOCK FALSE
INVARIANTS
    OnlyActiveRunShown

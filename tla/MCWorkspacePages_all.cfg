CONSTANTS
    w1 = w1
    w2 = w2
    i1 = i1
    i2 = i2
    i3 = i3
    p1 = p1
    None = None
    Workspaces = {w1, w2}
    Items = {i1, i2, i3}
    Profiles = {p1}
    Home <- TheHome
    MaxRuns = 2
    MaxEvents = 3
    PollLimit = 2
    MaxClicks = 3
    Slots = {1, 2}
SPECIFICATION PagesFairSpec
CONSTRAINT Scene
CHECK_DEADLOCK FALSE
INVARIANT ShowsSelection
INVARIANT ShowsFacts
PROPERTY EventsShown
PROPERTY PagesSettle

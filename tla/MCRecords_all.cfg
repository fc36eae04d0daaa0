\* Two or three invocations of any mix of one family of operations.
CONSTANTS
    c1 = c1
    c2 = c2
    c3 = c3
    Requests = {c1, c2, c3}
    wA = wA
    wB = wB
    Callers <- MCCallers
    AdminEmails = {}
    Keys = {"k1", "k2"}
    Statuses = {"published", "completed", "unknown"}
    Decisions = {"approved", "rejected", "unknown"}
    Urls = {"u1"}
    Profiles = {"p1"}
    Contents = {"x", "y"}
    Hosts = {"h1"}
    Placements = {"east", "west"}
    Founder <- MCFounder
    FirstKey = "k1"
    Scenarios <- MCScenarios
    PageSize = 2
    AgentSeqs = {2, 3}
    Blank = Blank
    None = None
SPECIFICATION FairSpec
INVARIANT RowsSound
INVARIANT ListsSound
INVARIANT AnswersStand
PROPERTY ChangesAsked
PROPERTY RequestsEnd

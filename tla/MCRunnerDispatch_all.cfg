SPECIFICATION FairSpec
CONSTANTS
    r1 = r1
    r2 = r2
    q1 = q1
    u1 = u1
    u2 = u2
    d1 = d1
    d2 = d2
    Dispatches = {d1, d2}
    Runs = {r1, r2}
    Requests = {q1}
    Users = {u1, u2}
    UserOf <- MCUserOf
    PageSize = 1
    Reported = {}
    Wanted = {"stopped"}
    Addresses = {p1, p2}
    Given = {p2}
    None = None
CHECK_DEADLOCK FALSE
CONSTRAINT Scene
INVARIANT AddressesAreOwn
PROPERTY DeliversWakes
PROPERTY DispatchEnds

SPECIFICATION FairSpec
CONSTANTS
    Requests = {c1, c2}
    Scopes = {k1}
    NoKey = NoKey
    Objectives = {o1, o2}
    Blank = Blank
    Starters = {"sfn", "resident", "lambda"}
    MaxAttempts = 2
INVARIANT LedgerSound
INVARIANT ExecutionsSound
INVARIANT AcceptedHasExecution
PROPERTY RowsKept
PROPERTY StartedRunsGetArn
PROPERTY DispatchSettles

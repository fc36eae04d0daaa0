\* Two attempts of one run, and two engagements of its user meanwhile.
CONSTANTS
    Attempts = 2
    Engagements = {x1, x2}
SPECIFICATION FairSpec
CHECK_DEADLOCK FALSE
INVARIANT OutcomeSound
PROPERTY LogSpec
PROPERTY AttemptsEnd

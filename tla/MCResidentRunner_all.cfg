SPECIFICATION FairSpec
CONSTANTS
    w1 = w1
    w2 = w2
    r1 = r1
    r2 = r2
    a1 = a1
    a2 = a2
    x1 = x1
    x2 = x2
    Wakes = {w1, w2}
    Engagements = {x1, x2}
    Runs = {r1, r2}
    WakeRun <- SameRun
    AgentIds = {a1, a2}
    DefaultAgents <- OneAgent
    Registrations = {g1}
    ArtifactIds = {f1}
    Outcomes <- AllOutcomes
    MaxRestarts = 1
CONSTRAINT Scene
INVARIANT LogSound
INVARIANT StatusBacked
INVARIANT HeartbeatEvidence
INVARIANT WakeOutcome
PROPERTY WakesEnd

SPECIFICATION HarnessSpec
CONSTANTS
  RunIds = {r1, r2}
  TaskFlags = {t1}
  NoFlag = NoFlag
  MaxAttempts = 2
INVARIANT PublishedAfterApproval
INVARIANT DirectoryAgrees
PROPERTY ScenarioEnds

CONSTANTS
    k1 = k1
    k2 = k2
    Agents = {k1, k2}
    Viewers = {v1, v2}
    Posts = {v2}
    ConnectHosts <- MCConnectHosts
    ApiHost = "preview"
    MaxStreams = 1
    MaxLives = 1
    None = None
SPECIFICATION FairSpec
CONSTRAINT Scene
CHECK_DEADLOCK FALSE
INVARIANT AnswersSound
PROPERTY RegistryFollows
PROPERTY ViewersAnswered

SPECIFICATION FairSpec
CONSTANTS
    Files = {f1}
    Remotes = {i1}
    Reqs = {r1}
    MaxSaves = 1
    MaxKeys = 2
    MaxSessions = 2
    MaxFails = 1
    None = None
INVARIANTS AnswerIsTrue  
PROPERTY FileMonitored
CHECK_DEADLOCK FALSE

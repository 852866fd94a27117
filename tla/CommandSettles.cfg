\* Every command settles: one handler, one session, one crash, the clock past the TTL.
CONSTANTS
    Commands = {c1}
    Users = {u1, u2}
    Requests = {r1}
    Sessions = {s1}
    None = None
    TTL = 1
    MaxAge = 1
    MaxSkew = 0
    Retention = 2
    Skew = 0
    MaxTime = 3
    MaxCrashes = 1
SPECIFICATION FairSpec
INVARIANT NoDoubleApply
PROPERTIES Settles AppliedInWindow
CHECK_DEADLOCK FALSE

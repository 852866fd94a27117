\* A settled command that changes state again: two decisions on one command.
CONSTANTS
    Commands = {c1}
    Users = {u1, u2}
    Requests = {r1, r2}
    Sessions = {s1}
    None = None
    TTL = 1
    MaxAge = 1
    MaxSkew = 0
    Retention = 2
    Skew = 0
    MaxTime = 0
    MaxCrashes = 0
SPECIFICATION Spec
CHECK_DEADLOCK FALSE
PROPERTY TerminalIsFinal

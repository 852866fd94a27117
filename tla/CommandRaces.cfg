\* Two handlers and a worker that comes back, no passing of time.
CONSTANTS
    Commands = {c1}
    Users = {u1, u2}
    Requests = {r1, r2}
    Sessions = {s1, s2}
    None = None
    TTL = 1
    MaxAge = 1
    MaxSkew = 0
    Retention = 2
    Skew = 0
    MaxTime = 0
    MaxCrashes = 1
SPECIFICATION Spec
SYMMETRY Symmetry
INVARIANT FourEyes
INVARIANT SucceededWasApplied
 
PROPERTY KeepsPromise
CHECK_DEADLOCK FALSE

\* Short and full batches, an outbox of one, two sessions that overlap and a crash.
CONSTANTS
    MaxId = 2
    Old = 1
    Window = 1
    Batch = 2
    MaxRows = 1
    j1 = j1
    j2 = j2
    Jobs = {j1, j2}
    JobOf <- TwoJobs
    Pollers = {p1}
    Sessions = {s1, s2}
    Crashes = 1
    None = None
SPECIFICATION FairSpec
CHECK_DEADLOCK FALSE
 
INVARIANT Accounted
INVARIANT NoRunUnreported
PROPERTY Arrives

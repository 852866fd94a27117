\* A DBA, every kind of command, a second job that a DBA or msdb creates, chunked
\* snapshots of two sessions.
CONSTANTS
    Jobs = {j1, j2}
    Defs = {d1, d2}
    Commands = {c1}
    Kinds = {"upsert", "toggle", "delete"}
    Sessions = {s1, s2}
    Present = {j1}
    FirstDef = d1
    None = None
    MaxEdits = 1
    Stalls = 0
SPECIFICATION Spec
SYMMETRY Symmetry
CHECK_DEADLOCK FALSE
INVARIANT Timeline
INVARIANT RemoteIsBacked
 
INVARIANT NoPhantomDelete
PROPERTY KeepsTimeline

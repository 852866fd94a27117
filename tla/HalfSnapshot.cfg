\* A snapshot that outlived SNAPSHOT_ABANDON_MS while its chunks were arriving.
CONSTANTS
    Jobs = {j1, j2}
    Defs = {d1, d2}
    Commands = {}
    Kinds = {"upsert"}
    Sessions = {s1, s2}
    Present = {j1, j2}
    FirstDef = d1
    None = None
    MaxEdits = 0
    Stalls = 1
SPECIFICATION Spec
CHECK_DEADLOCK FALSE
INVARIANT NoPhantomDelete

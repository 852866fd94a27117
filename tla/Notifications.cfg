\* One channel, one rule of two forms, two runs and a failed command, one fault and one edit.
CONSTANTS
    c1 = c1
    c2 = c2
    j1 = j1
    j2 = j2
    None = None
    Channels = {c1}
    Rules = {r1}
    Jobs = {j1}
    Gone = {j2}
    Home <- MCHome
    JobOf <- MCJobOf
    Forms <- MCForms
    Others <- MCOthers
    MaxRuns = 2
    MaxBatch = 2
    MaxAttempts = 2
    MaxWindow = 1
    MaxEdits = 1
    MaxFaults = 1
SPECIFICATION FairSpec
CHECK_DEADLOCK FALSE
INVARIANTS NoDuplicate RecordIsTrue 
PROPERTY Settles
 

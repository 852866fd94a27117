\* Three events, batches of two, two attempts, two faults.
CONSTANTS
    MaxEvents = 3
    BatchSize = 2
    MaxAttempts = 2
    MaxFaults = 2
SPECIFICATION FairSpec
CHECK_DEADLOCK FALSE
INVARIANTS  TwiceOnlyAfterFault
PROPERTY QueueDrains

SPECIFICATION Spec
CONSTANTS
    MaxSafe = 3
    Dates = {0, 1, 1500}
INVARIANTS Delivered SignedAsSent SameVersionVerifies
CHECK_DEADLOCK FALSE

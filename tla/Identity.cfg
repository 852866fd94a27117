\* Two installers with one token, renewals with three faults in all.
CONSTANTS
    Tokens = {t1}
    Installers = {e1, e2}
    MaxSessions = 5
    MaxKeys = 6
    MaxFails = 3
    MaxDue = 1
    None = None
SPECIFICATION FairSpec
CHECK_DEADLOCK FALSE
INVARIANTS TokenOnce PairMatches  
 

SPECIFICATION FairSpec
CONSTANTS
    Backup = {b1}
    OnSuccess = {u1, u2}
    OnFailure = {u1}
    OnDaily = {u2}
    MaxFaults = 2
INVARIANT SuccessRanToTheEnd
PROPERTIES EndIsMailed StartedIsReported
CHECK_DEADLOCK FALSE

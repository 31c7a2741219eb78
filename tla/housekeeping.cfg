SPECIFICATION Spec
CONSTANTS
    Chain = {1, 2}
    Recognised = {1, 2}
    MaxExtra = 2
INVARIANTS TypeOK KeptArchiveKeepsItsJob EntriesBelongToAJob
CHECK_DEADLOCK FALSE

SPECIFICATION FairSpec
CONSTANTS
    Chain = {1}
    Recognised = {1}
    MaxExtra = 3
PROPERTIES PrunedIsCleaned SizedInTheEnd
CHECK_DEADLOCK FALSE

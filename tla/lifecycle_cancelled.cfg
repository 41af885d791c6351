SPECIFICATION FairSpec
CONSTANTS
    e1 = e1
    e2 = e2
    Execution = {e1}
    Triggers = {"MANUAL"}
    MaxRetries = 1
    MaxFaults = 0
    Modes = {TRUE}
PROPERTY CancelledIsFinal
CHECK_DEADLOCK FALSE

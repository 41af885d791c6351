SPECIFICATION FairSpec
CONSTANTS
    e1 = e1
    e2 = e2
    Execution = {e1}
    Triggers = {"MANUAL", "WEBHOOK"}
    MaxRetries = 2
    MaxFaults = 2
    Modes = {FALSE}
PROPERTY EventuallySettled
CHECK_DEADLOCK FALSE

SPECIFICATION Spec
CONSTANTS
    e1 = e1
    e2 = e2
    Execution = {e1, e2}
    Triggers = {"MANUAL", "RETRY", "WEBHOOK", "SCHEDULED", "API"}
    MaxRetries = 1
    MaxFaults = 1
    Modes = {TRUE, FALSE}
INVARIANTS TypeOK NotLost CompletedIsBacked
PROPERTY RefinesRecord
SYMMETRY Interchangeable
CHECK_DEADLOCK FALSE

SPECIFICATION Spec
CONSTANTS
    Caller = {c1, c2, c3, c4}
    failure_threshold = 2
    recovery_timeout = 1
    half_open_max_calls = 2
    MaxTime = 7
    MaxFailures = 5
    MaxAbandons = 3
INVARIANT RunsIsolated
CHECK_DEADLOCK FALSE

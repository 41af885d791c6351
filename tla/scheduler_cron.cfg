SPECIFICATION Spec
CONSTANTS
    t1 = t1
    Schedule = {"c"}
    kind <- CronOnly
    period <- CronPeriod
    Draft = {}
    Ticker = {t1}
    LOOKAHEAD = 1
    MAX_PER_TICK = 2
    MaxErrors = 2
    MaxTime = 5
    MaxEdits = 0
    MaxFaults = 0
INVARIANT SlotOnce
CHECK_DEADLOCK FALSE

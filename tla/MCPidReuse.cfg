SPECIFICATION Spec
CONSTANTS
    MaxDay = 2
    RetentionDays = 1
    MaxSessions = 2
    MaxSamples = 1
    Columns = {1}
    Faults = {"pid"}
INVARIANTS
    DeathsReported
CHECK_DEADLOCK FALSE

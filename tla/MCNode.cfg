SPECIFICATION MCFairSpec
CONSTANTS
    LastStep = 5
    Recover = 3
    MaxFailures = 0
    Faults = {"restart"}
    Scripts = {timer}
    Models = {m1, m2}
    Default = m1
    Swaps = TRUE
    MaxDeaths = 3
    Readings = {1, 2, 3}
    Fails = TRUE
    MaxDay = 3
    RetentionDays = 1
    MaxSessions = 3
    MaxSamples = 1
    Columns = {1, 2}
INVARIANTS
    HeatAnswered
    WindowExact
    RecorderIsRight
PROPERTIES
    RaisesWithCare
    NodeRecovers
CHECK_DEADLOCK FALSE

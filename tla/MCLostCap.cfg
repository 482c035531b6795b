SPECIFICATION FairSpec
CONSTANTS
    LastStep = 5
    Recover = 3
    MaxFailures = 1
    Faults = {"apply"}
PROPERTIES
    HotIsCapped

SPECIFICATION Spec
CONSTANTS
    LastStep = 5
    Recover = 3
    MaxFailures = 0
    Faults = {"blind"}
PROPERTIES
    RaisesOnlyCool

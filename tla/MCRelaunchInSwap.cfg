SPECIFICATION Spec
CONSTANTS
    Scripts = {timer}
    Models = {m1, m2}
    Default = m1
    Swaps = TRUE
    MaxDeaths = 1
    Faults = {"die"}
PROPERTIES
    RelaunchesLoaded

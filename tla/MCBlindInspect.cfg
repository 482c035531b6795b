SPECIFICATION Spec
CONSTANTS
    Scripts = {timer}
    Models = {m1, m2}
    Default = m1
    Swaps = FALSE
    MaxDeaths = 0
    Faults = {"docker"}
PROPERTIES
    CompleteLeftAlone

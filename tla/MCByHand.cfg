SPECIFICATION Spec
CONSTANTS
    Scripts = {timer, hand}
    Models = {m1, m2}
    Default = m1
    Swaps = FALSE
    MaxDeaths = 1
    Faults = {"die"}
PROPERTIES
    CompleteLeftAlone

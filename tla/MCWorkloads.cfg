SPECIFICATION MCFairSpec
CONSTANTS
    a = a
    b = b
    c = c
    Names = {a, b, c}
    ProfileOrder <- Overlapping
    Need <- Sizes
    Vram = 4
    Backend = "docker"
    LargeRam = FALSE
    Faults = {"create", "late", "exit", "nvml", "nogpu"}
    MaxCrashes = 1
INVARIANTS
    OthersAreDown
    MemoryHolds
PROPERTIES
    PausedKeepsWeights
    EverySwapEnds

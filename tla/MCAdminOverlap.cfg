SPECIFICATION OneHostSpec
CONSTANTS
    a = a
    b = b
    c = c
    Names = {a, b, c}
    ProfileOrder <- Overlapping
    Need <- Sizes
    Vram = 4
    Backend = "docker"
    LargeRam = FALSE
    Faults = {"late", "overlap"}
    MaxCrashes = 0
INVARIANTS
    OthersDown

SPECIFICATION MCSpec
CONSTANTS
    r1 = r1
    r2 = r2
    r3 = r3
    s1 = s1
    s2 = s2
    s3 = s3
    Requests = {r1, r2, r3}
    SwapTasks = {s1, s2, s3}
    Admins = {adm}
    Profiles = {A, B}
    Ray = {A}
    NoProfile = NoProfile
    NoTask = NoTask
    limit = 2
    Faults = {"giveup", "fail", "late", "ray"}
SYMMETRY RequestSymmetry
INVARIANTS
    WaitsForOwnSwap
    NoRedundantSwap
PROPERTIES
    InferenceUndisturbed

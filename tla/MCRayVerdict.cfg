SPECIFICATION Spec
CONSTANTS
    Requests = {r1, r2}
    SwapTasks = {s1, s2}
    Admins = {}
    Profiles = {A, B}
    Ray = {A}
    NoProfile = NoProfile
    NoTask = NoTask
    limit = 2
    Faults = {"ray"}
INVARIANTS
    RayVerdictIsOwn

SPECIFICATION Spec
CONSTANTS
    Requests = {r1, r2}
    SwapTasks = {s1, s2}
    Admins = {}
    Profiles = {A, B}
    Ray = {}
    NoProfile = NoProfile
    NoTask = NoTask
    limit = 2
    Faults = {"giveup"}
PROPERTIES
    GroupFinishes

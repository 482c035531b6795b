SPECIFICATION Spec
CONSTANTS
    r1 = r1
    r2 = r2
    r3 = r3
    r4 = r4
    r5 = r5
    p1 = p1
    p2 = p2
    Requests = {r1, r2, r3, r4, r5}
    Profiles = {p1, p2}
    NoProfile = NoProfile
    limit = 2
    max_waiting = 3
SYMMETRY BothSymmetries
INVARIANTS
    TypeOK
    SlotAccounting
    OneProfileAtATime
    SlotCoversBackend
    NoLostWakeup
    QueueEntries
    PromoteIsTheLoop
PROPERTIES
    StrictFIFO
    DrainBeforeSwitch
    ImplementsGroupLock

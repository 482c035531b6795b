SPECIFICATION MCSpec
CONSTANTS
    Exchanges = {1, 2}
    CONNECT_RETRIES = 3
    Chunks = 2
    Restarts = {"request", "admin", "keepalive"}
    Requests = {r1, r2, r3}
    Drains = {d1, d2}
    MAX_QUEUE_SIZE = 2
    Texts = {t1, t2}
    NoText = NoText
    MaxMessages = 2
    max_entries = 3
    Callers = {c1}
    Hints <- NestedTexts
    Menus <- Nested
INVARIANTS
    NoReplay
    NobodyForgotten
    CacheIsLRU
    RoutesRight

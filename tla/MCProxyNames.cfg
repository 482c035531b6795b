SPECIFICATION Spec
CONSTANTS
    Exchanges = {1}
    CONNECT_RETRIES = 3
    Chunks = 2
    Restarts = {"admin"}
INVARIANTS
    CacheIsTrue

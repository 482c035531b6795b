SPECIFICATION FairSpec
CONSTANTS
    Exchanges = {1, 2}
    CONNECT_RETRIES = 3
    Chunks = 2
    Restarts = {"request", "admin", "keepalive"}
INVARIANTS
    TypeOK
PROPERTIES
    ExchangeEnds

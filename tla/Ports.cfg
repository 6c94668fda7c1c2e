\* Two ports, five racing requests, restarts; the web form only adds enabled
\* ports; closing a listener waits for its connections (Python 3.12).
CONSTANTS
    p1 = p1
    p2 = p2
    c1 = c1
    c2 = c2
    Port <- TwoPorts
    Cfg <- TwoCfgs
    Yaml <- ConfiguredPort
    AddEnable = {TRUE}
    WaitsForConnections = TRUE
    MaxRequests = 5
    MaxBoots = 3
    MaxConns = 1
SPECIFICATION FairSpec
INVARIANTS
    TypeOK
    QuiescentAgreement
    LastRequestWins
PROPERTIES
    RuntimeRowsKept
    ShutdownKeepsRows
    LockIsFreed
\* The service may be stopped for good.
CHECK_DEADLOCK FALSE

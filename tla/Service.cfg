\* Two listeners with a connection each, a queue of one, three events: handlers
\* emit while the other listener is being closed, the queue fills, a store
\* fails, the process dies and is started again.
CONSTANTS
    p1 = p1
    p2 = p2
    c1 = c1
    c2 = c2
    Port <- TwoPorts
    Conn <- TwoConns
    PortOf <- OnePortEach
    WaitsForConnections = TRUE
    MaxSize = 1
    MaxEvents = 3
    MaxBoots = 2
SPECIFICATION FairSpec
INVARIANTS
    TypeOK
    EverythingAnswered
PROPERTIES
    ShutdownCompletes
\* The service may be stopped for good.
CHECK_DEADLOCK FALSE

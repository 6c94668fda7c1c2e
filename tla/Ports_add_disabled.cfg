\* The JSON API can add a port that is not enabled, over one that listens.
CONSTANTS
    p1 = p1
    p2 = p2
    c1 = c1
    c2 = c2
    Port <- OnePort
    Cfg <- OneCfg
    Yaml <- ConfiguredPort
    AddEnable = {TRUE, FALSE}
    WaitsForConnections = TRUE
    MaxRequests = 2
    MaxBoots = 1
    MaxConns = 1
SPECIFICATION Spec
INVARIANT ListenerMatchesRow
CHECK_DEADLOCK FALSE

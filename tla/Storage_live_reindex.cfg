\* As Storage.cfg, with stores that never fail and a service that stays up:
\* only the rebuild beside it is left.
CONSTANTS
    i1 = i1
    i2 = i2
    p1 = p1
    d1 = d1
    d2 = d2
    c1 = c1
    none = none
    NoCred = none
    MaxEvents = 4
    Ip <- TwoIps
    Port <- OnePort
    Day <- TwoDays
    Cred <- OneCred
    Type <- MCType
    SrcIp <- MCSrcIp
    DstPort <- MCDstPort
    DayOf <- MCDayOf
    Credential <- MCCredential
    MaxBoots = 1
    MaxRebuilds = 1
    MaxFailures = 0
SPECIFICATION Spec
INVARIANTS
    LiveRebuildIsExact
\* The service may be stopped for good.
CHECK_DEADLOCK FALSE

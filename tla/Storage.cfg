\* Four events, two of them with the same credential; two failed writes, two
\* starts of the service, two rebuilds, beside it or not.
CONSTANTS
    i1 = i1
    i2 = i2
    p1 = p1
    d1 = d1
    d2 = d2
    c1 = c1
    none = none
    NoCred = none
    MaxEvents = 4
    Ip <- TwoIps
    Port <- OnePort
    Day <- TwoDays
    Cred <- OneCred
    Type <- MCType
    SrcIp <- MCSrcIp
    DstPort <- MCDstPort
    DayOf <- MCDayOf
    Credential <- MCCredential
    MaxBoots = 2
    MaxRebuilds = 2
    MaxFailures = 2
SPECIFICATION Spec
INVARIANTS
    TypeOK
    RebuildIsExact
    
    DamageIsBounded
\* The service may be stopped for good.
CHECK_DEADLOCK FALSE

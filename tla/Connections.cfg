\* A budget of three in all and two per address, so that each of them is the
\* one that turns a connection away.
CONSTANTS
    a1 = a1
    a2 = a2
    a3 = a3
    b1 = b1
    b2 = b2
    ipA = ipA
    ipB = ipB
    Conn <- FiveConns
    Ip <- Ips
    IpOf <- FiveSources
    MaxGlobal = 3
    MaxPerIp = 2
SPECIFICATION FairSpec
INVARIANTS
    TypeOK
    SlotsBalance
PROPERTIES
    PoolSpec
    EveryConnectionEnds

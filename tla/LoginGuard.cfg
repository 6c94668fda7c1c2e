\* Two addresses, bans of two ticks after two failures, time for three bans.
CONSTANTS
    ipA = ipA
    ipB = ipB
    Ip <- TwoIps
    MaxFailures = 2
    BanTime = 2
    MaxTime = 6
    MaxGuesses = 7
SYMMETRY Addresses
SPECIFICATION GuardSpec
INVARIANTS
    GuardTypeOK
    RateLimit
    BanIsEarned

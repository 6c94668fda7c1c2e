\* Every client of MCProxySession against every configuration, its bytes cut
\* into chunks in every way and its connection failing at every read and reply.
CONSTANTS
    Streams <- AllStreams
    MaxHeader = 8
SPECIFICATION FairSpec
INVARIANTS
    TypeOK
    SegmentationIrrelevant
    RecordedBeforeVerdict
    NeverOpen
    OneEnding
PROPERTIES
    EverySessionEnds
\* A session ends.
CHECK_DEADLOCK FALSE

\* A queue of two, five events, one restart: the queue fills while the worker
\* is busy, both stores can fail, the process can die and start again.
CONSTANTS
    MaxSize = 2
    MaxEvents = 5
    MaxBoots = 2
SPECIFICATION FairSpec
INVARIANTS
    TypeOK
    Accounting
    LedgerInOrder
    RowsInLedger
    DrainOnStop
PROPERTIES
    LedgerSpec
    QueueMoves
\* The service may be stopped for good.
CHECK_DEADLOCK FALSE

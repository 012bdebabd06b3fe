\* Two workers to stop, two callers of Sync.  Without symmetry; nobody relies on
\* the ticker.
SPECIFICATION FairSpec
CONSTANTS
    Producers = {p1, p2}
    Syncers = {c1, c2}
    Objs = {e1, e2}
    NoEntry = NoEntry
    NoRecord = NoRecord
    NShards = 2
    Cap = 1
    BatchCap = 1
    MaxLogs = 1
    UsePool = FALSE
    Panicking <- NonePanics

INVARIANTS
    SyncDeliversEarlierLogs
PROPERTIES
    QueuedIsHandled
    SyncReturns

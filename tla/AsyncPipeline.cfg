\* One worker, two producers of two calls each, two callers of Sync: full shard,
\* pool reuse, batches of two, records whose handling panics.
SPECIFICATION Spec
CONSTANTS
    Producers = {p1, p2}
    Syncers = {c1, c2}
    Objs = {e1, e2, e3, e4}
    NoEntry = NoEntry
    NoRecord = NoRecord
    NShards = 1
    Cap = 2
    BatchCap = 2
    MaxLogs = 2
    UsePool = TRUE
    Panicking <- FirstPanics
SYMMETRY Symmetry
INVARIANTS
    EntryOwnership
    HandledExactlyOnce
    ShardOrder
    NoLostWakeup
PROPERTIES
    ImplementsService

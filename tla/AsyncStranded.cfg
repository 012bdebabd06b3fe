\* The smallest race between one call of log() and Sync.
SPECIFICATION Spec
CONSTANTS
    Producers = {p1}
    Syncers = {c1}
    Objs = {e1}
    NoEntry = NoEntry
    NoRecord = NoRecord
    NShards = 1
    Cap = 1
    BatchCap = 1
    MaxLogs = 1
    UsePool = TRUE
    Panicking <- NonePanics

INVARIANTS
    NoStrandedEntry

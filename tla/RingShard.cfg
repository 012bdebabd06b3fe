\* Four slots, so that the counters go round the array more than twice; buffer
\* sizes at both sides of the powers of two, for one to 32 workers.
SPECIFICATION MCSpec
CONSTANTS
    Entries = {e1, e2}
    Nil = Nil
    Cap = 4
    BatchSizes = {1, 3, 5}
    MaxTail = 9
    BufferSizes <- EdgeSizes
    Cpus = {1, 2, 3, 5, 7, 8, 12, 17, 24, 31, 64}
    Multipliers = {0, 1, 2}
INVARIANTS
    LiveSlots
    CapacityFits
PROPERTIES
    ImplementsQueue

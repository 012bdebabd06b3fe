\* A line crosses the end of the buffer.
SPECIFICATION Spec
CONSTANTS
    Writers = {w1, w2}
    Nobody = nobody
    MaxWrites = 2
    LineLens = {1, 2}
    Size = 3
    Threshold = 3
    MaxFaults = 0
    Faults = {}
INVARIANT
    EveryRecordWhole

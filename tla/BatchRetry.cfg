\* One failure of the underlying writer.
SPECIFICATION Spec
CONSTANTS
    Writers = {w1, w2}
    Nobody = nobody
    MaxWrites = 2
    LineLens = {1, 2}
    Size = 3
    Threshold = 3
    MaxFaults = 1
    Faults = {"error"}
INVARIANT
    NextWriteRetries

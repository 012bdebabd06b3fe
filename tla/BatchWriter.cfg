\* Two writers, the timer and Close; the buffer is as large as its threshold, as
\* with any batch_size of 64 or more.  Lines fit, cross the end of the buffer, or
\* are longer than it; the underlying writer fails or panics, after any part.
SPECIFICATION FairSpec
CONSTANTS
    Writers = {w1, w2}
    Nobody = nobody
    MaxWrites = 2
    LineLens = {1, 2, 5}
    Size = 4
    Threshold = 4
    MaxFaults = 2
    Faults = {"error", "panic"}
INVARIANTS
    WholeLines
    AckedInStream
    CloseDelivers
    WholeRecordsPerWrite
PROPERTIES
    ImplementsStream
    BufferedIsWritten

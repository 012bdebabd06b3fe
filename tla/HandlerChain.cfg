\* A worker with two records and a producer with one; both formats, with and
\* without async.enabled and a console of another format; an output of the
\* caller's that may panic; errors and panics anywhere, two in a run.
SPECIFICATION FairSpec
CONSTANTS
    worker = worker
    producer = producer
    Workers = {worker}
    Producers = {producer}
    Nobody = nobody
    Configs <- SixConfigs
    Batch = 2
    MaxRecords <- TwoAndOne
    MaxFaults = 2
INVARIANTS
    NilMeansKept
    SyncNilMeansWritten
    OutputsAgree
    NothingFailsByItself
PROPERTIES
    ChainReturns

\* A flush that fails after AfterWrite.
SPECIFICATION Spec
CONSTANTS
    worker = worker
    producer = producer
    Workers = {worker}
    Producers = {producer}
    Nobody = nobody
    Configs <- SixConfigs
    Batch = 2
    MaxRecords <- TwoAndOne
    MaxFaults = 2
INVARIANT
    AfterWriteIsTold

\* Two goroutines, one failure of the network.
SPECIFICATION Spec
CONSTANTS
    Writers = {w1, w2}
    Nobody = nobody
    Retry = 2
    Lines = 1
    Types = {"tcp"}
    MaxWrites = 1
    MaxFaults = 1
    MaxStalls = 0
PROPERTY
    FailsOnlyWithNetwork

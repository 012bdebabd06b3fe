\* One Write after Close.
SPECIFICATION Spec
CONSTANTS
    Writers = {w1}
    Nobody = nobody
    Retry = 0
    Lines = 1
    Types = {"tcp"}
    MaxWrites = 1
    MaxFaults = 0
    MaxStalls = 0
INVARIANT
    ClosedForGood

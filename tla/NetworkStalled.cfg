\* The remote side stops reading once.
SPECIFICATION FairSpec
CONSTANTS
    Writers = {w1}
    Nobody = nobody
    Retry = 1
    Lines = 1
    Types = {"tcp"}
    MaxWrites = 1
    MaxFaults = 0
    MaxStalls = 1
PROPERTY
    WriteReturns

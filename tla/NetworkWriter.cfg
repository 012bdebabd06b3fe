\* Two goroutines write, over TCP, UDP or HTTP, while Sync closes the connection;
\* dials are refused, sends fail, and a connection stalls.
SPECIFICATION FairSpec
CONSTANTS
    Writers = {w1, w2}
    Nobody = nobody
    Retry = 1
    Lines = 2
    Types = {"tcp", "udp", "http"}
    MaxWrites = 1
    MaxFaults = 2
    MaxStalls = 1
INVARIANTS
    NoConnectionLeaked
PROPERTIES
    ImplementsDelivery
    AloneFailsOnlyWithNetwork
    WriteReturnsUnlessStalled

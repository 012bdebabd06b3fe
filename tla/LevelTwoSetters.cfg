\* Two goroutines change the level at the same time.
SPECIFICATION Spec
CONSTANTS
    Setters = {s1, s2}
    Producers = {p1}
    Inputs = {"debug", "error"}
    LogLevels = {0}
    Async = TRUE
    Splits = {TRUE}
    MainReads = "level"
    ConsoleReads = "levelVar"
    MaxSets = 1
    MaxLogs = 1
INVARIANT
    OneLevel

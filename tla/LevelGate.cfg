\* Two goroutines change the level while another logs; with one handler, which
\* is not asked for the level, or two.  Records are handled after their calls
\* have returned.
SPECIFICATION Spec
CONSTANTS
    Setters = {s1, s2}
    Producers = {p1}
    Inputs = {"error", "bogus"}
    LogLevels <- DebugError
    Async = TRUE
    Splits = {TRUE, FALSE}
    MainReads = "level"
    ConsoleReads = "levelVar"
    MaxSets = 2
    MaxLogs = 2
INVARIANTS
    EnabledIsWritten
    DisabledIsFiltered

\* Two goroutines; the record of one window is counted in the next.
SPECIFICATION Spec
CONSTANTS
    Goroutines = {g1, g2}
    Initial = 2
    Thereafter = 0
    Tick = 2
    MaxTime = 4
    MaxRecords = 5
INVARIANT
    FirstOfWindowKept

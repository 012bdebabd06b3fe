\* Two goroutines, alone and at once, across the ends of windows.
SPECIFICATION Spec
SYMMETRY Symmetry
CONSTANTS
    Goroutines = {g1, g2}
    Initial = 2
    Thereafter = 4
    Tick = 2
    MaxTime = 4
    MaxRecords = 6
INVARIANTS
    OverAdmissionBounded
    ExactWhenSequential
PROPERTY
    WindowAdvances

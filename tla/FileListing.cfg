\* Two rotations within one tick of the clock.
SPECIFICATION Spec
CONSTANTS
    Configs <- NoBackups
    Lens = {1, 2}
    Base = base
    Foreign = {}
    MaxWrites = 2
    MaxClock = 0
    MaxFaults = 0
    MaxRestarts = 0
INVARIANT
    ListedOldestFirst

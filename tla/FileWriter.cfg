\* Rotation by size or by both size and time; failures, a crash or restart.
SPECIFICATION Spec
CONSTANTS
    Configs <- ByBoth
    Lens = {1, 2}
    Base = base
    Foreign = {}
    MaxWrites = 4
    MaxClock = 2
    MaxFaults = 2
    MaxRestarts = 1
INVARIANTS
    NothingOverwritten
    SizeTracked
    SizeBounded
    BackupsBounded
    OldestGoFirst

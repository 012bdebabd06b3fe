\* The directory holds a file of another logger.
SPECIFICATION Spec
CONSTANTS
    Configs <- OneBackup
    Lens = {1, 2}
    Base = base
    Foreign <- ErrorLog
    MaxWrites = 3
    MaxClock = 1
    MaxFaults = 0
    MaxRestarts = 0
INVARIANT
    OnlyOwnBackupsRemoved

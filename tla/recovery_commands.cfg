SPECIFICATION FairSpec
CONSTANTS
    recorder = recorder
    backup = backup
    None = None
    Order <- MCOrder
    Enabled <- Services
    Guarded <- MCGuarded
    Unresumed <- MCUnresumed
    Backups <- MCBackups
INVARIANT TypeOK
PROPERTIES RepairHonoursCommands BackoffSurvives OnlyOrphansRestart StopEnds ComesBack

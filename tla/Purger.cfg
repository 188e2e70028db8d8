CONSTANTS
    Days = {0, 1}
    DelayTurns = 2
    Wake = 6
    ZipEvery = 2
    Batch = 2
    SubDirs = 2
    MaxPause = 2
    MaxRecords = 5
    MaxChanges = 2
    MaxElapsed = 7
SPECIFICATION FairSpec
INVARIANTS
    TypeOK
    ChangeIsNoticed
    OneRecordAfterCallback
    PauseWithinTarget
PROPERTIES
    ChangeTakesEffect

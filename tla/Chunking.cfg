\* Short documents under every setting.
CONSTANTS
    Documents <- MCDocuments
    Settings <- MCSettings
    LastPosition = 7
    LargestSize = 4
SPECIFICATION Spec
INVARIANTS
    TypeOK
    NothingIsLost
    ChunksAreWindows
PROPERTY
    EveryStepAdvances

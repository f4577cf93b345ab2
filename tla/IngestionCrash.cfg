\* Does a file always get out of processing?
CONSTANTS
    Files = {"contract"}
    Reprocesses = {"again"}
    Outages = FALSE
    MaxCrashes = 1
SPECIFICATION FairSpec
PROPERTY
    StatusSettlesDespiteCrash

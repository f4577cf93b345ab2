\* One file, its upload and two requests to reprocess it, one crash.  Files
\* share nothing but the crash, so one of them shows what happens to each.
CONSTANTS
    Files = {"contract"}
    Reprocesses = {"again", "once more"}
    Outages = TRUE
    MaxCrashes = 1
SPECIFICATION FairSpec
INVARIANTS
    TypeOK
    CompletedIsSearchable
    PromisedWorkHasAJob
    BytesMatchRows
PROPERTIES
    ChunksStayUntilDeletion
    ImplementsFileLife
    StatusSettles

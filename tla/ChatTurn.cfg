\* Two chat turns against deletions and a crash.
CONSTANTS
    sales = sales
    stock = stock
    first = first
    second = second
    Requests = {first, second}
    Conns = {sales, stock}
    ConnectionLists <- MCConnectionLists
    Convs = {talk}
    Files = {contract}
    Selections <- MCSelections
    TopK = 1
    Deleted = Deleted
SPECIFICATION FairSpec
INVARIANTS
    TypeOK
    NoHalfTurns
    AuditTellsTurn
    NoDanglingReferences
    SelectedSourcesAreAsked
PROPERTIES
    EveryRequestEnds
    ImplementsTurnLog

\* Does everything that took effect in a customer database get a record?
CONSTANTS
    sales = sales
    stock = stock
    first = first
    second = second
    Requests = {first, second}
    Conns = {sales, stock}
    ConnectionLists <- MCConnectionLists
    Convs = {talk}
    Files = {contract}
    Selections <- MCSelections
    TopK = 1
    Deleted = Deleted
SPECIFICATION Spec
INVARIANT
    EveryExecutionAudited

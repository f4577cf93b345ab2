\* Is a generated answer always reported?
CONSTANTS
    sales = sales
    stock = stock
    first = first
    second = second
    Requests = {first, second}
    Conns = {sales, stock}
    ConnectionLists <- MCConnectionLists
    Convs = {talk}
    Files = {contract}
    Selections <- MCSelections
    TopK = 1
    Deleted = Deleted
SPECIFICATION Spec
PROPERTY
    GeneratedAnswerReported

CONSTANTS
    Studied = {w1, w2}
    Env = env
    None = none
    Analyzed = {"a", "b", "c"}
    Owners <- MCOwners
    Reader = "reader"
    PageLimit = 1
    RowThreads = {"request", "order"}
    MaxVersion = 3
SPECIFICATION Spec
INVARIANTS
    TypesOK
    BooksBalance
    RowsKept
    MessagesTrue
PROPERTIES
    CrossesTraded
    LevelsKept
    StudiesHonest
    ClientsOwn
CHECK_DEADLOCK FALSE

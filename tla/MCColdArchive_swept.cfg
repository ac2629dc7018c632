SPECIFICATION Spec
CONSTANTS
    Orders <- MCOrders
    Transactions <- MCTransactions
    Old <- MCOld
    PageSize = 2
    MaxVersion = 2
    u1 = u1
    u2 = u2
    Requests = {u1, u2}
    Worlds <- GivenUp
INVARIANT NothingLost

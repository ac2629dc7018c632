SPECIFICATION FairSpec
CONSTANTS
    N = 3
    SafetyOrders = {"so1"}
    Worlds <- Stranded
INVARIANT Covered
CHECK_DEADLOCK FALSE

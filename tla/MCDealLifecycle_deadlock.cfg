SPECIFICATION FairSpec
CONSTANTS
    N = 3
    SafetyOrders = {"so1"}
    Worlds <- Deadlock
PROPERTY CallsReturn
CHECK_DEADLOCK FALSE

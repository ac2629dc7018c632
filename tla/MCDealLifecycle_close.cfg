SPECIFICATION FairSpec
CONSTANTS
    N = 3
    SafetyOrders = {"so1"}
    Worlds <- PassWorlds
INVARIANTS TypeOK BookedOnce NeverOversold WithinMax CoveredOnceOpen
PROPERTIES StopEndsStarts CallsReturn LimitStops
CHECK_DEADLOCK FALSE

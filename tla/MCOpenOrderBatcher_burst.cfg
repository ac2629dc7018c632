SPECIFICATION FairSpec
CONSTANTS
    N = 5
    Resends = 1
    MaxChunk = 2
    None = None
    first = first
    second = second
    Bursts <- MCBursts
    BurstOf <- MCBurstOf
    Worlds <- MCWorlds
INVARIANTS TypeOK VenueAgrees OneAtATime
PROPERTIES BurstReturns
CHECK_DEADLOCK FALSE

SPECIFICATION FairSpec
CONSTANTS
    Sections = {d1, d2}
    NoOne = NoOne
    Legs <- MCLegs
    Balances <- MCBalances
    Worlds <- Account
INVARIANTS
    TypeOK
    Solvent
PROPERTIES
    TradedOnce
    LeaseKept
    EveryDealDecided
    LockFreed

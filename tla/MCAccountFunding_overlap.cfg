SPECIFICATION Spec
CONSTANTS
    Sections = {d1, d2}
    NoOne = NoOne
    Legs <- MCLegs
    Balances <- MCBalances
    Worlds <- Overlapping
INVARIANT
    Solvent

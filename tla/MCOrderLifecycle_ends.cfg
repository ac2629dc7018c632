SPECIFICATION FairSpec
CONSTANTS
  Size = 1
  Objs <- Objs5
  Cancelers = {c1}
  MaxAttempts = 1
  Worlds <- FairWorlds
INVARIANTS KeptUnlessCancelled
PROPERTIES PlacementEnds CancelEnds

SPECIFICATION Spec
CONSTANTS
  Size = 2
  Objs <- Objs5
  Cancelers = {c1}
  MaxAttempts = 2
  Worlds <- SafetyWorlds
INVARIANTS TypeOK NoOrphan NoLostFill NoWriteOffInFlight RefusedIsRetired
PROPERTIES ExecutedGrows FilledIsFinal

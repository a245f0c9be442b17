SPECIFICATION FairSpec
CONSTANTS
  p1 = p1
  p2 = p2
  CMC_MAX_SHOTS = 2
  Positions <- TwoPositions
  Loaded <- Tables
  PULSE_CYCLES = 2
  Bounds <- SomeBounds
INVARIANTS ShotsInv ShotHasPrecedence
PROPERTIES ArrivalIsReal SilentStickStops MoveEnds

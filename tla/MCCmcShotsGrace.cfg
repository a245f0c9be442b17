SPECIFICATION Spec
CONSTANTS
  p1 = p1
  p2 = p2
  CMC_MAX_SHOTS = 2
  Positions <- TwoPositions
  Loaded <- Stored
  PULSE_CYCLES = 3
  Bounds <- NoTrouble
PROPERTIES GraceSuffices

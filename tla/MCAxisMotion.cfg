SPECIFICATION FairSpec
CONSTANTS
  Modes = {"OFF", "PROFILE_POSITION"}
  Targets = {t1, t2}
  BootTarget = t1
  PulseCycles = 2
  Eager = FALSE
  Bounds <- SomeBounds
INVARIANTS SetupInv
PROPERTIES
  SetupBeforeTrigger OneMovePerRequest QuickStopAbandonsMove
  QuickStopStops SetupConverges StartIsServed

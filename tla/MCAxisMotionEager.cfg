SPECIFICATION Spec
CONSTANTS
  Modes = {"OFF", "PROFILE_POSITION"}
  Targets = {t1, t2}
  BootTarget = t1
  PulseCycles = 2
  Eager = TRUE
  Bounds <- EagerBounds
PROPERTIES SetupBeforeTrigger

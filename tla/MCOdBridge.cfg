SPECIFICATION Spec
CONSTANTS
  Tools = {"a", "b"}
  MotorEntries = {"limit"}
  CmcEntries = {"mode"}
  Values = {v1, v2}
  Writer <- AWrites
  TELEMETRY_BATCH_MAX = 2
  Subscriptions <- Wishes
  Maps = {0, 1}
  RETRANSMIT_TRIES = 2
  RxBuffer = 2
  Budgets <- Bounds
INVARIANTS BridgeInv ConfirmedWriteHolds DatagramIsUniform
PROPERTIES OneFate
SYMMETRY Symmetry

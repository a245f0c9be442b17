SPECIFICATION Spec
CONSTANTS
  PROXY_SLOT_COUNT = 2
  LimitValues = {v1, v2}
  Overruns = {"home", "save"}
  MaxRequests = 2
  MaxTrouble = 1
INVARIANTS ClientsInv LimitsKept
PROPERTIES SaveIsComplete HomeMeansHomed
SYMMETRY Symmetry

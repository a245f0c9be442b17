CONSTANTS
  Clients = {c1, c2}
  Objects = {o1}
  Values = {v1, v2}
  Unknown = unknown
  Commands = {k1}
  SeqMod = 5
  HandleHalf = 2
  Timeout = 1
  MaxGap = 2
  MaxDelay = 3
SPECIFICATION FairSpec
INVARIANTS PipelineInv AckedIsStored ReadIsCurrent
PROPERTIES CyclicFollowsOd EveryRequestEnds ImplementsOdService

SPECIFICATION FairSpec
CONSTANTS
  CMC_CONTROLLERS = 2
  Unreachable = {}
  OpenFails = TRUE
  PollFirst = TRUE
  MaxTrouble = 3
INVARIANTS OutboundInv OwnerIsWatched
PROPERTIES SelectionEndsRightly PollsAnswered GoneOwnerLosesCamera

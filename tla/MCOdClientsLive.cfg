SPECIFICATION FairSpec
CONSTANTS
  PROXY_SLOT_COUNT = 2
  LimitValues = {v1}
  Overruns = {}
  MaxRequests = 1
  MaxTrouble = 1
PROPERTIES SlotReleased EveryLimitIsSent SequencesEnd

SPECIFICATION FairSpec
CONSTANTS
  MaxReq = 2
  MaxId = 1
  MAX_RETRANSMIT = 2
  EchoIds = {}
  Faults = {}
PROPERTIES EveryRequestEnds StopBeforeTestEndsLoop

SPECIFICATION FairSpec
CONSTANTS
  MaxReq = 1
  MaxId = 2
  MAX_RETRANSMIT = 2
  EchoIds = {}
  Faults = {}
PROPERTY StopEndsLoop

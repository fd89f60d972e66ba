SPECIFICATION Spec
CONSTANTS
  MaxReq = 2
  MaxId = 2
  MAX_RETRANSMIT = 2
  EchoIds = {1}
  Faults = {"duplicate", "malformed"}
INVARIANTS TypeOK NoDanglingEntry PendingIffQueued OneResult DoneMeansReceived TimeoutMeansExhausted
PROPERTIES SilentAfterResult ImplementsConfirmable

SPECIFICATION Spec
CONSTANTS
  Parts <- MCParts
  PortWords <- MCPortWords
INVARIANTS NothingPassedOver
CHECK_DEADLOCK FALSE

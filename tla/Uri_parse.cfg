SPECIFICATION ReqSpec
CONSTANTS
  Parts <- MCParts
  PortWords <- MCPortWords
  Sent <- MCSent
  Extras <- MCExtras
  Ids = {65280}
  CharByte <- MCCharByte
  PortNumber <- MCPortNumber
INVARIANTS OptionsFit OptionsAreBeginning PlainIsParsed AddressAgrees OptionsArrive NumbersArrive
PROPERTIES ParseAdvances
CHECK_DEADLOCK FALSE

SPECIFICATION Spec
CONSTANTS
  Messages <- ShortMessages
  WriteSizes = {20, 1024}
  ReadSizes = {12, 16, 20, 1024}
  Junk = {0}
INVARIANTS SizeIsExact ShortRoundTrip CutKeepsBeginning
CHECK_DEADLOCK FALSE

SPECIFICATION Spec
CONSTANTS
  Messages <- LongMessages
  WriteSizes = {1024}
  ReadSizes = {1024}
  Junk = {0, 256}
INVARIANTS RoundTrip
CHECK_DEADLOCK FALSE

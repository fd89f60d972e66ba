SPECIFICATION FairSpec
CONSTANTS
  Platforms = {"posix", "win32"}
  Calls = {"recvfrom", "sendto", "recv", "send", "accept", "connect"}
  Timeouts <- MCTimeouts
  MaxClock = 6
  MaxReady = 1
  Troubles = 2
INVARIANTS WaitsKeepToTimeout DoneMeansMoved
PROPERTIES TimeoutIsHonest CallReturns
CHECK_DEADLOCK FALSE

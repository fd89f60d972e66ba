SPECIFICATION FairSpec
CONSTANTS
  Lines <- MCLines
  Number <- MCNumber
  UriPort <- MCUriPort
  MAX_RETRANSMIT = 2
  Duplicates = 1
INVARIANTS OneReportPerUri AnswersShownOnce CrashesExplained
PROPERTIES NothingLeftBehind ProgramEnds
CHECK_DEADLOCK FALSE

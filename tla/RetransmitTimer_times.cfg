SPECIFICATION FairSpec
CONSTANTS
  AckMin = 2
  AckMax = 3
  MAX_RETRANSMIT = 4
  Pass = 2
CHECK_DEADLOCK FALSE
INVARIANTS BackoffRespected GivesUpInTime SpanFollowsTimeout NeverOverdue
PROPERTIES EntryEnds

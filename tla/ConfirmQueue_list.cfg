SPECIFICATION FairSpec
CONSTANTS
  Node = {n1, n2, n3}
  Null = Null
  MsgId = {1, 2}
INVARIANTS TypeOK LinksAgree AllReachable WalkMissesNothing
PROPERTIES ImplementsMsgQueue FreeEmpties

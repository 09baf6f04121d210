CONSTANTS
  Peers <- MCPeers
  Commands <- MCCommands
  RX_QUEUE_SIZE = 2
  MaxOpens = 3
  MaxCommands = 3
SPECIFICATION FairSpec
INVARIANTS
  TypeOK
  FollowsCommands
  LinkSettles
PROPERTIES
  SteersTheRightWay
  Obeyed
CHECK_DEADLOCK FALSE

SPECIFICATION FairSpec
CONSTANTS
  Appenders = {a1}
  Conns = {c1, c2}
  NoConn = NoConn
  Capacity = 1
  MaxSeq = 2
PROPERTY SubscribeReturns
CHECK_DEADLOCK FALSE

SPECIFICATION FairSpec
CONSTANTS
  Appenders = {a1}
  Conns = {c1, c2}
  NoConn = NoConn
  Capacity = 2
  MaxSeq = 4
PROPERTIES ImplementsEventFeed EventuallyDelivered ShortHistoryReturns
CHECK_DEADLOCK FALSE

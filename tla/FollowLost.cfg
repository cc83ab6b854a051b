SPECIFICATION FairSpec
CONSTANTS
  Conns = {c1, c2}
  Runs = {r1}
  Other = Other
  Nobody = Nobody
  MaxLines = 2
PROPERTY SubscribersFollowed
CHECK_DEADLOCK FALSE

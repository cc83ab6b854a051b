SPECIFICATION FairSpec
CONSTANTS
  Conns = {c1, c2}
  Runs = {r1}
  Other = Other
  Nobody = Nobody
  MaxLines = 3
INVARIANTS TypeOK OneFollower FollowedInOrder
PROPERTY FollowerDelivers
CHECK_DEADLOCK FALSE

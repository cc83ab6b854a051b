SPECIFICATION Spec
CONSTANTS
  Appenders = {a1, a2}
  Conns = {c1, c2}
  NoConn = NoConn
  Capacity = 2
  MaxSeq = 3
SYMMETRY Symmetry
INVARIANTS TypeOK ExactlyOnce BacklogInOrder
CHECK_DEADLOCK FALSE

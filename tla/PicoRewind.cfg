SPECIFICATION Spec
CONSTANTS
  Callers = {p1}
  MaxFile = 2
  MaxLength = 3
INVARIANT SeqNeverReused
CHECK_DEADLOCK FALSE

SPECIFICATION Spec
CONSTANTS
  Callers = {p1, p2}
  Nobody = Nobody
INVARIANT CallsSound
CHECK_DEADLOCK FALSE

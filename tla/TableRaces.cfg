SPECIFICATION Spec
CONSTANTS
  Callers = {p1, p2, p3}
  Nobody = Nobody
SYMMETRY Symmetry
INVARIANTS TypeOK NoResurrection LateCallsRefused DeletedOnce
PROPERTY NeverReplaced
CHECK_DEADLOCK FALSE

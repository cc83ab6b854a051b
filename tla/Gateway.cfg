SPECIFICATION Spec
CONSTANTS
  Callers = {p1, p2}
  MaxFile = 2
  MaxLength = 3
  Metas = {v1, v2}
  NoMeta = NoMeta
  Unknown = Unknown
SYMMETRY Symmetry
INVARIANTS TypeOK NoResurrection SavedIsKept NothingLeft
PROPERTY SyncForward
CHECK_DEADLOCK FALSE

SPECIFICATION Spec
CONSTANTS
  Runs = {r1, r2}
  Watchers = {w1, w2}
  Messages = {m1}
  Identified = {m1}
  Deleters = {d1}
  MaxLapses = 1
  NoWatcher = NoWatcher
  NoMessage = NoMessage
INVARIANTS TypeOK ActiveRunsExact AnsweredUnlessDeadline NotTwice OneDonePerTTL OneWatcher SettlesIdle
SYMMETRY Symmetry
CHECK_DEADLOCK FALSE

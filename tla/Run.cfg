SPECIFICATION FairSpec
CONSTANTS
  r1 = r1
  r2 = r2
  Runs <- MCRuns
  Keys = {k1}
  NoKey = NoKey
  NoRun = NoRun
  MaxLines <- MCLines
INVARIANTS TypeOK ActiveRunsExact RunningWhileActive OneAnswerPerRun IdleMeansAnswered OneRunPerKey
PROPERTY EveryRunFinishes
CHECK_DEADLOCK FALSE

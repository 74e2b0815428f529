SPECIFICATION Spec
CONSTANTS
  Scenes = {1, 2}
  Workers = {w1}
  Attempts = 2
  MaxStalledCount = 1
  MaxRuns = 2
  FaultBudget = 0
  NoWorker = NoWorker
INVARIANT OneActiveRun
CHECK_DEADLOCK FALSE

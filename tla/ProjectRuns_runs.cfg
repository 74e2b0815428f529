SPECIFICATION MCSpec
CONSTANTS
  Scenes = {1, 2}
  Workers = {w1}
  Attempts = 2
  MaxStalledCount = 1
  MaxRuns = 2
  FaultBudget = 2
  RunsWithFaults = 1
  LaterScenes = 1
  NoWorker = NoWorker
INVARIANTS RunsAreSound
PROPERTIES RunsEnd
CHECK_DEADLOCK FALSE

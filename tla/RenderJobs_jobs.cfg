SPECIFICATION Spec
CONSTANTS
  Jobs = {j1, j2}
  ImageJobs = {j1}
  Pollers = {p1}
  Workers = {w1, w2}
  BatchSize = 1
  Attempts = 2
  MaxStalledCount = 1
  FaultBudget = 1
  NoJob = NoJob
  NoWorker = NoWorker
INVARIANTS JobsAreSound
PROPERTIES KeepsPromise EveryJobEnds
CHECK_DEADLOCK FALSE

SPECIFICATION Spec
CONSTANTS
  Events = {e1, e2}
  SceneEvents = {e1}
  Workers = {w1, w2}
  Passes = {p1, p2}
  Attempts = 2
  BatchSize = 1
  MaxStalledCount = 1
  FaultBudget = 1
  NoEvent = NoEvent
  NoWorker = NoWorker
INVARIANTS OutcomeIsEarned NoOverlapWithoutFaults
PROPERTIES KeepsPromise EventuallySettled
CHECK_DEADLOCK FALSE

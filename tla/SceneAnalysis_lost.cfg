SPECIFICATION Spec
CONSTANTS
  a = a
  b = b
  Texts = {a, b}
  Contents <- NeverEmpty
  Workers = {w1}
  Kinds = {"alert"}
  Attempts = 1
  MaxEvents = 3
  MaxSaves = 3
  FaultBudget = 0
  NoWorker = NoWorker
INVARIANTS ClearedMeansExtracted
CHECK_DEADLOCK FALSE

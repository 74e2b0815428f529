SPECIFICATION Spec
CONSTANTS
  a = a
  b = b
  Texts = {a, b}
  Contents <- TwoChunks
  Workers = {w1}
  Kinds = {"alert", "state", "entity", "relationship"}
  Attempts = 2
  MaxEvents = 2
  MaxSaves = 2
  FaultBudget = 1
  NoWorker = NoWorker
INVARIANTS OnlyOverlapLosesText AlertsQuoteCurrentText WorkIsNotForgotten
PROPERTIES QuietRunSettles
CHECK_DEADLOCK FALSE

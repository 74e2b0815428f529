SPECIFICATION Spec
CONSTANTS
  Versions = {v1, v2}
  Proposals = {p1, p2}
  Requests = {q}
  Evidence = {a}
  None = None
  LastScene = 2
  Windows <- HandWindows
SYMMETRY Symmetry
VIEW View
INVARIANTS VersionsAreSound
PROPERTIES EndedStaysEnded
CHECK_DEADLOCK FALSE

SPECIFICATION Spec
CONSTANTS
  Scenes = {s1, s2}
  Names = {n}
  Entities = {e1, e2}
  Proposals = {p1, p2}
  Requests = {q1, q2}
  None = None
  MaxChunks = 2
  MaxRemoved = 1
SYMMETRY Symmetry
VIEW View
INVARIANTS TwinsNeedARace ProposalsAreBacked
CHECK_DEADLOCK FALSE

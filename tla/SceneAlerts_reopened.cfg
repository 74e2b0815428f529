\* One scene whose contradicting paragraphs move down by one.
CONSTANTS
  a = a
  b = b
  x = x
  Contents <- MCContents
  Value <- MCValue
  GroupSize = 3
  MaxSaves = 1
  MaxVerdicts = 1

SPECIFICATION CheckedSpec
INVARIANT DetectedAgainIsOpen
CHECK_DEADLOCK FALSE

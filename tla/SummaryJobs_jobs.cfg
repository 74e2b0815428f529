\* One scene and its chapter, two jobs, both slots of the worker, one save and one
\* fault or invalidation.
SPECIFICATION MCSpec
CONSTANTS
  Scenes = {s1}
  Texts = {a}
  Empty = Empty
  Authors = {r1}
  Workers = {w1, w2}
  Attempts = 2
  MaxJobs = 2
  MaxSaves = 1
  Disturbances = 1
  Chapter = Chapter
  NoWorker = NoWorker
SYMMETRY Symmetry
INVARIANTS JobsAreSound
PROPERTIES StoresAreEarned
\* Requests, jobs and writes are bounded: the end of the bound is not a deadlock.
CHECK_DEADLOCK FALSE

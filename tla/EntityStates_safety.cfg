\* One standard attribute of one entity over three scenes.
SPECIFICATION StatesSpec
CONSTANTS
  NumScenes = 3
  Keys = {"status"}
  SingleValue = {"status"}
  Values = {"a", "b"}
  Proposed <- TwoSteps
  Conflicts <- OneConflict
  Edits <- TwoEdits
  Deletable = {3}
  MaxRows = 3
  MaxBusyRows = 1
VIEW WithoutStep
INVARIANTS RowsAreSound
PROPERTIES StepsRespectTheAuthor

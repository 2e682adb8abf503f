SPECIFICATION Spec
CONSTANTS
  History = 2
  Sources = {0, 1}
  Results = {0, 1}
  Opened <- MCOpened
  MaxCells = 2
  MaxEdits = 3
  MaxCalls = 1
INVARIANTS UniqueIds  CleanIsSaved
PROPERTIES UndoIsALine
CHECK_DEADLOCK FALSE

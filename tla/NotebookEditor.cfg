SPECIFICATION EditorSpec
CONSTANTS
  History = 2
  Sources = {0, 1}
  Results = {0, 1, 2, 3}
  Opened <- MCOpened
  MaxCells = 3
  MaxEvents = 3
  MaxRuns = 2
INVARIANTS DeletesOnlyShown
PROPERTIES  RunAllEnds
CHECK_DEADLOCK FALSE

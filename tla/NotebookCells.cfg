SPECIFICATION Spec
CONSTANTS
  ForeignIds = {0, 1}
  MaxCells = 3
  MaxSteps = 2
INVARIANTS UniqueIds  StoredIsLegal ReopenShowsTheSame

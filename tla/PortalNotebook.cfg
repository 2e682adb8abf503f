SPECIFICATION FairSpec
CONSTANTS
  Cells = {1, 2}
  Runtimes = {1, 2}
  MaxEdits = 1
  MaxSaves = 2
  MaxRuns = 2
  MaxStops = 1
  MaxOutputs = 1
  MaxFaults = 1
INVARIANTS CleanIsStored OutputsWithTheirSource LiveIsStoppable
PROPERTIES RunEnds
CHECK_DEADLOCK FALSE

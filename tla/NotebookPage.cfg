SPECIFICATION FairSpec
CONSTANTS
  Notebooks = {1, 2, 3}
  Stored = {1}
  MaxChanges = 2
  MaxCalls = 2
  MaxFaults = 1
INVARIANTS StaysInItsNotebook SavedIsTrue NoSelfConflict
 
CHECK_DEADLOCK FALSE

SPECIFICATION Spec
CONSTANTS
  Executions = {1, 2}
  Script <- MCScript
  MaxFaults = 2
INVARIANTS  BusyIsTrue 
PROPERTIES ExecutionsEnd
CHECK_DEADLOCK FALSE

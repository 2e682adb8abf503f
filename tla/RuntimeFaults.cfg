\* Two request threads, one restart of the service, every provider fault.
SPECIFICATION Spec
CONSTANTS
  Users = {u1}
  Runtimes = {r1, r2}
  Threads = {t1, t2}
  NoUser = NoUser
  NoRuntime = NoRuntime
  MaxCrashes = 1
  Faults = {"create", "terminate", "container"}
SYMMETRY Symmetry
INVARIANTS CreatedOnce ReadyIsKept StopIsFinal
PROPERTIES NothingTakenBack

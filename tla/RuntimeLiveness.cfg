\* Fair threads; creations may fail and containers may die.
SPECIFICATION FairSpec
CONSTANTS
  Users = {u1}
  Runtimes = {r1}
  Threads = {t1, t2, t3}
  NoUser = NoUser
  NoRuntime = NoRuntime
  MaxCrashes = 0
  Faults = {"create", "container"}
PROPERTIES RequestedIsSettled StoppingEnds RequestsAnswered ClosedIsRemoved

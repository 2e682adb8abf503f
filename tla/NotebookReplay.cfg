SPECIFICATION Spec
CONSTANTS
  Notebooks = {n1, n2}
  Contents = {a, b}
  Keys = {k1}
  Default = default
  Threads = {t1, t2}
  NoNotebook = noNotebook
  NoContent = noContent
  NoKey = noKey
  NoWrite = noWrite
  MaxRevision = 2
  MaxCrashes = 1
  Faults = {"database", "power"}
SYMMETRY Symmetry
INVARIANTS RepeatsAreReplayed
PROPERTIES ImplementsStore

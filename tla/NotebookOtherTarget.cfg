SPECIFICATION Spec
CONSTANTS
  Notebooks = {n1, n2}
  Contents = {a, b}
  Keys = {k1, k2}
  Default = default
  Threads = {t1, t2}
  NoNotebook = noNotebook
  NoContent = noContent
  NoKey = noKey
  NoWrite = noWrite
  MaxRevision = 2
  MaxCrashes = 0
  Faults = {}
SYMMETRY Symmetry
INVARIANTS AnswersNameTarget

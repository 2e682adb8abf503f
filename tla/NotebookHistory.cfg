SPECIFICATION Spec
CONSTANTS
  Notebooks = {n1}
  Contents = {a, b}
  Keys = {k1, k2}
  Default = default
  Threads = {t1, t2}
  NoNotebook = noNotebook
  NoContent = noContent
  NoKey = noKey
  NoWrite = noWrite
  MaxRevision = 3
  MaxCrashes = 1
  Faults = {"blob", "sync"}
SYMMETRY Symmetry
INVARIANTS BlobsPresent AnswersStand NoLostUpdate

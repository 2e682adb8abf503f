\* Requests may fail before or after Jupyter acted, and be cancelled at any await.
SPECIFICATION FairSpec
CONSTANTS
  Notebooks = {n1}
  Kernels = {k1, k2, k3}
  Tasks = {t1, t2, t3}
  Guards = {g1, g2}
  NoNotebook = noNotebook
  NoKernel = noKernel
  NoGuard = noGuard
  Faults = {"upstream", "cancel"}
INVARIANTS OneKernelPerNotebook MappedIsAlive GuardsAreCounted
PROPERTIES WaitersAreServed

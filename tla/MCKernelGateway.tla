---------------------------- MODULE MCKernelGateway ----------------------------
(***************************************************************************)
(* Instances of KernelGateway for TLC.  Ids and tasks are interchangeable. *)
(***************************************************************************)
EXTENDS KernelGateway, TLC

Symmetry ==
  Permutations(Notebooks) \cup Permutations(Kernels) \cup Permutations(Tasks)
    \cup Permutations(Guards)

==============================================================================

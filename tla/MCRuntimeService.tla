--------------------------- MODULE MCRuntimeService ---------------------------
(* Instances of RuntimeService for TLC. *)
EXTENDS RuntimeService, TLC

\* Users, runtime ids and threads are interchangeable in safety runs.
Symmetry == Permutations(Users) \cup Permutations(Runtimes) \cup Permutations(Threads)

==============================================================================

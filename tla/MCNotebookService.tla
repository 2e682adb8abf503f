--------------------------- MODULE MCNotebookService ---------------------------
(***************************************************************************)
(* Instances of NotebookService for TLC.  Ids, documents, keys and threads *)
(* are interchangeable.                                                    *)
(***************************************************************************)
EXTENDS NotebookService, TLC

Symmetry ==
  Permutations(Notebooks) \cup Permutations(Contents) \cup Permutations(Keys)
    \cup Permutations(Threads)

==============================================================================

--------------------------- MODULE MCNotebookPage ---------------------------
(* Small instances of NotebookPage for TLC.                                 *)
EXTENDS NotebookPage

=============================================================================

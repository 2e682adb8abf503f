--------------------------- MODULE MCNotebookCells --------------------------
(* Small instances of NotebookCells for TLC.                                *)
EXTENDS NotebookCells

=============================================================================

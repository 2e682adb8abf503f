------------------------- MODULE MCNotebookController -------------------------
(* A code cell and a circuit are opened. *)
EXTENDS NotebookController

MCOpened ==
  [meta |-> FALSE,
   cells |-> <<[id |-> 1, type |-> "code", mark |-> FALSE, src |-> 0, count |-> 0, out |-> 0],
               [id |-> 2, type |-> "code", mark |-> TRUE, src |-> 0, count |-> 0, out |-> 0]>>]
=============================================================================

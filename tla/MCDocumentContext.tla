-------------------------- MODULE MCDocumentContext --------------------------
(* One circuit is opened. *)
EXTENDS DocumentContext

MCOpened ==
  [meta |-> FALSE,
   cells |-> <<[id |-> 1, type |-> "code", mark |-> TRUE, src |-> 0, count |-> 0, out |-> 0]>>]
=============================================================================

--------------------------- MODULE MCKernelSession ---------------------------
(* Two executions: one updates a display and clears, the other is silent. *)
EXTENDS KernelSession, TLC

Display(i, n) == [type |-> "display", id |-> i, tag |-> n]
Update(i, n) == [type |-> "update", id |-> i, tag |-> n]
MCScript ==
  (1 :> <<Display(1, 1), [type |-> "clearWait"], Display(1, 2), Update(1, 3)>>)
    @@ (2 :> <<>>)
=============================================================================

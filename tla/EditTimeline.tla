----------------------------- MODULE EditTimeline -----------------------------
(***************************************************************************)
(* What undo and redo promise: the states of a document form a line, edits  *)
(* cut it after the present one and extend it, undo and redo only walk      *)
(* along it, and the oldest states fall off beyond Limit.  Loading another  *)
(* document starts a new line.                                              *)
(***************************************************************************)
EXTENDS Integers, Sequences

CONSTANT Limit
VARIABLES timeline, \* the documents, oldest first
          here      \* the position of the one that is shown

Init == Len(timeline) = 1 /\ here = 1

Edit == /\ here' = IF here > Limit THEN here ELSE here + 1
        /\ Len(timeline') = here'
        /\ \A i \in 1..here' - 1 : timeline'[i] = timeline[i + here + 1 - here']
Undo == here > 1 /\ here' = here - 1 /\ UNCHANGED timeline
Redo == here < Len(timeline) /\ here' = here + 1 /\ UNCHANGED timeline
Load == Len(timeline') = 1 /\ here' = 1

Next == Edit \/ Undo \/ Redo \/ Load

Spec == Init /\ [][Next]_<<timeline, here>>
=============================================================================

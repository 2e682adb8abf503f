---------------------------- MODULE OpenNotebook ----------------------------
(***************************************************************************)
(* An open notebook of the SDK: one NotebookModel, made from the document   *)
(* that was read.  DocumentContext and NotebookController say what the two  *)
(* sides that hold it do with it: the file and the other editors on one     *)
(* side, the user on the other.                                             *)
(***************************************************************************)
EXTENDS NotebookDocument

CONSTANTS Opened,  \* the document that is opened
          MaxCells \* bounds the cells of the notebook

\* What is opened is as nbformat wants it: no two cells share an id (parseNotebook
\* takes the ids as they are), and only code cells carry results.
ASSUME OpenedAssumption ==
  /\ Opened \in Documents(1..Len(Opened.cells))
  /\ \A i, j \in DOMAIN Opened.cells : i # j => Opened.cells[i].id # Opened.cells[j].id
  /\ \A i \in DOMAIN Opened.cells :
       Opened.cells[i].type = "markdown" =>
         Opened.cells[i].count = Absent /\ Opened.cells[i].out = Absent

VARIABLES model, \* the NotebookModel
          fresh  \* the next cell id

\* A model that was just made; its ids are below the next one.
Open == model = Fresh(Opened) /\ fresh = Len(Opened.cells) + 1
=============================================================================

-------------------------- MODULE NotebookDocument --------------------------
(***************************************************************************)
(* The document of the notebook SDK (frontend/packages/notebook, class      *)
(* NotebookModel) as a value, and its operations as operators on it: cells, *)
(* the undo and redo stacks, the dirty flag.  Raw cells behave as markdown  *)
(* cells and are left out; sources and results are members of small sets.   *)
(***************************************************************************)
EXTENDS Integers, Sequences, FiniteSets, SequencesExt

CONSTANTS History, \* how many documents the undo stack keeps (100 in the code)
          Sources, \* texts of a cell
          Results  \* execution counts and outputs; 0 is "none yet"

ASSUME DocumentAssumption == /\ History \in Nat \ {0}
                             /\ 0 \in Sources /\ 0 \in Results
                             /\ Results \subseteq Nat

Absent == -1
Kinds == {"code", "markdown", "circuit"}

\* A cell in memory.  "circuit" is lumenType, "mark" the entry
\* metadata.lumen.cell_type = "circuit" that stands for it in a file.
Cells(Ids) == [id: Ids, type: {"code", "markdown"}, circuit: BOOLEAN, mark: BOOLEAN,
               src: Sources, count: Results \union {Absent}, out: Results \union {Absent}]

\* A cell as nbformat writes it: lumenType is not part of it.
FileCells(Ids) == [id: Ids, type: {"code", "markdown"}, mark: BOOLEAN, src: Sources,
                   count: Results \union {Absent}, out: Results \union {Absent}]
Documents(Ids) == [meta: BOOLEAN, cells: Seq(FileCells(Ids))]

NewCell(id, kind, src) ==
  LET runs == kind # "markdown"
      none == IF runs THEN 0 ELSE Absent
  IN [id |-> id, type |-> IF runs THEN "code" ELSE "markdown",
      circuit |-> kind = "circuit", mark |-> kind = "circuit",
      src |-> src, count |-> none, out |-> none]

\* parseNotebook: the mark makes a cell a circuit, whatever its type says.
ParseCell(f) == [id |-> f.id, type |-> f.type, circuit |-> f.mark, mark |-> f.mark,
                 src |-> f.src, count |-> f.count, out |-> f.out]
Parse(doc) == [i \in DOMAIN doc.cells |-> ParseCell(doc.cells[i])]

\* toJSON: a circuit is written as a marked code cell, but results are written
\* by the type the cell had before that.
FileCell(c) ==
  LET written(v) == IF c.type # "code" THEN Absent ELSE IF v = Absent THEN 0 ELSE v
  IN [id |-> c.id, type |-> IF c.circuit THEN "code" ELSE c.type,
      mark |-> c.mark \/ c.circuit, src |-> c.src,
      count |-> written(c.count), out |-> written(c.out)]
ToJSON(m) == [meta |-> m.meta, cells |-> [i \in DOMAIN m.cells |-> FileCell(m.cells[i])]]

Fresh(doc) == [cells |-> Parse(doc), meta |-> doc.meta, undo |-> <<>>, redo |-> <<>>,
               dirty |-> FALSE]

HasCell(m, id) == \E i \in DOMAIN m.cells : m.cells[i].id = id
\* findIndex: the position of the first cell with that id, 0 when there is none.
At(m, id) == SelectInSeq(m.cells, LAMBDA c : c.id = id)
CellOf(m, id) == m.cells[At(m, id)]
IdsOf(m) == {m.cells[i].id : i \in DOMAIN m.cells}

-----------------------------------------------------------------------------
\* Wrong: an edit leaves what was undone before it on the redo stack.
RecordedForgetful(m) ==
  LET pushed == Append(m.undo, ToJSON(m))
  IN [m EXCEPT !.undo = IF Len(pushed) > History THEN Tail(pushed) ELSE pushed]
\* recordHistory: every edit first pushes the document as it was, forgets what
\* was undone, and drops the oldest document over the limit.
Recorded(m) ==
  LET pushed == Append(m.undo, ToJSON(m))
  IN [m EXCEPT !.undo = IF Len(pushed) > History THEN Tail(pushed) ELSE pushed,
               !.redo = <<>>]

\* Every edit ends in markChanged.
WithCells(m, cells) == [Recorded(m) EXCEPT !.cells = cells, !.dirty = TRUE]

InsertCell(m, index, cell) == WithCells(m, InsertAt(m.cells, index, cell))
\* Wrong: a copy keeps the id of its original.
InsertCopySame(m, index, cell, id) == InsertCell(m, index, cell)
\* insertCellValue: a copy under an id of its own.
InsertCopy(m, index, cell, id) == InsertCell(m, index, [cell EXCEPT !.id = id])
DeleteCell(m, id) == IF HasCell(m, id) THEN WithCells(m, RemoveAt(m.cells, At(m, id))) ELSE m
MoveCell(m, id, to) ==
  IF HasCell(m, id) /\ to \in DOMAIN m.cells
  THEN WithCells(m, InsertAt(RemoveAt(m.cells, At(m, id)), to, CellOf(m, id)))
  ELSE m

SetCell(m, id, cell) == WithCells(m, ReplaceAt(m.cells, At(m, id), cell))
UpdateSource(m, id, src) ==
  IF CellOf(m, id).src = src THEN m ELSE SetCell(m, id, [CellOf(m, id) EXCEPT !.src = src])
UpdateExecutionCount(m, id, count) ==
  IF CellOf(m, id).count = count THEN m ELSE SetCell(m, id, [CellOf(m, id) EXCEPT !.count = count])
\* The outputs are cloned, so they are never the ones the cell has: always an edit.
UpdateOutputs(m, id, out) == SetCell(m, id, [CellOf(m, id) EXCEPT !.out = out])
\* changeCellType: a new cell under the old id; source and metadata, the mark of
\* a circuit included, are carried over.
ChangeCellType(m, id, kind) ==
  IF HasCell(m, id)
  THEN SetCell(m, id, [NewCell(id, kind, CellOf(m, id).src) EXCEPT !.mark = CellOf(m, id).mark])
  ELSE m
SetMetadata(m, meta) == [Recorded(m) EXCEPT !.meta = meta, !.dirty = TRUE]

\* applyDocument installs a parsed document.
Apply(m, doc, dirty) == [m EXCEPT !.cells = Parse(doc), !.meta = doc.meta, !.dirty = dirty]
Undo(m) ==
  IF m.undo = <<>> THEN m
  ELSE [Apply(m, Last(m.undo), TRUE) EXCEPT !.undo = Front(m.undo), !.redo = Append(@, ToJSON(m))]
Redo(m) ==
  IF m.redo = <<>> THEN m
  ELSE [Apply(m, Last(m.redo), TRUE) EXCEPT !.redo = Front(m.redo), !.undo = Append(@, ToJSON(m))]
FromJSON(m, doc) == [Apply(m, doc, FALSE) EXCEPT !.undo = <<>>, !.redo = <<>>]

Models(Ids) == [cells: Seq(Cells(Ids)), meta: BOOLEAN, undo: Seq(Documents(Ids)),
                redo: Seq(Documents(Ids)), dirty: BOOLEAN]

-----------------------------------------------------------------------------
\* What the editor shows of a document: it renders model.snapshot(), the parse
\* of toJSON(), so a marked cell is a circuit and missing results are empty.
ShownCell(f) ==
  LET given(v) == IF v = Absent THEN 0 ELSE v
  IN [id |-> f.id, kind |-> IF f.mark THEN "circuit" ELSE f.type, src |-> f.src,
      count |-> given(f.count), out |-> given(f.out)]
Shown(doc) == [meta |-> doc.meta, cells |-> [i \in DOMAIN doc.cells |-> ShownCell(doc.cells[i])]]

\* A code cell of a file carries its results, if only empty ones.
LegalFile(doc) == \A i \in DOMAIN doc.cells :
                    doc.cells[i].type = "code" => doc.cells[i].out # Absent
=============================================================================

--------------------------- MODULE NotebookCells ----------------------------
(***************************************************************************)
(* The cells of a notebook on their way between the three forms the page    *)
(* keeps them in: the file the server stores, the page's own cells          *)
(* (frontend/src/lib/notebookModel.ts) and the editor's model (the SDK's    *)
(* NotebookModel).  The page changes its own cells and rebuilds the editor  *)
(* from them; the editor changes its cells and the page reads them back.    *)
(* Raw cells behave as markdown cells and are left out, sources go along    *)
(* with the ids, all results of one kind are alike.                         *)
(***************************************************************************)
EXTENDS Integers, Sequences, FiniteSets, SequencesExt

CONSTANTS ForeignIds, \* ids an imported file may use; 0 stands for an invalid one
          MaxCells,   \* bound: cells of a notebook
          MaxSteps    \* bound: changes to the cells

ASSUME CellsAssumption ==
  /\ ForeignIds \subseteq Nat /\ MaxCells \in Nat \ {0} /\ MaxSteps \in Nat
  /\ \E highest \in ForeignIds : \A other \in ForeignIds : other <= highest

VARIABLES stored,   \* the file at the server
          notebook, \* the page's cells
          editor,   \* the cells of the editor's model
          saved,    \* is the editor's document the one that was saved last?
          dragId,   \* the cell being dragged, as a set of at most one id
          fresh,    \* the last id given
          steps     \* changes so far, for the bound

vars == <<stored, notebook, editor, saved, dragId, fresh, steps>>

Labels == {"", "named"}
Outputs == {"absent", "none", "result", "update"}
Kinds == {"code", "markdown", "circuit"}
\* metadata.lumen of a cell.
Lumens == [label: Labels, new: BOOLEAN, circuit: BOOLEAN]
Plain == [label |-> "", new |-> FALSE, circuit |-> FALSE]

Highest == CHOOSE id \in ForeignIds : \A other \in ForeignIds : other <= id
Ids == 0..(Highest + 2 + MaxSteps)
FileCells == [id: Ids, type: {"code", "markdown"}, lumen: Lumens, out: Outputs]
PageCells == [id: Ids, type: Kinds, lumen: Lumens, out: Outputs, label: Labels, new: BOOLEAN]
EditorCells == [id: Ids, type: {"code", "markdown"}, lumen: Lumens, out: Outputs,
                circuit: BOOLEAN]

IdsOf(cells) == {cells[i].id : i \in DOMAIN cells}
At(cells, id) == SelectInSeq(cells, LAMBDA c : c.id = id)
\* filter: the cells with another id, in their order.
Without(cells, id) ==
  LET others == {i \in DOMAIN cells : cells[i].id # id}
      before(i) == Cardinality({j \in others : j < i})
  IN [n \in 1..Cardinality(others) |-> cells[CHOOSE i \in others : before(i) = n - 1]]

-----------------------------------------------------------------------------
(* frontend/src/lib/notebookModel.ts                                        *)

\* createCell
CreateCell(id, type, empty) ==
  [id |-> id, type |-> type, lumen |-> Plain, label |-> "", new |-> empty,
   out |-> IF type = "markdown" THEN "absent" ELSE "none"]

\* normalizeCell: the mark of a circuit goes before the type of the cell.
NormalizeCell(f) ==
  LET type == IF f.lumen.circuit THEN "circuit" ELSE f.type
      given == IF f.out = "absent" THEN "none" ELSE f.out
  IN [id |-> f.id, type |-> type, lumen |-> f.lumen, label |-> f.lumen.label,
      new |-> f.lumen.new, out |-> IF type = "markdown" THEN "absent" ELSE given]

\* fromJSON: a file without cells becomes a notebook with one.
FromJSON(file, id) ==
  IF file = <<>> THEN <<CreateCell(id, "code", TRUE)>>
  ELSE [i \in DOMAIN file |-> NormalizeCell(file[i])]

\* Wrong: the wire's update_display_data is written as it is.
SerializeOutputRaw(out) == out
\* serializeOutput: update_display_data is stored as display_data.
SerializeOutput(out) == IF out = "update" THEN "result" ELSE out

\* Wrong: the entry of a circuit is not written.
SerializeCellUnmarked(c) ==
  [id |-> c.id, type |-> IF c.type = "circuit" THEN "code" ELSE c.type,
   lumen |-> [label |-> IF c.label = "" THEN c.lumen.label ELSE c.label,
              new |-> c.new \/ c.lumen.new, circuit |-> FALSE],
   out |-> IF c.type = "markdown" THEN "absent" ELSE SerializeOutput(c.out)]
\* toJSON of a cell: what metadata.lumen held before stays when nothing replaces it.
SerializeCell(c) ==
  [id |-> c.id, type |-> IF c.type = "circuit" THEN "code" ELSE c.type,
   lumen |-> [label |-> IF c.label = "" THEN c.lumen.label ELSE c.label,
              new |-> c.new \/ c.lumen.new,
              circuit |-> c.type = "circuit" \/ c.lumen.circuit],
   out |-> IF c.type = "markdown" THEN "absent" ELSE SerializeOutput(c.out)]
ToJSON(cells) == [i \in DOMAIN cells |-> SerializeCell(cells[i])]

\* Wrong: an id that was used before is kept.
ImportCellsKept(cells, id) ==
  [i \in DOMAIN cells |-> [cells[i] EXCEPT !.new = FALSE,
                             !.id = IF cells[i].id = 0 THEN id + i ELSE @]]
\* importNotebook: invalid and repeated ids are replaced, cells are not new.
ImportCells(cells, id) ==
  LET used(i) == \E j \in 1..(i - 1) : cells[j].id = cells[i].id
  IN [i \in DOMAIN cells |-> [cells[i] EXCEPT !.new = FALSE,
                                !.id = IF @ = 0 \/ used(i) THEN id + i ELSE @]]

-----------------------------------------------------------------------------
(* frontend/packages: parseNotebook and NotebookModel.toJSON                *)

EditorParse(file) ==
  [i \in DOMAIN file |->
     [id |-> file[i].id, type |-> file[i].type, lumen |-> file[i].lumen,
      out |-> file[i].out, circuit |-> file[i].lumen.circuit]]
EditorToJSON(cells) ==
  [i \in DOMAIN cells |->
     LET c == cells[i]
     IN [id |-> c.id, type |-> IF c.circuit THEN "code" ELSE c.type,
         lumen |-> [c.lumen EXCEPT !.circuit = @ \/ c.circuit],
         out |-> IF c.type # "code" THEN "absent" ELSE IF c.out = "absent" THEN "none" ELSE c.out]]

-----------------------------------------------------------------------------
(* The page: +page.svelte                                                   *)

Step == steps < MaxSteps /\ steps' = steps + 1

\* A change to the page's cells, refreshEditorFromNotebook() and changed().
PageCellsBecome(cells) ==
  /\ Step
  /\ notebook' = cells
  /\ editor' = EditorParse(ToJSON(cells))
  /\ saved' = FALSE
  /\ UNCHANGED stored

\* commitRename of a cell: an empty name is no name.
RenameCell(id, label) ==
  /\ PageCellsBecome([i \in DOMAIN notebook |->
                        IF notebook[i].id = id THEN [notebook[i] EXCEPT !.label = label]
                        ELSE notebook[i]])
  /\ UNCHANGED <<dragId, fresh>>

DuplicateCell(id) ==
  /\ Len(notebook) < MaxCells
  /\ PageCellsBecome(InsertAt(notebook, At(notebook, id) + 1,
                              [notebook[At(notebook, id)] EXCEPT !.id = fresh + 1]))
  /\ fresh' = fresh + 1 /\ UNCHANGED dragId

\* deleteCell, and cutCell after it copied the source: the only cell is replaced.
DeleteCell(id) ==
  \/ /\ Len(notebook) = 1
     /\ PageCellsBecome(<<CreateCell(fresh + 1, "code", TRUE)>>)
     /\ fresh' = fresh + 1 /\ UNCHANGED dragId
  \/ /\ Len(notebook) > 1
     /\ PageCellsBecome(Without(notebook, id))
     /\ UNCHANGED <<fresh, dragId>>

MoveCell(id, direction) ==
  LET from == At(notebook, id)
  IN /\ from + direction \in DOMAIN notebook
     /\ PageCellsBecome(InsertAt(RemoveAt(notebook, from), from + direction, notebook[from]))
     /\ UNCHANGED <<fresh, dragId>>

\* ondragstart; nothing clears dragId when the drag ends elsewhere.
DragStart(id) ==
  /\ dragId' = {id}
  /\ UNCHANGED <<stored, notebook, editor, saved, fresh, steps>>

\* dropOn: for a cell that is gone, splice(-1, 1) takes the last one.
DropOn(target) ==
  LET gone == dragId \intersect IdsOf(notebook) = {}
      from == IF gone THEN Len(notebook) ELSE At(notebook, CHOOSE id \in dragId : TRUE)
  IN /\ dragId # {} /\ target \notin dragId
     /\ PageCellsBecome(InsertAt(RemoveAt(notebook, from), At(notebook, target), notebook[from]))
     /\ dragId' = {} /\ UNCHANGED fresh

\* Wrong: the page takes over what is new and forgets what is gone or moved.
EditorCellsBecomeAppended(cells) ==
  LET read == FromJSON(EditorToJSON(cells), fresh + 1)
      isNew(c) == c.id \notin IdsOf(notebook)
  IN /\ Step
     /\ editor' = cells
     /\ notebook' = notebook \o SelectSeq(read, isNew)
     /\ saved' = FALSE
     /\ UNCHANGED <<stored, dragId>>
\* The editor's model changes; syncNotebookFromEditor(true) reads it back.
EditorCellsBecome(cells) ==
  /\ Step
  /\ editor' = cells
  /\ notebook' = FromJSON(EditorToJSON(cells), fresh + 1)
  /\ saved' = FALSE
  /\ UNCHANGED <<stored, dragId>>

EditorCell(id, kind, lumen) ==
  [id |-> id, type |-> IF kind = "markdown" THEN "markdown" ELSE "code", lumen |-> lumen,
   out |-> IF kind = "markdown" THEN "absent" ELSE "none", circuit |-> kind = "circuit"]

EditorInsert(at, kind) ==
  /\ Len(editor) < MaxCells
  /\ EditorCellsBecome(InsertAt(editor, at,
       EditorCell(fresh + 1, kind, [Plain EXCEPT !.circuit = kind = "circuit"])))
  /\ fresh' = fresh + 1

EditorDelete(id) ==
  /\ Len(editor) > 1
  /\ EditorCellsBecome(RemoveAt(editor, At(editor, id))) /\ UNCHANGED fresh

\* changeCellType carries the metadata over, the mark of a circuit included.
EditorChangeType(i, kind) ==
  /\ EditorCellsBecome(ReplaceAt(editor, i, EditorCell(editor[i].id, kind, editor[i].lumen)))
  /\ UNCHANGED fresh

\* A cell was run.
EditorOutputs(i, out) ==
  /\ editor[i].type = "code"
  /\ EditorCellsBecome(ReplaceAt(editor, i, [editor[i] EXCEPT !.out = out])) /\ UNCHANGED fresh

\* persist() reads the editor, stores the file and installs the answer.
Save ==
  LET sent == ToJSON(FromJSON(EditorToJSON(editor), fresh + 1))
  IN /\ ~saved /\ saved' = TRUE
     /\ stored' = sent
     /\ notebook' = FromJSON(sent, fresh + 1)
     /\ UNCHANGED <<editor, dragId, fresh, steps>>

\* What the page and the editor get when the notebook is opened.
PageReads(file) == FromJSON(file, fresh + 1)
EditorReads(file) == EditorParse(ToJSON(PageReads(file)))
Reopen ==
  /\ notebook' = PageReads(stored)
  /\ editor' = EditorReads(stored)
  /\ saved' = TRUE
  /\ UNCHANGED <<stored, dragId, fresh, steps>>

-----------------------------------------------------------------------------
\* A file somebody else wrote, imported, stored and opened.
Foreign == {c \in FileCells :
              /\ c.id \in ForeignIds
              /\ c.lumen \in {Plain, [Plain EXCEPT !.circuit = TRUE],
                              [label |-> "named", new |-> TRUE, circuit |-> FALSE]}}
Init ==
  /\ \E file \in UNION {[1..n -> Foreign] : n \in 0..2} :
       LET imported == ImportCells(FromJSON(file, 0), Highest)
       IN /\ stored = ToJSON(imported)
          /\ notebook = FromJSON(stored, 0)
          /\ editor = EditorParse(ToJSON(notebook))
          /\ fresh = Highest + Len(imported)
  /\ saved = TRUE /\ dragId = {} /\ steps = 0

\* What the outline beside the editor offers for a cell.
Outline(id) ==
  \/ \E label \in Labels : RenameCell(id, label)
  \/ DuplicateCell(id) \/ DeleteCell(id) \/ DragStart(id) \/ DropOn(id)
Next ==
  \/ \E id \in IdsOf(notebook) :
       \/ Outline(id)
       \/ \E direction \in {-1, 1} : MoveCell(id, direction) \* offered by no control today
  \/ \E id \in IdsOf(editor) : EditorDelete(id)
  \/ \E at \in 1..(Len(editor) + 1), kind \in Kinds : EditorInsert(at, kind)
  \/ \E i \in DOMAIN editor, kind \in Kinds : EditorChangeType(i, kind)
  \/ \E i \in DOMAIN editor, out \in Outputs \ {"absent"} : EditorOutputs(i, out)
  \/ Save
  \/ Reopen
Spec == Init /\ [][Next]_vars

-----------------------------------------------------------------------------
\* What is shown of a cell, on either side: its kind and whether it has results.
Kind(c) == IF c.circuit \/ c.lumen.circuit THEN "circuit" ELSE c.type
Visible(out) == out \in {"result", "update"}
EditorShows(cells) ==
  [i \in DOMAIN cells |-> [id |-> cells[i].id, kind |-> Kind(cells[i]),
                             label |-> cells[i].lumen.label,
                             results |-> Kind(cells[i]) # "markdown" /\ Visible(cells[i].out)]]

\* Types, and there is always a cell.
TypeOK ==
  /\ stored \in Seq(FileCells) /\ notebook \in Seq(PageCells) /\ editor \in Seq(EditorCells)
  /\ notebook # <<>> /\ editor # <<>>

\* Whatever ids an imported file uses and whatever is copied, cells are told
\* apart by their ids, on the page, in the editor and in the file.
UniqueIds ==
  /\ Cardinality(IdsOf(notebook)) = Len(notebook)
  /\ Cardinality(IdsOf(editor)) = Len(editor)
  /\ Cardinality(IdsOf(stored)) = Len(stored)

\* The page's list and the editor show the same cells in the same order and of
\* the same kinds, whichever of the two was changed last.
PageShowsEditor ==
  /\ Len(notebook) = Len(editor)
  /\ \A i \in DOMAIN notebook : /\ notebook[i].id = editor[i].id
                                /\ notebook[i].type = Kind(editor[i])

\* What is stored is legal nbformat: code cells carry results of a kind that may
\* be stored, other cells none, although the editor's own toJSON does not ensure it.
StoredIsLegal ==
  \A i \in DOMAIN stored :
    stored[i].out \in (IF stored[i].type = "code" THEN {"none", "result"} ELSE {"absent"})

\* A saved notebook opened again shows in the editor what it showed before:
\* kinds, names and results come through all three forms.
ReopenShowsTheSame == saved => EditorShows(EditorReads(stored)) = EditorShows(editor)

\* The name the page shows is the one that was given: also the empty one.
NamesStick ==
  [][\A id \in IdsOf(notebook) :
       RenameCell(id, "") => \A i \in DOMAIN editor' :
                                editor'[i].id = id => editor'[i].lumen.label = ""]_vars
=============================================================================

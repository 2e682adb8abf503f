-------------------------- MODULE NotebookController --------------------------
(***************************************************************************)
(* The controller of the notebook editor (class NotebookController): which   *)
(* cells are selected, the clipboard, and the cells that are being run.      *)
(* Keys, the toolbar, the tools of a cell and the mouse call the same        *)
(* operations; keys do so only while the active cell exists.  Executions     *)
(* take time: anything may happen to the notebook before one ends.           *)
(***************************************************************************)
EXTENDS OpenNotebook

CONSTANTS MaxEvents, \* bounds what the user does
          MaxRuns    \* bounds the executions

\* A result is the number of the execution it came from, or a circuit's; source 1
\* is a text with a heading mark.
ASSUME ControllerAssumption == /\ {MaxCells, MaxEvents, MaxRuns} \subseteq Nat
                               /\ Results = 0..MaxRuns + 1 /\ 1 \in Sources

VARIABLES events,    \* what the user did so far
          active,    \* selectedCellId
          chosen,    \* selectedIds, the cells of an extended selection
          anchor,    \* anchorId, where an extended selection begins
          shown,     \* what the editor was last told of active and chosen
          mode,      \* "command" or "edit"
          clipboard, \* copied cells
          runs,      \* executions under way
          started,   \* executions begun so far
          running,   \* runningCellId
          queue      \* cells a "run all" still has to run

document  == <<model, fresh>>
selection == <<active, chosen, anchor, shown, mode>>
execution == <<runs, started, running, queue>>
editorVars == <<document, events, selection, clipboard, execution>>

None == 0
GivenIds == 1..Len(Opened.cells) + MaxEvents * MaxCells
Drawn == MaxRuns + 1 \* the fixed output of a circuit

IdAt(m, i) == IF i \in DOMAIN m.cells THEN m.cells[i].id ELSE None

EditorInit ==
  /\ Open /\ events = 0
  /\ active = IdAt(model, 1) /\ anchor = active /\ chosen = {}
  /\ shown = [active |-> active, chosen |-> {}]
  /\ mode = "command" /\ clipboard = <<>>
  /\ runs = {} /\ started = 0 /\ running = None /\ queue = <<>>

\* selectedCells(): the extended selection, or else the active cell; in the order
\* of the notebook, and only cells that still exist.
SelectedIds == IdsOf(model) \intersect (IF chosen # {} THEN chosen ELSE {active})
Selected ==
  LET among[k \in 0..Len(model.cells)] ==
        IF k = 0 THEN <<>>
        ELSE IF model.cells[k].id \in SelectedIds THEN Append(among[k - 1], model.cells[k])
        ELSE among[k - 1]
  IN among[Len(model.cells)]

-----------------------------------------------------------------------------
\* Wrong: the editor is told before the extended selection is stored.
ShowFirst == shown' = [active |-> active', chosen |-> chosen]
\* setActive tells the editor, which copies active and chosen.
Show == shown' = [active |-> active', chosen |-> chosen']
\* select() without an event.
Select(id) == /\ active' = id /\ chosen' = {}
              /\ anchor' = IF id = None THEN anchor ELSE id
              /\ Show
\* enterEdit ends an extended selection and does not tell the editor.
EnterEdit(ids) == mode' = "edit" /\ chosen' = IF mode = "edit" THEN ids ELSE {}

Between(a, b) ==
  LET i == At(model, a)
      j == At(model, b)
  IN {model.cells[k].id :
        k \in {k \in DOMAIN model.cells : (i <= k /\ k <= j) \/ (j <= k /\ k <= i)}}

Click(id, editing) ==
  /\ active' = id /\ anchor' = id
  /\ shown' = [active |-> id, chosen |-> {}]
  /\ chosen' = {}
  /\ mode' = IF editing THEN "edit" ELSE "command"
  /\ UNCHANGED <<document, clipboard, execution>>
ShiftClick(id, editing) ==
  /\ anchor # None
  /\ active' = id
  /\ LET ids == IF HasCell(model, anchor) THEN Between(anchor, id) ELSE chosen
     IN /\ shown' = [active |-> id, chosen |-> ids]
        /\ IF editing THEN EnterEdit(ids) ELSE chosen' = ids /\ UNCHANGED mode
  /\ UNCHANGED <<document, anchor, clipboard, execution>>
\* The outline and the search select a cell and leave the mode.
Reveal(id) == Select(id) /\ UNCHANGED <<document, mode, clipboard, execution>>
Enter == /\ HasCell(model, active) /\ mode = "command"
         /\ EnterEdit({})
         /\ UNCHANGED <<document, active, anchor, shown, clipboard, execution>>
Escape == /\ HasCell(model, active) /\ mode = "edit"
          /\ mode' = "command"
          /\ UNCHANGED <<document, active, chosen, anchor, shown, clipboard, execution>>

\* moveSelection: one cell up or down, stopping at the ends.  With a lost anchor
\* the slice begins at index -1, the last cell.
Step(delta) == LET i == (IF HasCell(model, active) THEN At(model, active) ELSE 1) + delta
               IN IF i < 1 THEN 1 ELSE IF i > Len(model.cells) THEN Len(model.cells) ELSE i
Arrow(delta, extend) ==
  /\ HasCell(model, active) /\ mode = "command"
  /\ LET to == IdAt(model, Step(delta))
         from == IF anchor = None THEN active ELSE anchor
     IN /\ active' = to
        /\ chosen' = CASE ~extend -> {}
                       [] extend /\ HasCell(model, from) -> Between(from, to)
                       [] extend /\ ~HasCell(model, from) ->
                            IF Step(delta) = Len(model.cells) THEN {to} ELSE {}
        /\ anchor' = IF extend THEN from ELSE anchor
  /\ Show
  /\ UNCHANGED <<document, mode, clipboard, execution>>

-----------------------------------------------------------------------------
\* A handler may edit the model several times before it ends.
EditTo(m, new) == /\ m # model /\ Len(m.cells) <= MaxCells
                  /\ model' = m /\ fresh' = fresh + new

\* insert(): before or after a cell; at the top when that cell is gone.
Place(below, before) ==
  LET i == At(model, below) IN IF before THEN IF i = 0 THEN 1 ELSE i ELSE i + 1
Inserted(m, kind, below, before) == InsertCell(m, Place(below, before), NewCell(fresh, kind, 0))
InsertNew(kind, below, before) ==
  /\ EditTo(Inserted(model, kind, below, before), 1)
  /\ Select(fresh)
  /\ UNCHANGED <<mode, clipboard, execution>>

MoveOne(id, delta) == /\ EditTo(MoveCell(model, id, At(model, id) + delta), 0)
                      /\ UNCHANGED <<selection, clipboard, execution>>
DuplicateCell(id) ==
  /\ EditTo(InsertCopy(model, At(model, id) + 1, CellOf(model, id), fresh), 1)
  /\ Select(fresh)
  /\ UNCHANGED <<mode, clipboard, execution>>
TypeIn(id, src) == /\ EditTo(UpdateSource(model, id, src), 0)
                   /\ UNCHANGED <<selection, clipboard, execution>>
ClearOutputs(id) == /\ EditTo(UpdateOutputs(model, id, 0), 0)
                    /\ UNCHANGED <<selection, clipboard, execution>>

\* The cell that takes the place of a deleted one is selected.
SelectAround(m, i) == Select(IdAt(m, IF i > Len(m.cells) THEN Len(m.cells) ELSE i))
Removed(id) == DeleteCell(model, id)
Deleted(id) == /\ Len(model.cells) > 1
               /\ EditTo(Removed(id), 0)
               /\ SelectAround(Removed(id), At(model, id))
\* The selected cells deleted one by one, each a step of the undo stack.
Remaining ==
  LET left[k \in 0..Len(Selected)] ==
        IF k = 0 THEN model ELSE DeleteCell(left[k - 1], Selected[k].id)
  IN left[Len(Selected)]
\* Wrong: nothing is selected instead of what was deleted.
DeletedChosenOnly == /\ Selected # <<>> /\ Len(Selected) < Len(model.cells)
                     /\ EditTo(Remaining, 0)
                     /\ chosen' = {} /\ UNCHANGED <<active, anchor>> /\ Show
\* deleteSelected keeps at least one cell: it refuses a selection of all.
DeletedSelected == /\ Selected # <<>> /\ Len(Selected) < Len(model.cells)
                   /\ EditTo(Remaining, 0)
                   /\ SelectAround(Remaining, At(model, Selected[1].id))

DeleteOne(id) == Deleted(id) /\ UNCHANGED <<mode, clipboard, execution>>
DeleteSelected == DeletedSelected /\ UNCHANGED <<mode, clipboard, execution>>
Copy == /\ Selected # clipboard
        /\ clipboard' = Selected
        /\ UNCHANGED <<document, selection, execution>>
CutSelected == /\ clipboard' = Selected
               /\ IF Selected # <<>> /\ Len(Selected) < Len(model.cells)
                  THEN DeletedSelected
                  ELSE clipboard # Selected /\ UNCHANGED <<document, active, chosen, anchor, shown>>
               /\ UNCHANGED <<mode, execution>>
Cut(id) == /\ clipboard' = <<CellOf(model, id)>>
           /\ IF Len(model.cells) > 1
              THEN Deleted(id)
              ELSE clipboard # clipboard' /\ UNCHANGED <<document, active, chosen, anchor, shown>>
           /\ UNCHANGED <<mode, execution>>
\* pasteBelow: copies of the clipboard, in its order, under the active cell.
PasteAfter == IF active = None THEN Len(model.cells) ELSE At(model, active)
Pasted ==
  LET got[k \in 0..Len(clipboard)] ==
        IF k = 0 THEN model
        ELSE InsertCopy(got[k - 1], PasteAfter + k, clipboard[k], fresh + k - 1)
  IN got[Len(clipboard)]
Paste == /\ clipboard # <<>>
         /\ EditTo(Pasted, Len(clipboard))
         /\ Select(IdAt(Pasted, PasteAfter + Len(clipboard)))
         /\ UNCHANGED <<mode, clipboard, execution>>

Retyped(kind) ==
  LET made[k \in 0..Len(Selected)] ==
        IF k = 0 THEN model ELSE ChangeCellType(made[k - 1], Selected[k].id, kind)
  IN made[Len(Selected)]
ChangeSelectedType(kind) == /\ HasCell(model, active) /\ mode = "command"
                            /\ EditTo(Retyped(kind), 0)
                            /\ UNCHANGED <<selection, clipboard, execution>>
\* The keys 1 to 6 make headings: markdown, and a heading mark (source 1) unless
\* the text has one.
Headed ==
  LET made[k \in 0..Len(Selected)] ==
        IF k = 0 THEN model
        ELSE UpdateSource(ChangeCellType(made[k - 1], Selected[k].id, "markdown"),
                          Selected[k].id, 1)
  IN made[Len(Selected)]
Heading == /\ HasCell(model, active) /\ mode = "command"
           /\ EditTo(Headed, 0)
           /\ UNCHANGED <<selection, clipboard, execution>>

\* Undo and redo replace the cells and leave the selection as it is.
WalkTo(m) == /\ m # model /\ model' = m
             /\ UNCHANGED <<fresh, selection, clipboard, execution>>
UndoKey == WalkTo(Undo(model))
RedoKey == WalkTo(Redo(model))

-----------------------------------------------------------------------------
\* runCell: a circuit gets its fixed output at once, a code cell is sent to the
\* kernel, any other cell is left alone.
Executes(id) == HasCell(model, id) /\ CellOf(model, id).type = "code" /\ ~CellOf(model, id).circuit
Draws(id) == HasCell(model, id) /\ CellOf(model, id).circuit
Starts(id, all) ==
  IF Executes(id)
  THEN /\ started < MaxRuns /\ started' = started + 1
       /\ runs' = runs \union {[n |-> started + 1, cell |-> id, all |-> all]}
       /\ running' = id
  ELSE UNCHANGED <<runs, started, running>>
RunEffect(id) == IF Draws(id) THEN UpdateOutputs(model, id, Drawn) ELSE model

Run(id) ==
  /\ \/ Executes(id) /\ UNCHANGED document
     \/ EditTo(RunEffect(id), 0)
  /\ Starts(id, FALSE)
  /\ UNCHANGED <<selection, clipboard, queue>>
\* Shift-Enter: run, then go to the next cell; while editing, make one after the
\* last and leave the edit mode.
RunAndAdvance ==
  LET next == At(model, active) + 1
  IN /\ HasCell(model, active)
     /\ Starts(active, FALSE)
     /\ IF mode = "edit" /\ next > Len(model.cells)
        THEN EditTo(Inserted(RunEffect(active), "code", active, FALSE), 1) /\ Select(fresh)
        ELSE /\ IF Draws(active) THEN EditTo(RunEffect(active), 0) ELSE UNCHANGED document
             /\ IF mode = "edit" THEN Select(IdAt(model, next))
                ELSE /\ active' = IdAt(model, Step(1)) /\ chosen' = {}
                     /\ Show /\ UNCHANGED anchor
     /\ mode' = "command"
     /\ UNCHANGED <<clipboard, queue>>
\* Alt-Enter: run, then insert a cell below, kept in the mode that it was pressed in.
RunAndInsert ==
  /\ HasCell(model, active)
  /\ Starts(active, FALSE)
  /\ EditTo(Inserted(RunEffect(active), "code", active, FALSE), 1)
  /\ Select(fresh)
  /\ UNCHANGED <<mode, clipboard, queue>>

\* runAll: the cells there are now, one after another; one runs at a time here.
RunAll == /\ queue = <<>> /\ ~\E r \in runs : r.all
          /\ queue' = [i \in DOMAIN model.cells |-> model.cells[i].id]
          /\ UNCHANGED <<document, selection, clipboard, runs, started, running>>
\* Wrong: waits for a cell that is gone.
RunNextPresent ==
  /\ queue # <<>> /\ ~\E r \in runs : r.all
  /\ HasCell(model, Head(queue))
  /\ IF Executes(Head(queue)) /\ started = MaxRuns
     THEN queue' = <<>> /\ UNCHANGED <<runs, started, running>>
     ELSE queue' = Tail(queue) /\ Starts(Head(queue), TRUE)
  /\ IF Draws(Head(queue)) THEN model' = RunEffect(Head(queue)) ELSE UNCHANGED model
  /\ UNCHANGED <<fresh, selection, clipboard>>
RunNext ==
  /\ queue # <<>> /\ ~\E r \in runs : r.all
  /\ IF Executes(Head(queue)) /\ started = MaxRuns
     THEN queue' = <<>> /\ UNCHANGED <<runs, started, running>> \* the bound
     ELSE queue' = Tail(queue) /\ Starts(Head(queue), TRUE)
  /\ IF Draws(Head(queue)) THEN model' = RunEffect(Head(queue)) ELSE UNCHANGED model
  /\ UNCHANGED <<fresh, selection, clipboard>>

\* The end of an execution: the result is written to its cell, or the cell is gone,
\* or the kernel failed; in each case no cell is marked as running, and a failure
\* ends the "run all" it belongs to.
Written(r) == UpdateOutputs(UpdateExecutionCount(model, r.cell, r.n), r.cell, r.n)
Ended(r) == /\ runs' = runs \ {r} /\ running' = None
            /\ UNCHANGED <<fresh, selection, clipboard, started>>
Finish(r) == /\ HasCell(model, r.cell)
             /\ model' = Written(r)
             /\ Ended(r) /\ UNCHANGED queue
Fail(r) == /\ queue' = IF r.all THEN <<>> ELSE queue
           /\ Ended(r) /\ UNCHANGED model

-----------------------------------------------------------------------------
\* The tools every cell shows.
Tools(id) == \/ \E delta \in {-1, 1} : MoveOne(id, delta)
             \/ DuplicateCell(id) \/ ClearOutputs(id) \/ DeleteOne(id) \/ Cut(id)
Editing == \/ \E kind \in Kinds, below \in IdsOf(model) \union {active}, before \in BOOLEAN :
                InsertNew(kind, below, before)
           \/ \E id \in IdsOf(model) :
                Tools(id) \/ \E src \in Sources : TypeIn(id, src)
           \/ DeleteSelected \/ Copy \/ CutSelected \/ Paste
           \/ \E kind \in Kinds \ {"circuit"} : ChangeSelectedType(kind)
           \/ Heading
Walking == UndoKey \/ RedoKey
Selecting == \/ \E id \in IdsOf(model), editing \in BOOLEAN :
                  Click(id, editing) \/ ShiftClick(id, editing)
             \/ \E id \in IdsOf(model) : Reveal(id)
             \/ Enter \/ Escape
             \/ \E delta \in {-1, 1}, extend \in BOOLEAN : Arrow(delta, extend)
Running == \/ \E id \in IdsOf(model) : Run(id)
           \/ RunAndAdvance \/ RunAndInsert \/ RunAll
Ending == RunNext \/ \E r \in runs : Finish(r) \/ Fail(r)

User == /\ events < MaxEvents /\ events' = events + 1
        /\ Editing \/ Walking \/ Selecting \/ Running
Kernel == Ending /\ UNCHANGED events
EditorNext == User \/ Kernel

\* An execution that was begun is answered, by a result, an error or a timeout.
Fairness == WF_editorVars(Kernel)
EditorSpec == EditorInit /\ [][EditorNext]_editorVars /\ Fairness

-----------------------------------------------------------------------------
\* The types of the variables.
EditorTypeOK ==
  /\ model \in Models(GivenIds) /\ fresh \in Nat /\ events \in 0..MaxEvents
  /\ active \in GivenIds \union {None} /\ anchor \in GivenIds \union {None}
  /\ chosen \subseteq GivenIds
  /\ shown.active \in GivenIds \union {None} /\ shown.chosen \subseteq GivenIds
  /\ mode \in {"command", "edit"} /\ clipboard \in Seq(Cells(GivenIds))
  /\ runs \subseteq [n: 1..MaxRuns, cell: GivenIds, all: BOOLEAN] /\ started \in 0..MaxRuns
  /\ running \in GivenIds \union {None} /\ queue \in Seq(GivenIds)

\* What "dd", "x" and the delete button would remove is highlighted in the editor,
\* although the editor only has copies of the selection.
DeletesOnlyShown == SelectedIds \subseteq shown.chosen \union {shown.active}

\* Only undo and redo can leave the editor with an active cell that does not exist
\* (keys are then ignored); every other handler keeps or repairs the selection.
SelectionKept == [][HasCell(model, active) /\ ~Walking => HasCell(model', active')]_editorVars

\* A "run all" comes to its end, also when cells it has to run are deleted,
\* changed or run by hand meanwhile.
RunAllEnds == (queue # <<>>) ~> (queue = <<>>)
=============================================================================

--------------------------- MODULE DocumentContext ---------------------------
(***************************************************************************)
(* An open notebook of the SDK: its model, the file behind it (class        *)
(* DocumentContext: save and revert over an asynchronous contents manager)  *)
(* and the Yjs document shared with other editors (class                    *)
(* NotebookCollaboration).  The contents manager may refuse a save, and     *)
(* saves under way at the same time reach the file in any order.            *)
(***************************************************************************)
EXTENDS OpenNotebook

CONSTANTS MaxEdits, \* bounds the edits made here and by others
          MaxCalls  \* bounds the saves and reads of the file

ASSUME ContextAssumption == MaxEdits \in Nat /\ MaxCalls \in Nat

VARIABLES edits,    \* edits made so far
          calls,    \* saves and reads begun so far
          disk,     \* the document in the file
          saves,    \* saves under way: the document sent, whether the file has it, and
                    \* (history) whether the model and the file are as it left them
          fetched,  \* documents read by a revert that has not installed them yet
          shared,   \* the Yjs document
          raced     \* history: dirty was cleared by a save or a read that something
                    \* overtook, or by another editor

vars == <<model, fresh, edits, calls, disk, saves, fetched, shared, raced>>

Ids == 1..Len(Opened.cells) + MaxEdits

Init == /\ Open
        /\ disk = Opened /\ edits = 0 /\ calls = 0
        /\ saves = {} /\ fetched = {} /\ raced = FALSE
        /\ shared = ToJSON(model)

-----------------------------------------------------------------------------
\* Every change of the model emits contentChanged, and the slot on it pushes the
\* whole document into the shared one.
Install(m) == model' = m /\ shared' = ToJSON(m)
Overtake(others) == {[s EXCEPT !.alone = FALSE] : s \in others}

Edit(m) == /\ edits < MaxEdits /\ m # model
           /\ Len(m.cells) <= MaxCells
           /\ edits' = edits + 1
           /\ Install(m)
           /\ saves' = Overtake(saves)
           /\ UNCHANGED <<calls, disk, fetched, raced>>
Keeps(m) == Edit(m) /\ UNCHANGED fresh

Insert(index, kind) ==
  Edit(InsertCell(model, index, NewCell(fresh, kind, 0))) /\ fresh' = fresh + 1
Duplicate(id) ==
  Edit(InsertCopy(model, At(model, id) + 1, CellOf(model, id), fresh)) /\ fresh' = fresh + 1
Delete(id) == Keeps(DeleteCell(model, id))
Move(id, to) == Keeps(MoveCell(model, id, to))
Type(id, src) == Keeps(UpdateSource(model, id, src))
SetOutputs(id, out) == Keeps(UpdateOutputs(model, id, out))
ChangeType(id, kind) == Keeps(ChangeCellType(model, id, kind))
ChangeMetadata == Keeps(SetMetadata(model, ~model.meta))

\* Wrong: the model tells nobody that undo or redo changed it.
WalkSilent(m) == /\ m # model /\ model' = m /\ saves' = Overtake(saves)
                 /\ UNCHANGED <<fresh, edits, calls, disk, fetched, shared, raced>>
Walk(m) == /\ m # model
           /\ Install(m)
           /\ saves' = Overtake(saves)
           /\ UNCHANGED <<fresh, edits, calls, disk, fetched, raced>>
UndoEdit == Walk(Undo(model))
RedoEdit == Walk(Redo(model))

-----------------------------------------------------------------------------
\* Wrong: dirty is cleared when the save begins.
StartSaveHasty ==
  /\ calls < MaxCalls /\ calls' = calls + 1
  /\ saves' = saves \union {[doc |-> ToJSON(model), written |-> FALSE, alone |-> TRUE]}
  /\ model' = [model EXCEPT !.dirty = FALSE]
  /\ UNCHANGED <<fresh, edits, disk, fetched, shared, raced>>
\* save(): the document is taken now; the file gets it later; dirty is cleared
\* when the answer arrives, whatever happened to the model meanwhile.
StartSave == /\ calls < MaxCalls /\ calls' = calls + 1
             /\ saves' = saves \union {[doc |-> ToJSON(model), written |-> FALSE, alone |-> TRUE]}
             /\ UNCHANGED <<model, fresh, edits, disk, fetched, shared, raced>>
WriteFile(s) == /\ ~s.written
                /\ disk' = s.doc
                /\ saves' = Overtake(saves \ {s}) \union {[s EXCEPT !.written = TRUE]}
                /\ raced' = (raced \/ ~s.alone)
                /\ UNCHANGED <<model, fresh, edits, calls, fetched, shared>>
SaveCompleted(s) == /\ s.written
                    /\ saves' = saves \ {s}
                    /\ model' = [model EXCEPT !.dirty = FALSE]
                    /\ raced' = ~s.alone
                    /\ UNCHANGED <<fresh, edits, calls, disk, fetched, shared>>
\* An error, before or after the file was written, leaves dirty as it is.
SaveFailed(s) == /\ saves' = saves \ {s}
                 /\ UNCHANGED <<model, fresh, edits, calls, disk, fetched, shared, raced>>

\* revert(): read the file, then install what was read.
Fetch == /\ fetched = {}
         /\ calls < MaxCalls /\ calls' = calls + 1
         /\ fetched' = {disk}
         /\ UNCHANGED <<model, fresh, edits, disk, saves, shared, raced>>
Revert(doc) == /\ Install(FromJSON(model, doc))
               /\ fetched' = {}
               /\ saves' = Overtake(saves)
               /\ raced' = (doc # disk)
               /\ UNCHANGED <<fresh, edits, calls, disk>>

-----------------------------------------------------------------------------
\* Another editor changed the shared document: applyRemote loads it as a fresh
\* document, clean and without history, and does not push it back.
Remote(doc) == /\ edits < MaxEdits /\ doc # shared
               /\ edits' = edits + 1
               /\ shared' = doc
               /\ model' = FromJSON(model, doc)
               /\ saves' = Overtake(saves)
               /\ raced' = TRUE
               /\ UNCHANGED <<fresh, calls, disk, fetched>>
RemoteType(i, src) == Remote([shared EXCEPT !.cells[i].src = src])
RemoteDelete(i) ==
  Len(shared.cells) > 1 /\ Remote([shared EXCEPT !.cells = RemoveAt(shared.cells, i)])

Next ==
  \/ \E index \in 1..Len(model.cells) + 1, kind \in Kinds : Insert(index, kind)
  \/ \E id \in IdsOf(model) :
       \/ Duplicate(id)
       \/ Delete(id)
       \/ \E to \in DOMAIN model.cells : Move(id, to)
       \/ \E src \in Sources : Type(id, src)
       \/ \E v \in Results : SetOutputs(id, v)
       \/ \E kind \in Kinds : ChangeType(id, kind)
  \/ ChangeMetadata
  \/ UndoEdit
  \/ RedoEdit
  \/ StartSave
  \/ \E s \in saves : WriteFile(s) \/ SaveCompleted(s) \/ SaveFailed(s)
  \/ Fetch
  \/ \E doc \in fetched : Revert(doc)
  \/ \E i \in DOMAIN shared.cells : RemoteDelete(i) \/ \E src \in Sources : RemoteType(i, src)

Spec == Init /\ [][Next]_vars

-----------------------------------------------------------------------------
\* The types of the variables; an undo stack never exceeds its limit.
TypeOK ==
  /\ model \in Models(Ids)
  /\ Len(model.undo) + Len(model.redo) <= History
  /\ fresh \in Nat /\ edits \in 0..MaxEdits /\ calls \in 0..MaxCalls
  /\ disk \in Documents(Ids) /\ shared \in Documents(Ids)
  /\ saves \subseteq [doc: Documents(Ids), written: BOOLEAN, alone: BOOLEAN]
  /\ fetched \subseteq Documents(Ids)
  /\ raced \in BOOLEAN

\* Cells are found by their id: whatever is inserted, copied, undone, redone or
\* received, no two cells of the notebook share one.
UniqueIds == \A i, j \in DOMAIN model.cells : i # j => model.cells[i].id # model.cells[j].id

\* The two directions of the collaboration neither miss a change nor echo it:
\* after every step the shared document shows what the editor shows, after an
\* undo, a redo and a revert too.
SharedAgrees == Shown(shared) = Shown(ToJSON(model))

\* "Saved" on the status bar is true: an editor that is not dirty shows what is
\* in the file, unless the model or the file was changed under a running save or
\* by another editor.
CleanIsSaved == model.dirty \/ raced \/ Shown(disk) = Shown(ToJSON(model))

\* A file never has a code cell without its results (the circuit is kept in "a
\* legal nbformat code cell").
FilesAreLegal == LegalFile(disk)

\* Undo and redo walk along one line of documents, as EditTimeline says: the
\* two stacks around the present document are that line.
Line == [i \in 1..Len(model.undo) |-> Shown(model.undo[i])]
          \o <<Shown(ToJSON(model))>>
          \o Reverse([i \in 1..Len(model.redo) |-> Shown(model.redo[i])])
Abstract == INSTANCE EditTimeline WITH Limit <- History, timeline <- Line,
                                       here <- Len(model.undo) + 1
UndoIsALine == Abstract!Spec

=============================================================================

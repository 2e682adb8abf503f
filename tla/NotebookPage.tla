---------------------------- MODULE NotebookPage ----------------------------
(***************************************************************************)
(* The notebook page (frontend/src/routes/notebook/[id]/+page.svelte) and   *)
(* the legacy notebook API it saves to: the page's copy of the notebook,    *)
(* the editor's model, the 700 ms save timer, persist() with its loop, and  *)
(* the handlers that await answers of the server between their steps.  A    *)
(* document is the set of the user's changes it contains.  The user starts  *)
(* at most one handler at a time besides persist().                         *)
(***************************************************************************)
EXTENDS Integers, FiniteSets

CONSTANTS Notebooks,  \* ids the server can give
          Stored,     \* ids that may be stored when the page is opened
          MaxChanges, \* bound: changes the user makes
          MaxCalls,   \* bound: handlers the user starts, and saves by hand
          MaxFaults   \* bound: requests that fail

ASSUME PageAssumption == /\ Stored \subseteq Notebooks
                         /\ MaxChanges \in Nat /\ MaxCalls \in Nat /\ MaxFaults \in Nat

VARIABLES server,        \* what the API stores for each id
          notebook,      \* the page's notebook, as a set of at most one copy
          editor,        \* the editor's document and whose it is, likewise
          saved, timer,  \* the indicator; is saveTimer running?
          saveAgain, changeVersion,
          save,          \* persist(): the await it is at, what it sent, its answer
          call,          \* the handler the user started
          notice,        \* is an error on display?
          calls, faults, \* how many so far, for the bounds
          made,          \* history: the changes made to each notebook
          crossed,       \* history: the notebook was replaced during a save, or by
                         \* a copy that a save had made old
          hasty,         \* history: an import called newer changes saved
          overtaken,     \* history: the server moved on without the page knowing
          unheard        \* history: the timer ran out while the list was refreshed

page == <<notebook, editor, saved, timer, saveAgain, changeVersion, notice>>
history == <<made, crossed, hasty, overtaken, unheard>>
vars == <<server, page, save, call, calls, faults, history>>

Changes == 1..MaxChanges
Copies == [id: Notebooks, revision: Nat, content: SUBSET Changes]

Copy(n) == [id |-> n, revision |-> server[n].revision, content |-> server[n].content]
Live == {n \in Notebooks : server[n].live}
Unused == {n \in Notebooks : server[n].revision = 0}
OnPage(n) == \E c \in notebook : c.id = n
Pick(S) == CHOOSE x \in S : TRUE

Answer(tag, copies) == [tag |-> tag, copies |-> copies]
Waiting == Answer("waiting", {})
Resting == [at |-> "none", version |-> 0, sent |-> {}, got |-> Waiting]
saveInFlight == save.at # "none"

\* A handler at its await, with the id it asks for and the copies it holds.
NoCall == [op |-> "none", at |-> "none", id |-> {}, held |-> {}, got |-> Waiting]
Await(at, ids, held) == [call EXCEPT !.at = at, !.id = ids, !.held = held, !.got = Waiting]

-----------------------------------------------------------------------------
(* The server.                                                              *)

Written(n, content) ==
  [server EXCEPT ![n] = [revision |-> @.revision + 1, content |-> content, live |-> TRUE]]

\* POST: a new id; which one makes no difference.
Create(content) ==
  LET n == Pick(Unused)
  IN /\ Unused # {}
     /\ server' = Written(n, content)
     /\ made' = [made EXCEPT ![n] = content]
     /\ call' = [call EXCEPT !.got = Answer("ok", {[id |-> n, revision |-> 1,
                                                    content |-> content]})]

\* What the handlers ask for, by the await they are at.
AnswerCall ==
  LET n == Pick(call.id)
      found(tag, copies) == call' = [call EXCEPT !.got = Answer(tag, copies)]
  IN /\ call.at # "none" /\ call.got = Waiting
     /\ \/ call.at \in {"get", "source"} /\ n \in Live /\ found("ok", {Copy(n)}) /\ UNCHANGED <<server, made>>
        \/ call.at \in {"list", "choose"} /\ found("ok", {Copy(m) : m \in Live})
           /\ UNCHANGED <<server, made>>
        \/ call.at = "session" /\ found("ok", {}) /\ UNCHANGED <<server, made>>
        \/ /\ call.at = "post"
           /\ Create(IF call.op = "duplicate" THEN Pick(call.held).content ELSE {})
        \/ call.at = "fill" /\ Create({})
        \/ /\ call.at = "patch" /\ n \in Live
           /\ server' = Written(n, server[n].content)
           /\ found("ok", {[Copy(n) EXCEPT !.revision = @ + 1]}) /\ UNCHANGED made
        \/ /\ call.at = "delete" /\ n \in Live
           /\ server' = [server EXCEPT ![n].live = FALSE]
           /\ found("ok", {}) /\ UNCHANGED made
        \/ /\ call.at \in {"get", "source", "patch", "delete"} /\ n \notin Live
           /\ found("missing", {}) /\ UNCHANGED <<server, made>>
     /\ overtaken' = (overtaken \/ (call.at = "patch" /\ OnPage(n) /\ save.at = "put"))
     /\ UNCHANGED <<page, save, calls, faults, crossed, hasty, unheard>>

\* PUT: the base revision must be the current one.
AnswerSave ==
  LET c == Pick(save.sent)
      found(tag, copies) == save' = [save EXCEPT !.got = Answer(tag, copies)]
  IN /\ saveInFlight /\ save.got = Waiting
     /\ \/ save.at = "list" /\ found("ok", {}) /\ UNCHANGED server
        \/ /\ save.at = "put" /\ c.id \in Live /\ c.revision = server[c.id].revision
           /\ server' = Written(c.id, c.content)
           /\ found("ok", {[c EXCEPT !.revision = @ + 1]})
        \/ /\ save.at = "put" /\ c.id \in Live /\ c.revision # server[c.id].revision
           /\ found("conflict", {}) /\ UNCHANGED server
        \/ save.at = "put" /\ c.id \notin Live /\ found("missing", {}) /\ UNCHANGED server
     /\ UNCHANGED <<page, call, calls, faults, history>>

\* A request fails, or its answer is lost on the way back.
LoseCall ==
  /\ call.at # "none" /\ call.got.tag # "failed" /\ faults < MaxFaults
  /\ call' = [call EXCEPT !.got = Answer("failed", {})]
  /\ faults' = faults + 1
  /\ overtaken' = (overtaken \/ (call.op = "rename" /\ call.got.tag # "missing"))
  /\ UNCHANGED <<server, page, save, calls, made, crossed, hasty, unheard>>

LoseSave ==
  /\ saveInFlight /\ save.got.tag # "failed" /\ faults < MaxFaults
  /\ save' = [save EXCEPT !.got = Answer("failed", {})]
  /\ faults' = faults + 1
  /\ overtaken' = (overtaken \/ (save.at = "put" /\ save.got.tag = "ok"))
  /\ UNCHANGED <<server, page, call, calls, made, crossed, hasty, unheard>>

-----------------------------------------------------------------------------
(* The page.                                                                *)

Shown == Pick(notebook)
Typed == Pick(editor).content

\* Wrong: the editor is made once and keeps its document.
SetNotebookOnly(c) ==
  /\ notebook' = {c}
  /\ editor' = IF editor = {} THEN {[of |-> c.id, content |-> c.content]} ELSE editor
  /\ crossed' = (crossed \/ save.at = "put" \/ c.revision # server[c.id].revision)

\* setNotebook; saved = true is the caller's.
SetNotebook(c) ==
  /\ notebook' = {c}
  /\ editor' = {[of |-> c.id, content |-> c.content]}
  /\ crossed' = (crossed \/ save.at = "put" \/ c.revision # server[c.id].revision)

\* changed(): the change is numbered and the timer starts over.
Changed(n) ==
  /\ changeVersion < MaxChanges
  /\ changeVersion' = changeVersion + 1
  /\ saved' = FALSE /\ timer' = TRUE /\ hasty' = FALSE /\ unheard' = FALSE
  /\ made' = [made EXCEPT ![n] = @ \union {changeVersion + 1}]

\* The editor's model changes; contentChanged calls syncNotebookFromEditor(true).
EditorEdit ==
  /\ notebook # {}
  /\ Changed(Pick(editor).of)
  /\ LET content == Typed \union {changeVersion + 1}
     IN /\ editor' = {[e EXCEPT !.content = content] : e \in editor}
        /\ notebook' = {[c EXCEPT !.content = content] : c \in notebook}
  /\ UNCHANGED <<server, saveAgain, save, call, notice, calls, faults, crossed, overtaken>>

\* A change to the page's own cells (rename, duplicate, delete, move, drop): the
\* editor is rebuilt from them.
PageEdit ==
  /\ notebook # {}
  /\ Changed(Shown.id)
  /\ LET content == Shown.content \union {changeVersion + 1}
     IN /\ editor' = {[of |-> Shown.id, content |-> content]}
        /\ notebook' = {[Shown EXCEPT !.content = content]}
  /\ UNCHANGED <<server, saveAgain, save, call, notice, calls, faults, crossed, overtaken>>

\* One turn of persist()'s loop with copy c on the page: the editor's cells go
\* out under the id and the revision the page holds.
Send(c) ==
  LET synced == [c EXCEPT !.content = Typed]
  IN /\ notebook' = {synced}
     /\ save' = [at |-> "put", version |-> changeVersion, sent |-> {synced}, got |-> Waiting]
     /\ saveAgain' = FALSE
     /\ overtaken' = (overtaken \/ (call.op = "rename" /\ call.id = {c.id}))

Persist ==
  IF saveInFlight
  THEN saveAgain' = TRUE /\ UNCHANGED <<notebook, save, overtaken>>
  ELSE IF notebook = {}
       THEN saveAgain' = FALSE /\ UNCHANGED <<notebook, save, overtaken>>
       ELSE Send(Shown)

TimerFires ==
  /\ timer /\ timer' = FALSE
  /\ Persist
  /\ unheard' = (unheard \/ save.at = "list")
  /\ UNCHANGED <<server, editor, saved, changeVersion, call, notice, calls, faults,
                 made, crossed, hasty>>

\* Ctrl+S
PressSave ==
  /\ calls < MaxCalls /\ calls' = calls + 1
  /\ Persist
  /\ UNCHANGED <<server, editor, saved, timer, changeVersion, call, notice, faults,
                 made, crossed, hasty, unheard>>

\* Wrong: changes made while the save was on its way are not looked at.
SaveSameAlways ==
  LET c == Pick(save.got.copies)
  IN /\ save.at = "put" /\ save.got.tag = "ok"
     /\ saved' = TRUE /\ hasty' = FALSE
     /\ IF saveAgain THEN Send(c)
        ELSE /\ notebook' = {c} /\ save' = [Resting EXCEPT !.at = "list"]
             /\ UNCHANGED <<saveAgain, overtaken>>
     /\ UNCHANGED <<server, editor, timer, changeVersion, call, notice, calls, faults,
                    made, crossed, unheard>>

\* The answer of a PUT: what it says is installed when nothing changed since.
SaveSame ==
  LET c == Pick(save.got.copies)
  IN /\ save.at = "put" /\ save.got.tag = "ok" /\ changeVersion = save.version
     /\ saved' = TRUE /\ hasty' = FALSE
     /\ IF saveAgain THEN Send(c)
        ELSE /\ notebook' = {c} /\ save' = [Resting EXCEPT !.at = "list"]
             /\ UNCHANGED <<saveAgain, overtaken>>
     /\ UNCHANGED <<server, editor, timer, changeVersion, call, notice, calls, faults,
                    made, crossed, unheard>>

\* Wrong: the next turn goes out under the old revision.
SaveNewerStale ==
  /\ save.at = "put" /\ save.got.tag = "ok" /\ changeVersion # save.version
  /\ Send(Shown)
  /\ UNCHANGED <<server, editor, saved, timer, changeVersion, call, notice, calls, faults,
                 made, crossed, hasty, unheard>>

\* Wrong: no next turn.
SaveNewerLast ==
  /\ save.at = "put" /\ save.got.tag = "ok" /\ changeVersion # save.version
  /\ notebook' = {[Shown EXCEPT !.revision = Pick(save.got.copies).revision]}
  /\ save' = [Resting EXCEPT !.at = "list"] /\ saveAgain' = FALSE
  /\ UNCHANGED <<server, editor, saved, timer, changeVersion, call, notice, calls, faults,
                 history>>

SaveNewer ==
  /\ save.at = "put" /\ save.got.tag = "ok" /\ changeVersion # save.version
  /\ Send([Shown EXCEPT !.revision = Pick(save.got.copies).revision])
  /\ UNCHANGED <<server, editor, saved, timer, changeVersion, call, notice, calls, faults,
                 made, crossed, hasty, unheard>>

\* The list was refreshed, and finally.
SaveEnds ==
  /\ save.at = "list" /\ save.got.tag = "ok"
  /\ save' = Resting
  /\ UNCHANGED <<server, page, call, calls, faults, history>>

SaveFails ==
  /\ saveInFlight /\ save.got.tag \in {"conflict", "missing", "failed"}
  /\ saved' = FALSE /\ notice' = TRUE /\ save' = Resting
  /\ UNCHANGED <<server, notebook, editor, timer, saveAgain, changeVersion, call, calls,
                 faults, history>>

-----------------------------------------------------------------------------
(* The handlers.                                                            *)

Start(op, at, ids) ==
  /\ call = NoCall /\ calls < MaxCalls /\ calls' = calls + 1
  /\ call' = [NoCall EXCEPT !.op = op, !.at = at, !.id = ids]
  /\ UNCHANGED <<server, page, save, faults, history>>

Listed == Notebooks \ Unused

OpenNotebook == \E n \in Listed : Start("open", "get", {n})
CreateNewNotebook == Unused # {} /\ Start("new", "post", {})
HandleImport == Unused # {} /\ Start("import", "post", {})
CommitRename == \E n \in Listed : Start("rename", "patch", {n})
DuplicateNotebook == Unused # {} /\ \E n \in Listed : Start("duplicate", "source", {n})
RemoveNotebook == \E n \in Listed : Start("remove", "delete", {n})

Answered(op, at) == call.op \in op /\ call.at = at /\ call.got.tag = "ok"
Goes(at, ids, held) ==
  /\ call' = Await(at, ids, held)
  /\ UNCHANGED <<server, page, save, calls, faults, history>>
\* The handler ends with c on the page.
Ends(c) ==
  /\ SetNotebook(c) /\ saved' = TRUE /\ hasty' = FALSE /\ call' = NoCall
  /\ UNCHANGED <<server, timer, saveAgain, changeVersion, save, notice, calls, faults,
                 made, overtaken, unheard>>
Stops ==
  /\ call' = NoCall
  /\ UNCHANGED <<server, page, save, calls, faults, history>>

OpenContinues ==
  \/ Answered({"open", "duplicate", "remove", "initialize"}, "get") /\ Ends(Pick(call.got.copies))
  \/ /\ call.at = "get" /\ call.got.tag = "missing"
     /\ IF call.op = "initialize" THEN \E c \in call.held : Ends(c) ELSE Stops

CreateContinues ==
  \/ Answered({"new"}, "post") /\ Goes("list", {}, call.got.copies)
  \/ Answered({"new"}, "list") /\ Ends(Pick(call.held))

\* The imported notebook is on the page before the list is refreshed and the
\* import called saved.
ImportContinues ==
  \/ /\ Answered({"import"}, "post")
     /\ SetNotebook(Pick(call.got.copies)) /\ call' = Await("list", {}, {})
     /\ UNCHANGED <<server, saved, timer, saveAgain, changeVersion, save, notice, calls,
                    faults, made, hasty, overtaken, unheard>>
  \/ /\ Answered({"import"}, "list")
     /\ saved' = TRUE /\ notice' = FALSE /\ hasty' = (hasty \/ ~saved) /\ call' = NoCall
     /\ UNCHANGED <<server, notebook, editor, timer, saveAgain, changeVersion, save, calls,
                    faults, made, crossed, overtaken, unheard>>

RenameContinues ==
  \/ Answered({"rename"}, "patch") /\ Goes("list", call.id, call.got.copies)
  \/ /\ Answered({"rename"}, "list")
     /\ notebook' = IF OnPage(Pick(call.id)) THEN call.held ELSE notebook
     /\ call' = NoCall
     /\ UNCHANGED <<server, editor, saved, timer, saveAgain, changeVersion, save, notice,
                    calls, faults, history>>

DuplicateContinues ==
  \/ Answered({"duplicate"}, "source") /\ Goes("post", {}, call.got.copies)
  \/ Answered({"duplicate"}, "post") /\ Goes("list", {Pick(call.got.copies).id}, {})
  \/ Answered({"duplicate"}, "list") /\ Goes("get", call.id, {})

\* ensureNotebookList stores an example when the list is empty.
EnsureContinues ==
  \/ call.at = "choose" /\ call.got = Answer("ok", {}) /\ Unused # {} /\ Goes("fill", {}, {})
  \/ Answered({"remove", "initialize"}, "fill") /\ Goes("choose", {}, {})

RemoveContinues ==
  \/ Answered({"remove"}, "delete") /\ Goes("session", call.id, {})
  \/ Answered({"remove"}, "session") /\ Goes("list", call.id, {})
  \/ /\ Answered({"remove"}, "list")
     /\ IF OnPage(Pick(call.id)) THEN Goes("choose", {}, {}) ELSE Stops
  \/ Answered({"remove"}, "choose") /\ \E c \in call.got.copies : Goes("get", {c.id}, {})

\* The route names the workspace, which shows the first of the list, or an id.
InitializeContinues ==
  /\ Answered({"initialize"}, "choose") /\ call.got.copies # {}
  /\ \/ \E c \in call.got.copies : Ends(c)
     \/ \E n \in Notebooks : Goes("get", {n}, call.got.copies)

\* The handlers do not catch; handleImport does.
CallFails ==
  /\ \/ call.got.tag = "failed"
     \/ call.got.tag = "missing" /\ call.at \in {"source", "patch", "delete"}
  /\ notice' = (notice \/ call.op = "import")
  /\ call' = NoCall
  /\ UNCHANGED <<server, notebook, editor, saved, timer, saveAgain, changeVersion, save,
                 calls, faults, history>>

-----------------------------------------------------------------------------
Init ==
  /\ \E S \in SUBSET Stored :
       server = [n \in Notebooks |-> [revision |-> IF n \in S THEN 1 ELSE 0, content |-> {},
                                     live |-> n \in S]]
  /\ notebook = {} /\ editor = {} /\ saved = TRUE /\ timer = FALSE
  /\ saveAgain = FALSE /\ changeVersion = 0 /\ save = Resting
  /\ call = [NoCall EXCEPT !.op = "initialize", !.at = "choose"]
  /\ notice = FALSE /\ calls = 0 /\ faults = 0
  /\ made = [n \in Notebooks |-> {}]
  /\ crossed = FALSE /\ hasty = FALSE /\ overtaken = FALSE /\ unheard = FALSE

User == EditorEdit \/ PageEdit \/ PressSave \/ OpenNotebook \/ CreateNewNotebook
        \/ HandleImport \/ CommitRename \/ DuplicateNotebook \/ RemoveNotebook
PersistGoesOn == SaveSame \/ SaveNewer \/ SaveEnds \/ SaveFails
CallGoesOn == OpenContinues \/ CreateContinues \/ ImportContinues \/ RenameContinues
              \/ DuplicateContinues \/ EnsureContinues \/ RemoveContinues
              \/ InitializeContinues \/ CallFails

Next == User \/ TimerFires \/ PersistGoesOn \/ CallGoesOn \/ AnswerCall \/ AnswerSave
        \/ LoseCall \/ LoseSave
Spec == Init /\ [][Next]_vars

\* Requests are answered, timers run out and a resolved await is continued.
FairSpec == Spec /\ WF_vars(TimerFires) /\ WF_vars(PersistGoesOn) /\ WF_vars(CallGoesOn)
                 /\ WF_vars(AnswerCall) /\ WF_vars(AnswerSave)

-----------------------------------------------------------------------------
\* Types; the page has an editor exactly when it has a notebook.
TypeOK ==
  /\ server \in [Notebooks -> [revision: Nat, content: SUBSET Changes, live: BOOLEAN]]
  /\ notebook \subseteq Copies /\ Cardinality(notebook) <= 1
  /\ editor \subseteq [of: Notebooks, content: SUBSET Changes]
  /\ (editor = {}) = (notebook = {}) /\ Cardinality(editor) <= 1
  /\ save.sent \subseteq Copies /\ save.at \in {"none", "put", "list"}
  /\ call.held \union call.got.copies \subseteq Copies

\* Nothing made in one notebook reaches another: the server stores under an id
\* only changes made to that notebook, as long as no other notebook was put on
\* the page while a save was on its way (persist and openNotebook).
StaysInItsNotebook ==
  ~crossed => \A n \in Notebooks : server[n].content \subseteq made[n]

\* "All changes saved" is true: the server has what the editor shows, unless the
\* notebook was replaced during a save, or an import spoke too soon.
SavedIsTrue ==
  saved /\ ~crossed /\ ~hasty
    => \A e \in editor : server[e.of].live => server[e.of].content = e.content

\* The page does not overtake itself: a save is refused for its revision only
\* when the answer that would have told it was lost, or a rename ran beside it.
NoSelfConflict ==
  save.got.tag = "conflict" => crossed \/ overtaken

\* A change is saved in the end, or an error shown, unless the timer ran out
\* while persist() was refreshing the list.
ChangesSettle == ~saved ~> saved \/ notice \/ unheard

\* What the page says (src/routes/notebook/[id]/+page.svelte:559): with "all
\* changes saved" on display the server has the editor's document.
AllChangesSaved ==
  saved => \A e \in editor : server[e.of].live => server[e.of].content = e.content

\* What the home page says (src/routes/+page.svelte:115): changes are saved
\* without being asked for; at worst an error is shown.
Autosaves == ~saved ~> saved \/ notice
=============================================================================

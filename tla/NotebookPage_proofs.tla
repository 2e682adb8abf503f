------------------------- MODULE NotebookPage_proofs -------------------------
(***************************************************************************)
(* Proofs about NotebookPage for any notebooks and all bounds.              *)
(*                                                                         *)
(* The argument: what the handlers hold of the server is true of a revision *)
(* (KnownInv), so a copy of the current revision has the current content.   *)
(* As long as no notebook is put on the page over a running save, the page, *)
(* the editor and the save speak of one notebook (OwnInv); what is under way *)
(* is what the editor shows unless a change was made since, and then nobody  *)
(* calls it saved (TruthInv); and only a rename or the save itself moves the *)
(* server's revision, each bringing the page the new one (InStepInv).        *)
(***************************************************************************)
EXTENDS NotebookPage, FiniteSetTheorems, TLAPS

AtMostOne(S) == \A x, y \in S : x = y

Tags == {"waiting", "ok", "missing", "conflict", "failed"}
Answers == [tag: Tags, copies: SUBSET Copies]
Ops == {"none", "initialize", "open", "new", "import", "rename", "duplicate", "remove"}
Awaits == {"none", "get", "source", "list", "choose", "session", "post", "fill", "patch",
           "delete"}
Records == [revision: Nat, content: SUBSET Changes, live: BOOLEAN]
Editors == [of: Notebooks, content: SUBSET Changes]
Saves == [at: {"none", "put", "list"}, version: Nat, sent: SUBSET Copies, got: Answers]
Calls == [op: Ops, at: Awaits, id: SUBSET Notebooks, held: SUBSET Copies, got: Answers]

TypeInv ==
  /\ server \in [Notebooks -> Records] /\ made \in [Notebooks -> SUBSET Changes]
  /\ notebook \in SUBSET Copies /\ AtMostOne(notebook)
  /\ editor \in SUBSET Editors /\ AtMostOne(editor)
  /\ editor = {} <=> notebook = {}
  /\ changeVersion \in 0..MaxChanges
  /\ save \in Saves /\ call \in Calls

\* The shape of a save: one copy is sent, and comes back one revision later.
SaveInv ==
  /\ save.at = "none" => save.got = Waiting
  /\ save.at = "put" =>
       /\ notebook # {}
       /\ \E s \in Copies :
            /\ save.sent = {s}
            /\ save.got.tag = "ok" =>
                 save.got.copies = {[id |-> s.id, revision |-> s.revision + 1,
                                     content |-> s.content]}
  /\ save.got.tag = "conflict" => save.at = "put"
  /\ save.version <= changeVersion

\* The shape of a handler at its await.
CallInv ==
  /\ call.op = "rename" => call.at \in {"patch", "list"}
  /\ call.at = "patch" => call.op = "rename"
  /\ call.at \in {"get", "source", "patch", "delete"} => \E n \in Notebooks : call.id = {n}
  /\ call.op = "rename" => \E n \in Notebooks : call.id = {n}
  /\ call.op = "rename" /\ call.at = "list" =>
       \E c \in Copies : call.held = {c} /\ call.id = {c.id}
  /\ call.op = "new" /\ call.at = "list" => call.held # {}
  /\ call.op = "duplicate" /\ call.at = "post" => call.held # {}
  /\ call.op = "duplicate" /\ call.at = "list" => \E n \in Notebooks : call.id = {n}
  /\ call.at = "list" => call.got.tag # "missing"
  /\ call.at \in {"get", "source", "post", "fill"} /\ call.got.tag = "ok"
       => call.got.copies # {}
  /\ call.at = "patch" /\ call.got.tag = "ok" =>
       \E c \in Copies : call.got.copies = {c} /\ call.id = {c.id}

Held == call.held \union call.got.copies

\* What the handlers were told is true of a revision.
KnownInv ==
  /\ \A n \in Live : server[n].revision > 0
  /\ \A c \in notebook \union save.sent : server[c.id].revision > 0
  /\ \A c \in Held :
       /\ server[c.id].revision > 0
       /\ c.revision <= server[c.id].revision
       /\ c.revision = server[c.id].revision => c.content = server[c.id].content

\* Page, editor and save speak of one notebook, and nothing strays.
OwnInv ==
  ~crossed =>
    /\ StaysInItsNotebook
    /\ \A c \in notebook \union Held : c.content \subseteq made[c.id]
    /\ \A e \in editor : /\ e.content \subseteq made[e.of]
                         /\ \A c \in notebook : c.id = e.of
    /\ save.at = "put" => \A s \in save.sent : /\ s.content \subseteq made[s.id]
                                               /\ \A e \in editor : s.id = e.of

\* What is under way is what the editor shows, or nobody calls it saved.
TruthInv ==
  ~crossed =>
    /\ SavedIsTrue
    /\ save.at = "put" =>
         \A s \in save.sent :
           /\ save.version = changeVersion => \A e \in editor : s.content = e.content
           /\ save.version # changeVersion => ~saved \/ hasty
           /\ save.got.tag = "ok" => server[s.id].content = s.content

\* A rename of c was answered and the page does not know its revision yet.
Renamed(c) == call.op = "rename" /\ call.id = {c.id} /\ (call.at = "list" \/ call.got.tag = "ok")

News == IF call.at = "list" THEN call.held ELSE call.got.copies

InStepInv ==
  /\ call.op = "rename" /\ call.at = "list" /\ call.got.tag = "failed" => overtaken
  /\ ~crossed /\ ~overtaken =>
       /\ save.got.tag # "conflict"
       /\ \A c \in notebook :
            /\ save.at = "put" => ~Renamed(c) /\ \A s \in save.sent : s.revision = c.revision
            /\ save.at = "put" /\ save.got.tag = "ok" => server[c.id].revision = c.revision + 1
            /\ Renamed(c) => \A d \in News : d.revision = server[c.id].revision
            /\ ~Renamed(c) /\ ~(save.at = "put" /\ save.got.tag = "ok")
                 => server[c.id].revision = c.revision

IInv == TypeInv /\ SaveInv /\ CallInv /\ KnownInv /\ OwnInv /\ TruthInv /\ InStepInv
-----------------------------------------------------------------------------
(* Helpers.                                                                 *)

\* Pick takes a member of a set that is not empty.
LEMMA PickIn == \A S : S # {} => Pick(S) \in S
BY DEF Pick

\* ... and there is no choice in a set of one.
LEMMA PickOnly == \A x : Pick({x}) = x
BY DEF Pick

\* A page with a notebook has one, and one editor.
LEMMA OneShown ==
  ASSUME TypeInv, notebook # {}
  PROVE  /\ Shown \in Copies /\ notebook = {Shown}
         /\ \E e \in Editors : editor = {e} /\ Typed = e.content /\ Pick(editor) = e
<1>1. Shown \in notebook /\ Pick(editor) \in editor
  BY PickIn DEF TypeInv, Shown
<1>2. notebook = {Shown} /\ editor = {Pick(editor)}
  BY <1>1 DEF TypeInv, AtMostOne
<1>3. Shown \in Copies /\ Pick(editor) \in Editors
  BY <1>1 DEF TypeInv
<1> QED BY <1>2, <1>3 DEF Typed

\* The fields of a handler that got an answer.
LEMMA GotAnswer ==
  ASSUME call \in Calls, NEW tag \in Tags, NEW copies \in SUBSET Copies,
         call' = [call EXCEPT !.got = Answer(tag, copies)]
  PROVE  /\ call' \in Calls
         /\ call'.op = call.op /\ call'.at = call.at /\ call'.id = call.id
         /\ call'.held = call.held /\ call'.got = Answer(tag, copies)
         /\ call'.got.tag = tag /\ call'.got.copies = copies
BY DEF Calls, Answer, Answers

\* No handler is under way.
LEMMA NoCallTyped ==
  /\ NoCall \in Calls /\ NoCall.op = "none" /\ NoCall.at = "none" /\ NoCall.held = {}
  /\ NoCall.got.tag = "waiting" /\ NoCall.got.copies = {}
BY DEF NoCall, Calls, Ops, Awaits, Waiting, Answer, Answers, Tags

\* An answer reaches the save: only got changes.
LEMMA SaveGot ==
  ASSUME save \in Saves, NEW tag \in Tags, NEW copies \in SUBSET Copies,
         save' = [save EXCEPT !.got = Answer(tag, copies)]
  PROVE  /\ save' \in Saves
         /\ save'.at = save.at /\ save'.version = save.version /\ save'.sent = save.sent
         /\ save'.got.tag = tag /\ save'.got.copies = copies
BY DEF Saves, Answer, Answers

\* No save is under way, and one that starts.
LEMMA RestingTyped ==
  /\ Resting \in Saves /\ Resting.at = "none" /\ Resting.sent = {}
  /\ Resting.got = Waiting /\ Resting.got.tag = "waiting"
  /\ [Resting EXCEPT !.at = "list"] \in Saves
  /\ [Resting EXCEPT !.at = "list"].at = "list"
  /\ [Resting EXCEPT !.at = "list"].sent = {}
  /\ [Resting EXCEPT !.at = "list"].got.tag = "waiting"
BY DEF Resting, Saves, Waiting, Answer, Answers, Tags

\* The server's new record of n.
LEMMA WrittenTyped ==
  ASSUME server \in [Notebooks -> Records], NEW n \in Notebooks,
         NEW content \in SUBSET Changes, server' = Written(n, content)
  PROVE  /\ server' \in [Notebooks -> Records]
         /\ server'[n].revision = server[n].revision + 1
         /\ server'[n].content = content /\ server'[n].live
         /\ \A m \in Notebooks \ {n} : server'[m] = server[m]
         /\ \A m \in Notebooks : server[m].revision \in Nat
BY DEF Written, Records

-----------------------------------------------------------------------------
(* Steps of the same kind.                                                  *)

\* A handler that only goes on, or ends without touching the page.
LEMMA CallOnly ==
  ASSUME IInv, call' \in Calls, CallInv', Held' \subseteq Held,
         UNCHANGED <<server, notebook, editor, saved, changeVersion, save, made, crossed, hasty,
                     overtaken>>,
         \A c \in notebook : ~Renamed(c)' /\ (~Renamed(c) \/ overtaken),
         call'.op = "rename" => call'.at # "list"
  PROVE  IInv'
<1>1. TypeInv' /\ SaveInv'
  BY DEF IInv, TypeInv, SaveInv
<1>2. KnownInv'
  BY DEF IInv, KnownInv, Live
<1>3. OwnInv'
  BY DEF IInv, OwnInv, StaysInItsNotebook
<1>4. TruthInv'
  BY DEF IInv, TruthInv, SavedIsTrue
<1>5. InStepInv'
  BY DEF IInv, InStepInv
<1> QED BY <1>1, <1>2, <1>3, <1>4, <1>5 DEF IInv

\* The editor's document goes out under the id and the revision of c.
LEMMA SendStep ==
  ASSUME IInv, NEW c \in Copies, notebook # {}, Send(c),
         UNCHANGED <<server, editor, changeVersion, call, made, crossed>>,
         server[c.id].revision > 0, SavedIsTrue',
         ~crossed => \A e \in editor : c.id = e.of,
         ~crossed /\ ~overtaken /\ ~(call.op = "rename" /\ call.id = {c.id})
           => server[c.id].revision = c.revision
  PROVE  IInv'
<1>1. PICK e \in Editors : editor = {e} /\ Typed = e.content
  BY OneShown DEF IInv
<1>2. PICK s \in Copies : /\ s = [c EXCEPT !.content = Typed]
                         /\ s.id = c.id /\ s.revision = c.revision /\ s.content = e.content
  <2>1. /\ [c EXCEPT !.content = Typed] \in Copies
        /\ [c EXCEPT !.content = Typed].id = c.id
        /\ [c EXCEPT !.content = Typed].revision = c.revision
        /\ [c EXCEPT !.content = Typed].content = Typed
    BY <1>1 DEF Copies, Editors
  <2> QED BY <1>1, <2>1
<1>3. /\ notebook' = {s}
      /\ save' = [at |-> "put", version |-> changeVersion, sent |-> {s}, got |-> Waiting]
  BY <1>2 DEF Send
<1>4. /\ save' \in Saves /\ save'.at = "put" /\ save'.version = changeVersion
      /\ save'.sent = {s} /\ save'.got.tag = "waiting"
  BY <1>2, <1>3 DEF Saves, Waiting, Answer, Answers, Tags, IInv, TypeInv
<1>5. TypeInv'
  BY <1>1, <1>2, <1>3, <1>4 DEF IInv, TypeInv, AtMostOne
<1>6. SaveInv'
  BY <1>2, <1>3, <1>4, PageAssumption DEF SaveInv, IInv, TypeInv
<1>7. CallInv'
  BY DEF IInv, CallInv
<1>8. KnownInv'
  BY <1>2, <1>3, <1>4 DEF IInv, KnownInv, Live, Held
<1>9. OwnInv'
  <2> SUFFICES ASSUME ~crossed' PROVE OwnInv'
    BY DEF OwnInv
  <2>1. StaysInItsNotebook' /\ Held' = Held
    BY DEF IInv, OwnInv, StaysInItsNotebook, Held
  <2>2. /\ \A d \in Held : d.content \subseteq made[d.id]
        /\ e.content \subseteq made[e.of] /\ c.id = e.of
    BY <1>1 DEF IInv, OwnInv
  <2> QED BY <1>1, <1>2, <1>3, <1>4, <2>1, <2>2 DEF OwnInv
<1>10. TruthInv'
  BY <1>1, <1>2, <1>3, <1>4 DEF IInv, TruthInv
<1>11. InStepInv'
  <2>1. overtaken' = (overtaken \/ (call.op = "rename" /\ call.id = {c.id}))
    BY DEF Send
  <2>2. call.op = "rename" /\ call.at = "list" /\ call.got.tag = "failed" => overtaken'
    BY <2>1 DEF IInv, InStepInv
  <2>3. ASSUME ~crossed', ~overtaken'
        PROVE  ~Renamed(s)' /\ server'[s.id].revision = s.revision
    BY <1>2, <2>1, <2>3 DEF Renamed
  <2> QED BY <1>3, <1>4, <2>2, <2>3 DEF InStepInv
<1> QED BY <1>5, <1>6, <1>7, <1>8, <1>9, <1>10, <1>11 DEF IInv

\* A handler puts a copy it holds on the page.
LEMMA SetStep ==
  ASSUME IInv, NEW c \in Held, SetNotebook(c),
         call' \in Calls, CallInv', Held' \subseteq Held, call'.op # "rename",
         UNCHANGED <<server, changeVersion, save, made, overtaken>>
  PROVE  IInv'
<1>1. c \in Copies
  BY DEF IInv, TypeInv, Held, Calls, Answers
<1>2. /\ notebook' = {c} /\ editor' = {[of |-> c.id, content |-> c.content]}
      /\ crossed' = (crossed \/ save.at = "put" \/ c.revision # server[c.id].revision)
  BY DEF SetNotebook
<1>3. PICK e \in Editors : editor' = {e} /\ e.of = c.id /\ e.content = c.content
  <2>1. [of |-> c.id, content |-> c.content] \in Editors
    BY <1>1 DEF Editors, Copies
  <2> QED BY <1>2, <2>1
<1>4. TypeInv'
  BY <1>1, <1>2, <1>3 DEF IInv, TypeInv, AtMostOne
<1>5. SaveInv'
  BY <1>2 DEF IInv, SaveInv
<1>6. KnownInv'
  BY <1>2 DEF IInv, KnownInv, Live
<1>7. OwnInv'
  BY <1>2, <1>3 DEF IInv, OwnInv, StaysInItsNotebook
<1>8. ~crossed' => server[c.id].content = c.content
  BY <1>2 DEF IInv, KnownInv
<1>9. TruthInv'
  BY <1>2, <1>3, <1>8 DEF TruthInv, SavedIsTrue
<1>10. InStepInv'
  BY <1>2 DEF IInv, InStepInv, SaveInv, Renamed
<1> QED BY <1>4, <1>5, <1>6, <1>7, <1>9, <1>10 DEF IInv

-----------------------------------------------------------------------------
(* The handlers.                                                            *)

\* A handler of the page starts and sends its first request.
LEMMA StartStep ==
  ASSUME IInv, NEW op \in Ops, NEW at \in {"get", "post", "patch", "source", "delete"},
         NEW ids \in SUBSET Notebooks, Start(op, at, ids),
         op = "rename" <=> at = "patch", op # "duplicate" \/ at # "post",
         at # "post" => \E n \in Notebooks : ids = {n}
  PROVE  IInv'
<1>1. call = NoCall /\ call' = [NoCall EXCEPT !.op = op, !.at = at, !.id = ids]
  BY DEF Start
<1>2. /\ call' \in Calls /\ call'.op = op /\ call'.at = at /\ call'.id = ids
      /\ call'.held = {} /\ call'.got.tag = "waiting" /\ call'.got.copies = {}
  <2>1. at \in Awaits
    BY DEF Awaits
  <2> QED BY <1>1, <2>1, NoCallTyped DEF Calls
<1>3. CallInv'
  BY <1>2 DEF CallInv
<1>4. Held' \subseteq Held
  BY <1>2 DEF Held
<1>5. \A c \in notebook : ~Renamed(c)' /\ ~Renamed(c)
  BY <1>1, <1>2, NoCallTyped DEF Renamed
<1> QED BY <1>2, <1>3, <1>4, <1>5, CallOnly DEF Start, page, history

\* The handler is over and the page as it was.
LEMMA StopStep ==
  ASSUME IInv, call' = NoCall,
         UNCHANGED <<server, notebook, editor, saved, changeVersion, save, made, crossed, hasty,
                     overtaken>>,
         call.op = "rename" => \/ call.got.tag = "failed"
                               \/ call.got.tag = "missing" /\ call.at = "patch"
  PROVE  IInv'
<1>1. call' \in Calls /\ call'.op = "none" /\ call'.at = "none" /\ Held' = {}
  BY NoCallTyped DEF Held
<1>2. CallInv'
  BY <1>1 DEF CallInv
<1>3. \A c \in notebook : ~Renamed(c)' /\ (~Renamed(c) \/ overtaken)
  BY <1>1 DEF Renamed, IInv, InStepInv
<1> QED BY <1>1, <1>2, <1>3, CallOnly

\* The handler, no rename, goes on to its next await.
LEMMA GoStep ==
  ASSUME IInv, call.op # "rename", NEW at \in Awaits \ {"none", "patch"},
         NEW ids \in SUBSET Notebooks, NEW held \in SUBSET Held, Goes(at, ids, held),
         at \in {"get", "source", "delete"} => \E n \in Notebooks : ids = {n},
         call.op = "new" /\ at = "list" => held # {},
         call.op = "duplicate" /\ at = "post" => held # {},
         call.op = "duplicate" /\ at = "list" => \E n \in Notebooks : ids = {n}
  PROVE  IInv'
<1>1. Held \in SUBSET Copies
  BY DEF IInv, TypeInv, Held, Calls, Answers
<1>2. /\ call' \in Calls /\ call'.op = call.op /\ call'.at = at /\ call'.id = ids
      /\ call'.held = held /\ call'.got.tag = "waiting" /\ call'.got.copies = {}
  <2>1. call \in Calls /\ held \in SUBSET Copies /\ call' = Await(at, ids, held)
    BY <1>1 DEF Goes, IInv, TypeInv
  <2> QED BY <2>1 DEF Await, Calls, Waiting, Answer, Answers, Tags
<1>3. CallInv'
  BY <1>2 DEF CallInv
<1>4. Held' \subseteq Held
  BY <1>2 DEF Held
<1>5. \A c \in notebook : ~Renamed(c)' /\ ~Renamed(c)
  BY <1>2 DEF Renamed
<1> QED BY <1>2, <1>3, <1>4, <1>5, CallOnly DEF Goes, page, history

\* The handler ends with a copy it holds on the page.
LEMMA EndStep ==
  ASSUME IInv, NEW c \in Held, Ends(c)
  PROVE  IInv'
<1>1. call' \in Calls /\ call'.op = "none" /\ call'.at = "none" /\ Held' = {}
  BY NoCallTyped DEF Held, Ends
<1>2. CallInv'
  BY <1>1 DEF CallInv
<1> QED BY <1>1, <1>2, SetStep DEF Ends

\* The user opens, creates, imports, renames, duplicates or deletes.
LEMMA UserStarts ==
  ASSUME IInv, OpenNotebook \/ CreateNewNotebook \/ HandleImport \/ CommitRename
               \/ DuplicateNotebook \/ RemoveNotebook
  PROVE  IInv'
<1>1. ASSUME OpenNotebook PROVE IInv'
  BY <1>1, StartStep DEF OpenNotebook, Listed, Ops
<1>2. ASSUME CreateNewNotebook PROVE IInv'
  BY <1>2, StartStep DEF CreateNewNotebook, Ops
<1>3. ASSUME HandleImport PROVE IInv'
  BY <1>3, StartStep DEF HandleImport, Ops
<1>4. ASSUME CommitRename PROVE IInv'
  BY <1>4, StartStep DEF CommitRename, Listed, Ops
<1>5. ASSUME DuplicateNotebook PROVE IInv'
  BY <1>5, StartStep DEF DuplicateNotebook, Listed, Ops
<1>6. ASSUME RemoveNotebook PROVE IInv'
  BY <1>6, StartStep DEF RemoveNotebook, Listed, Ops
<1> QED BY <1>1, <1>2, <1>3, <1>4, <1>5, <1>6

\* openNotebook goes on.
LEMMA OpenStep ==
  ASSUME IInv, OpenContinues
  PROVE  IInv'
<1>1. ASSUME Answered({"open", "duplicate", "remove", "initialize"}, "get"),
             Ends(Pick(call.got.copies))
      PROVE  IInv'
  <2>1. Pick(call.got.copies) \in Held
    BY <1>1, PickIn DEF IInv, CallInv, Answered, Held
  <2> QED BY <1>1, <2>1, EndStep
<1>2. ASSUME call.at = "get", NEW c \in call.held, Ends(c) PROVE IInv'
  BY <1>2, EndStep DEF Held
<1>3. ASSUME call.at = "get", Stops PROVE IInv'
  BY <1>3, StopStep DEF Stops, page, history, IInv, CallInv
<1> QED BY <1>1, <1>2, <1>3 DEF OpenContinues

\* createNewNotebook goes on.
LEMMA CreateStep ==
  ASSUME IInv, CreateContinues
  PROVE  IInv'
<1>1. ASSUME Answered({"new"}, "post"), Goes("list", {}, call.got.copies) PROVE IInv'
  <2>1. call.got.copies # {} /\ call.got.copies \in SUBSET Held /\ call.op = "new"
    BY <1>1 DEF IInv, CallInv, Answered, Held
  <2> QED BY <1>1, <2>1, GoStep DEF Awaits
<1>2. ASSUME Answered({"new"}, "list"), Ends(Pick(call.held)) PROVE IInv'
  <2>1. Pick(call.held) \in Held
    BY <1>2, PickIn DEF IInv, CallInv, Answered, Held
  <2> QED BY <1>2, <2>1, EndStep
<1> QED BY <1>1, <1>2 DEF CreateContinues

\* handleImport goes on.
LEMMA ImportStep ==
  ASSUME IInv, ImportContinues
  PROVE  IInv'
<1>1. ASSUME Answered({"import"}, "post"), SetNotebook(Pick(call.got.copies)),
             call' = Await("list", {}, {}),
             UNCHANGED <<server, changeVersion, save, made, overtaken>>
      PROVE  IInv'
  <2>1. Pick(call.got.copies) \in Held
    BY <1>1, PickIn DEF IInv, CallInv, Answered, Held
  <2>2. /\ call' \in Calls /\ call'.op = call.op /\ call'.at = "list" /\ call'.held = {}
        /\ call'.got.tag = "waiting" /\ call'.got.copies = {}
    <3>1. "list" \in Awaits /\ call \in Calls
      BY DEF IInv, TypeInv, Awaits
    <3> QED BY <1>1, <3>1 DEF Await, Calls, Waiting, Answer, Answers, Tags
  <2>3. call.op = "import"
    BY <1>1 DEF Answered
  <2>4. CallInv' /\ Held' \subseteq Held
    BY <2>2, <2>3 DEF CallInv, Held
  <2> QED BY <1>1, <2>1, <2>2, <2>3, <2>4, SetStep
<1>2. ASSUME Answered({"import"}, "list"), saved' = TRUE, hasty' = (hasty \/ ~saved),
             call' = NoCall,
             UNCHANGED <<server, notebook, editor, changeVersion, save, made, crossed,
                         overtaken>>
      PROVE  IInv'
  <2>1. call' \in Calls /\ call'.op = "none" /\ call'.at = "none" /\ Held' = {}
    BY <1>2, NoCallTyped DEF Held
  <2>2. CallInv' /\ TypeInv' /\ SaveInv' /\ KnownInv'
    BY <1>2, <2>1 DEF CallInv, IInv, TypeInv, SaveInv, KnownInv, Live
  <2>3. OwnInv'
    BY <1>2, <2>1 DEF IInv, OwnInv, StaysInItsNotebook
  <2>4. TruthInv'
    BY <1>2 DEF IInv, TruthInv, SavedIsTrue
  <2>5. InStepInv'
    BY <1>2, <2>1 DEF IInv, InStepInv, Renamed, Answered
  <2> QED BY <2>1, <2>2, <2>3, <2>4, <2>5 DEF IInv
<1> QED BY <1>1, <1>2 DEF ImportContinues

\* A rename brings the page the revision it made.
LEMMA RenameStep ==
  ASSUME IInv, RenameContinues
  PROVE  IInv'
<1>1. ASSUME Answered({"rename"}, "patch"), Goes("list", call.id, call.got.copies) PROVE IInv'
  <2>1. call \in Calls /\ call.op = "rename" /\ call.at = "patch" /\ call.got.tag = "ok"
    BY <1>1 DEF Answered, IInv, TypeInv
  <2>2. PICK c \in Copies : call.got.copies = {c} /\ call.id = {c.id}
    BY <2>1 DEF IInv, CallInv
  <2>3. call.got.copies \in SUBSET Copies /\ call.id \in SUBSET Notebooks
    BY <2>1 DEF Calls, Answers
  <2>4. /\ call' \in Calls /\ call'.op = "rename" /\ call'.at = "list" /\ call'.id = call.id
        /\ call'.held = call.got.copies /\ call'.got.tag = "waiting" /\ call'.got.copies = {}
    BY <1>1, <2>1, <2>3 DEF Goes, Await, Calls, Awaits, Waiting, Answer, Answers, Tags
  <2>5. TypeInv' /\ SaveInv'
    BY <1>1, <2>4 DEF Goes, page, history, IInv, TypeInv, SaveInv
  <2>6. CallInv'
    BY <2>2, <2>4 DEF CallInv, Copies
  <2>7. Held' \subseteq Held
    BY <2>4 DEF Held
  <2>8. KnownInv' /\ OwnInv'
    BY <1>1, <2>7 DEF Goes, page, history, IInv, KnownInv, Live, OwnInv, StaysInItsNotebook
  <2>9. TruthInv'
    BY <1>1 DEF Goes, page, history, IInv, TruthInv, SavedIsTrue
  <2>10. \A d \in notebook : Renamed(d)' <=> Renamed(d)
    BY <2>1, <2>4 DEF Renamed
  <2>11. InStepInv'
    BY <1>1, <2>1, <2>4, <2>10 DEF Goes, page, history, IInv, InStepInv, News
  <2> QED BY <2>5, <2>6, <2>8, <2>9, <2>11 DEF IInv
<1>2. ASSUME Answered({"rename"}, "list"),
             notebook' = IF OnPage(Pick(call.id)) THEN call.held ELSE notebook,
             call' = NoCall,
             UNCHANGED <<server, editor, saved, changeVersion, save, made, crossed, hasty,
                         overtaken>>
      PROVE  IInv'
  <2>1. call \in Calls /\ call.op = "rename" /\ call.at = "list" /\ call.got.tag = "ok"
    BY <1>2 DEF Answered, IInv, TypeInv
  <2>2. PICK c \in Copies : call.held = {c} /\ call.id = {c.id}
    BY <2>1 DEF IInv, CallInv
  <2>3. call' \in Calls /\ call'.op = "none" /\ call'.at = "none" /\ Held' = {}
    BY <1>2, NoCallTyped DEF Held
  <2>4. Pick(call.id) = c.id
    BY <2>2, PickOnly
  <2>5. CASE OnPage(c.id)
    <3>1. notebook' = {c} /\ notebook # {} /\ \A d \in notebook : d.id = c.id
      BY <1>2, <2>2, <2>4, <2>5 DEF OnPage, IInv, TypeInv, AtMostOne
    <3>2. TypeInv'
      BY <1>2, <2>3, <3>1 DEF IInv, TypeInv, AtMostOne
    <3>3. SaveInv' /\ CallInv'
      BY <1>2, <2>3, <3>1 DEF IInv, SaveInv, CallInv
    <3>4. c \in Held
      BY <2>2 DEF Held
    <3>5. KnownInv'
      BY <1>2, <2>3, <3>1, <3>4 DEF IInv, KnownInv, Live
    <3>6. OwnInv'
      BY <1>2, <2>3, <3>1, <3>4 DEF IInv, OwnInv, StaysInItsNotebook
    <3>7. TruthInv'
      BY <1>2 DEF IInv, TruthInv, SavedIsTrue
    <3>8. \A d \in notebook : Renamed(d)
      BY <2>1, <2>2, <3>1 DEF Renamed
    <3>9. ~crossed /\ ~overtaken =>
            /\ save.at # "put" /\ c.revision = server[c.id].revision
            /\ save.got.tag # "conflict"
      BY <2>1, <2>2, <3>1, <3>8 DEF IInv, InStepInv, News
    <3>10. \A d \in notebook' : ~Renamed(d)'
      BY <2>3 DEF Renamed
    <3>11. InStepInv'
      BY <1>2, <2>3, <3>1, <3>9, <3>10 DEF InStepInv
    <3> QED BY <3>2, <3>3, <3>5, <3>6, <3>7, <3>11 DEF IInv
  <2>6. CASE ~OnPage(c.id)
    <3>1. notebook' = notebook
      BY <1>2, <2>4, <2>6
    <3>2. \A d \in notebook : ~Renamed(d) /\ ~Renamed(d)'
      BY <2>2, <2>3, <2>6 DEF Renamed, OnPage
    <3>3. CallInv'
      BY <2>3 DEF CallInv
    <3> QED BY <1>2, <2>3, <3>1, <3>2, <3>3, CallOnly
  <2> QED BY <2>5, <2>6
<1> QED BY <1>1, <1>2 DEF RenameContinues, history

\* duplicateNotebook goes on.
LEMMA DuplicateStep ==
  ASSUME IInv, DuplicateContinues
  PROVE  IInv'
<1> call \in Calls
  BY DEF IInv, TypeInv
<1>1. ASSUME Answered({"duplicate"}, "source"), Goes("post", {}, call.got.copies) PROVE IInv'
  <2>1. call.got.copies # {} /\ call.got.copies \in SUBSET Held /\ call.op = "duplicate"
    BY <1>1 DEF IInv, CallInv, Answered, Held
  <2> QED BY <1>1, <2>1, GoStep DEF Awaits
<1>2. ASSUME Answered({"duplicate"}, "post"), Goes("list", {Pick(call.got.copies).id}, {})
      PROVE  IInv'
  <2>1. Pick(call.got.copies) \in call.got.copies
    BY <1>2, PickIn DEF IInv, CallInv, Answered
  <2>2. /\ {Pick(call.got.copies).id} \in SUBSET Notebooks /\ {} \in SUBSET Held
        /\ \E n \in Notebooks : {Pick(call.got.copies).id} = {n}
    BY <2>1 DEF Calls, Answers, Copies
  <2>3. call.op = "duplicate"
    BY <1>2 DEF Answered
  <2> QED BY <1>2, <2>2, <2>3, GoStep DEF Awaits
<1>3. ASSUME Answered({"duplicate"}, "list"), Goes("get", call.id, {}) PROVE IInv'
  <2>1. call.op = "duplicate" /\ {} \in SUBSET Held /\ call.id \in SUBSET Notebooks
    BY <1>3 DEF Answered, Calls
  <2>2. \E n \in Notebooks : call.id = {n}
    BY <1>3 DEF IInv, CallInv, Answered
  <2> QED BY <1>3, <2>1, <2>2, GoStep DEF Awaits
<1> QED BY <1>1, <1>2, <1>3 DEF DuplicateContinues

\* ensureNotebookId goes on.
LEMMA EnsureStep ==
  ASSUME IInv, EnsureContinues
  PROVE  IInv'
<1>1. ASSUME call.at = "choose", Goes("fill", {}, {}) PROVE IInv'
  <2>1. call.op # "rename" /\ {} \in SUBSET Held /\ {} \in SUBSET Notebooks
    BY <1>1 DEF IInv, CallInv
  <2> QED BY <1>1, <2>1, GoStep DEF Awaits
<1>2. ASSUME Answered({"remove", "initialize"}, "fill"), Goes("choose", {}, {}) PROVE IInv'
  <2>1. call.op # "rename" /\ {} \in SUBSET Held /\ {} \in SUBSET Notebooks
    BY <1>2 DEF Answered
  <2> QED BY <1>2, <2>1, GoStep DEF Awaits
<1> QED BY <1>1, <1>2 DEF EnsureContinues

\* removeNotebook goes on.
LEMMA RemoveStep ==
  ASSUME IInv, RemoveContinues
  PROVE  IInv'
<1> call \in Calls /\ call.id \in SUBSET Notebooks /\ {} \in SUBSET Held
    /\ {} \in SUBSET Notebooks
  BY DEF IInv, TypeInv, Calls
<1>1. ASSUME Answered({"remove"}, "delete"), Goes("session", call.id, {}) PROVE IInv'
  BY <1>1, GoStep DEF Awaits, Answered
<1>2. ASSUME Answered({"remove"}, "session"), Goes("list", call.id, {}) PROVE IInv'
  BY <1>2, GoStep DEF Awaits, Answered
<1>3. ASSUME Answered({"remove"}, "list"), Goes("choose", {}, {}) PROVE IInv'
  BY <1>3, GoStep DEF Awaits, Answered
<1>4. ASSUME Answered({"remove"}, "list"), Stops PROVE IInv'
  BY <1>4, StopStep DEF Stops, page, history, Answered
<1>5. ASSUME Answered({"remove"}, "choose"), NEW c \in call.got.copies, Goes("get", {c.id}, {})
      PROVE  IInv'
  <2>1. c.id \in Notebooks
    BY DEF Calls, Answers, Copies
  <2> QED BY <1>5, <2>1, GoStep DEF Awaits, Answered
<1> QED BY <1>1, <1>2, <1>3, <1>4, <1>5 DEF RemoveContinues

\* The page is initialised.
LEMMA InitializeStep ==
  ASSUME IInv, InitializeContinues
  PROVE  IInv'
<1>1. Answered({"initialize"}, "choose")
  BY DEF InitializeContinues
<1>2. ASSUME NEW c \in call.got.copies, Ends(c) PROVE IInv'
  BY <1>2, EndStep DEF Held
<1>3. ASSUME NEW n \in Notebooks, Goes("get", {n}, call.got.copies) PROVE IInv'
  <2>1. call.got.copies \in SUBSET Held /\ {n} \in SUBSET Notebooks
    BY DEF Held
  <2> QED BY <1>1, <1>3, <2>1, GoStep DEF Awaits, Answered
<1> QED BY <1>2, <1>3 DEF InitializeContinues

\* A handler whose request failed ends.
LEMMA FailStep ==
  ASSUME IInv, CallFails
  PROVE  IInv'
<1>1. call.op = "rename" => \/ call.got.tag = "failed"
                            \/ call.got.tag = "missing" /\ call.at = "patch"
  BY DEF CallFails, IInv, CallInv
<1> QED BY <1>1, StopStep DEF CallFails, history

-----------------------------------------------------------------------------
(* The page's own steps.                                                    *)

\* persist() starts a save, or asks the one under way for another.
LEMMA PersistStep ==
  ASSUME IInv, Persist,
         UNCHANGED <<server, editor, saved, changeVersion, call, made, crossed, hasty>>
  PROVE  IInv'
<1>1. CASE saveInFlight \/ notebook = {}
  <2>1. UNCHANGED <<notebook, save, overtaken>>
    BY <1>1 DEF Persist
  <2>2. TypeInv' /\ SaveInv' /\ CallInv'
    BY <2>1 DEF IInv, TypeInv, SaveInv, CallInv
  <2>3. KnownInv' /\ OwnInv'
    BY <2>1 DEF IInv, KnownInv, Live, OwnInv, StaysInItsNotebook, Held
  <2>4. TruthInv'
    BY <2>1 DEF IInv, TruthInv, SavedIsTrue
  <2>5. InStepInv'
    BY <2>1 DEF IInv, InStepInv, News, Renamed
  <2> QED BY <2>2, <2>3, <2>4, <2>5 DEF IInv
<1>2. CASE ~saveInFlight /\ notebook # {}
  <2>1. Send(Shown) /\ save.at = "none"
    BY <1>2 DEF Persist, saveInFlight
  <2>2. PICK c \in Copies : c = Shown /\ notebook = {c}
    BY <1>2, OneShown DEF IInv
  <2>3. Send(c)
    BY <2>1, <2>2
  <2>4. server[c.id].revision > 0
    BY <2>2 DEF IInv, KnownInv
  <2>5. SavedIsTrue'
    BY DEF IInv, TruthInv, SavedIsTrue
  <2>6. ~crossed => \A e \in editor : c.id = e.of
    BY <2>2 DEF IInv, OwnInv
  <2>7. ~crossed /\ ~overtaken /\ ~(call.op = "rename" /\ call.id = {c.id})
          => server[c.id].revision = c.revision
    BY <2>1, <2>2 DEF IInv, InStepInv, Renamed
  <2> QED BY <1>2, <2>3, <2>4, <2>5, <2>6, <2>7, SendStep
<1> QED BY <1>1, <1>2

\* What an answered save knows, and the page beside it.
LEMMA SaveFacts ==
  ASSUME IInv, save.at = "put", save.got.tag = "ok"
  PROVE  \E s, c, n \in Copies :
           /\ save.sent = {s} /\ save.got.copies = {c} /\ Pick(save.got.copies) = c
           /\ c.id = s.id /\ c.revision = s.revision + 1 /\ c.content = s.content
           /\ notebook = {n} /\ Shown = n
           /\ server[c.id].revision > 0 /\ server[n.id].revision > 0
           /\ ~crossed => /\ n.id = c.id /\ server[c.id].content = c.content
                          /\ \A e \in editor : e.of = c.id
           /\ ~crossed /\ ~overtaken => server[c.id].revision = c.revision /\ ~Renamed(n)
<1>1. PICK s \in Copies :
        /\ save.sent = {s}
        /\ save.got.copies = {[id |-> s.id, revision |-> s.revision + 1,
                               content |-> s.content]}
  BY DEF IInv, SaveInv
<1>2. PICK c \in Copies : /\ save.got.copies = {c} /\ c.id = s.id
                          /\ c.revision = s.revision + 1 /\ c.content = s.content
  <2>1. [id |-> s.id, revision |-> s.revision + 1, content |-> s.content] \in Copies
    BY DEF Copies
  <2> QED BY <1>1, <2>1
<1>3. notebook # {} /\ \E e \in Editors : editor = {e}
  BY OneShown DEF IInv, SaveInv
<1>4. PICK n \in Copies : notebook = {n} /\ Shown = n
  BY <1>3, OneShown DEF IInv
<1>5. Pick(save.got.copies) = c
  BY <1>2, PickOnly
<1>6. server[c.id].revision > 0 /\ server[n.id].revision > 0
  BY <1>1, <1>2, <1>4 DEF IInv, KnownInv
<1>7. ~crossed => /\ n.id = c.id /\ server[c.id].content = c.content
                  /\ \A e \in editor : e.of = c.id
  BY <1>1, <1>2, <1>3, <1>4 DEF IInv, OwnInv, TruthInv
<1>8. ~crossed /\ ~overtaken => /\ s.revision = n.revision /\ ~Renamed(n)
                                /\ server[n.id].revision = n.revision + 1
  BY <1>1, <1>4 DEF IInv, InStepInv
<1> QED BY <1>1, <1>2, <1>4, <1>5, <1>6, <1>7, <1>8

\* The answer of a save is installed, and the save refreshes the list.
LEMMA InstallStep ==
  ASSUME IInv, save.at = "put", save.got.tag = "ok", SavedIsTrue',
         NEW c \in Copies, save.got.copies = {c}, notebook' = {c},
         save' = [Resting EXCEPT !.at = "list"],
         UNCHANGED <<server, editor, changeVersion, call, made, crossed, overtaken>>
  PROVE  IInv'
<1>1. PICK s \in Copies, n \in Copies :
           /\ save.sent = {s}
           /\ c.id = s.id /\ c.revision = s.revision + 1 /\ c.content = s.content
           /\ notebook = {n}
           /\ server[c.id].revision > 0
           /\ ~crossed => n.id = c.id /\ \A e \in editor : e.of = c.id
           /\ ~crossed /\ ~overtaken => server[c.id].revision = c.revision /\ ~Renamed(n)
  BY SaveFacts
<1>2. /\ save' \in Saves /\ save'.at = "list" /\ save'.sent = {}
      /\ save'.got.tag = "waiting" /\ save'.version = 0
  BY RestingTyped DEF Resting, Saves
<1>3. editor # {} /\ changeVersion \in Nat
  BY <1>1, PageAssumption DEF IInv, TypeInv
<1>4. TypeInv'
  BY <1>1, <1>2, <1>3 DEF IInv, TypeInv, AtMostOne
<1>5. SaveInv'
  BY <1>2, <1>3 DEF SaveInv
<1>6. CallInv'
  BY DEF IInv, CallInv
<1>7. KnownInv'
  BY <1>1, <1>2 DEF IInv, KnownInv, Live, Held
<1>8. OwnInv'
  BY <1>1, <1>2 DEF IInv, OwnInv, StaysInItsNotebook, Held
<1>9. TruthInv'
  BY <1>2 DEF TruthInv
<1>10. ~crossed /\ ~overtaken => ~Renamed(c)'
  BY <1>1 DEF Renamed
<1>11. InStepInv'
  BY <1>1, <1>2, <1>10 DEF IInv, InStepInv
<1> QED BY <1>4, <1>5, <1>6, <1>7, <1>8, <1>9, <1>11 DEF IInv

\* A save ends on the notebook it was sent for.
LEMMA SaveSameStep ==
  ASSUME IInv, SaveSame
  PROVE  IInv'
<1>1. save.at = "put" /\ save.got.tag = "ok" /\ changeVersion = save.version
  BY DEF SaveSame
<1>2. PICK s, c, n \in Copies :
           /\ save.sent = {s} /\ save.got.copies = {c} /\ Pick(save.got.copies) = c
           /\ c.id = s.id /\ c.content = s.content
           /\ notebook = {n}
           /\ server[c.id].revision > 0
           /\ ~crossed => /\ n.id = c.id /\ server[c.id].content = c.content
                          /\ \A e \in editor : e.of = c.id
           /\ ~crossed /\ ~overtaken => server[c.id].revision = c.revision
  BY <1>1, SaveFacts
<1>3. UNCHANGED <<server, editor, changeVersion, call, made, crossed>>
  BY DEF SaveSame
<1>4. SavedIsTrue'
  <2>1. ~crossed => \A e \in editor : server[e.of].content = e.content
    BY <1>1, <1>2 DEF IInv, TruthInv
  <2> QED BY <1>3, <2>1 DEF SavedIsTrue
<1>5. CASE saveAgain
  <2>1. Send(c)
    BY <1>2, <1>5 DEF SaveSame
  <2> QED BY <1>2, <1>3, <1>4, <2>1, SendStep
<1>6. CASE ~saveAgain
  <2>1. /\ notebook' = {c} /\ save' = [Resting EXCEPT !.at = "list"]
        /\ UNCHANGED overtaken
    BY <1>2, <1>6 DEF SaveSame
  <2> QED BY <1>1, <1>2, <1>3, <1>4, <2>1, InstallStep
<1> QED BY <1>5, <1>6

\* ... with newer changes, or another save asked for.
LEMMA SaveNewerStep ==
  ASSUME IInv, SaveNewer
  PROVE  IInv'
<1>1. save.at = "put" /\ save.got.tag = "ok"
  BY DEF SaveNewer
<1>2. PICK c, n \in Copies :
           /\ Pick(save.got.copies) = c
           /\ notebook = {n} /\ Shown = n
           /\ server[n.id].revision > 0
           /\ ~crossed => n.id = c.id /\ \A e \in editor : e.of = c.id
           /\ ~crossed /\ ~overtaken => server[c.id].revision = c.revision
  BY <1>1, SaveFacts
<1>3. PICK d \in Copies : d = [n EXCEPT !.revision = c.revision]
                          /\ d.id = n.id /\ d.revision = c.revision
  <2>1. /\ [n EXCEPT !.revision = c.revision] \in Copies
        /\ [n EXCEPT !.revision = c.revision].id = n.id
        /\ [n EXCEPT !.revision = c.revision].revision = c.revision
    BY DEF Copies
  <2> QED BY <2>1
<1>4. Send(d)
  BY <1>2, <1>3 DEF SaveNewer
<1>5. UNCHANGED <<server, editor, changeVersion, call, made, crossed>> /\ SavedIsTrue'
  BY DEF SaveNewer, IInv, TruthInv, SavedIsTrue
<1> QED BY <1>2, <1>3, <1>4, <1>5, SendStep

\* The save is over, and the page as it was.
LEMMA RestStep ==
  ASSUME IInv, save' = Resting, SavedIsTrue',
         save.at = "put" => save.got.tag # "ok",
         UNCHANGED <<server, notebook, editor, changeVersion, call, made, crossed, overtaken>>
  PROVE  IInv'
<1>1. /\ save' \in Saves /\ save'.at = "none" /\ save'.sent = {}
      /\ save'.got = Waiting /\ save'.got.tag = "waiting" /\ save'.version = 0
  BY RestingTyped DEF Resting
<1>2. TypeInv' /\ CallInv'
  BY <1>1 DEF IInv, TypeInv, CallInv
<1>3. SaveInv'
  BY <1>1, PageAssumption DEF SaveInv, IInv, TypeInv
<1>4. KnownInv'
  BY <1>1 DEF IInv, KnownInv, Live, Held
<1>5. OwnInv'
  BY <1>1 DEF IInv, OwnInv, StaysInItsNotebook, Held
<1>6. TruthInv'
  BY <1>1 DEF TruthInv
<1>7. InStepInv'
  BY <1>1 DEF IInv, InStepInv, News, Renamed
<1> QED BY <1>2, <1>3, <1>4, <1>5, <1>6, <1>7 DEF IInv

\* A save that has nothing to do ends.
LEMMA SaveEndsStep ==
  ASSUME IInv, SaveEnds
  PROVE  IInv'
<1>1. SavedIsTrue'
  BY DEF SaveEnds, page, history, IInv, TruthInv, SavedIsTrue
<1> QED BY <1>1, RestStep DEF SaveEnds, page, history

\* A save whose request failed ends.
LEMMA SaveFailsStep ==
  ASSUME IInv, SaveFails
  PROVE  IInv'
<1>1. SavedIsTrue'
  BY DEF SaveFails, SavedIsTrue
<1> QED BY <1>1, RestStep DEF SaveFails, history

\* What one more change makes of the history.
LEMMA MadeGrows ==
  ASSUME TypeInv, NEW id \in Notebooks, Changed(id)
  PROVE  /\ made' \in [Notebooks -> SUBSET Changes]
         /\ \A n \in Notebooks : made[n] \subseteq made'[n]
         /\ made'[id] = made[id] \union {changeVersion + 1}
         /\ changeVersion' \in 0..MaxChanges /\ changeVersion' > changeVersion
         /\ changeVersion \in Nat /\ changeVersion + 1 \in Changes
BY PageAssumption DEF TypeInv, Changed, Changes

\* The user changes the notebook on the page: n becomes p, and the editor's
\* document e becomes f, with the same content.
LEMMA EditStep ==
  ASSUME IInv, NEW n \in Copies, NEW p \in Copies, NEW f \in Editors, NEW id \in Notebooks,
         notebook = {n}, notebook' = {p}, editor' = {f}, Changed(id),
         p.id = n.id, p.revision = n.revision, f.content = p.content,
         ~crossed => p.id = id /\ f.of = id /\ p.content \subseteq made'[id],
         UNCHANGED <<server, save, call, crossed, overtaken>>
  PROVE  IInv'
<1>1. /\ made' \in [Notebooks -> SUBSET Changes]
      /\ \A m \in Notebooks : made[m] \subseteq made'[m]
      /\ changeVersion' \in 0..MaxChanges /\ changeVersion' > changeVersion
      /\ changeVersion \in Nat
  BY MadeGrows DEF IInv
<1>2. saved' = FALSE
  BY DEF Changed
<1>3. Held \subseteq Copies /\ save.sent \subseteq Copies /\ Held' = Held
  BY DEF Held, IInv, TypeInv, Calls, Saves, Answers
<1>4. TypeInv'
  BY <1>1 DEF IInv, TypeInv, AtMostOne
<1>5. save.version <= changeVersion /\ save.version \in Nat
  BY DEF IInv, SaveInv, TypeInv, Saves
<1>6. save.version <= changeVersion' /\ save.version # changeVersion'
  BY <1>1, <1>5
<1>7. SaveInv'
  BY <1>6 DEF IInv, SaveInv
<1>8. CallInv'
  BY DEF IInv, CallInv
<1>9. KnownInv'
  BY <1>3 DEF IInv, KnownInv, Live
<1>10. OwnInv'
  <2> SUFFICES ASSUME ~crossed PROVE OwnInv'
    BY DEF OwnInv
  <2>1. StaysInItsNotebook'
    <3> SUFFICES ASSUME NEW m \in Notebooks PROVE server[m].content \subseteq made'[m]
      BY DEF StaysInItsNotebook
    <3> QED BY <1>1 DEF IInv, OwnInv, StaysInItsNotebook
  <2>2. \A c \in Held : c.content \subseteq made'[c.id]
    <3> SUFFICES ASSUME NEW c \in Held PROVE c.content \subseteq made'[c.id]
      OBVIOUS
    <3>1. c.id \in Notebooks
      BY <1>3 DEF Copies
    <3> QED BY <1>1, <3>1 DEF IInv, OwnInv
  <2>3. save.at = "put" => \A s \in save.sent : s.content \subseteq made'[s.id] /\ s.id = f.of
    <3> SUFFICES ASSUME save.at = "put", NEW s \in save.sent
                 PROVE  s.content \subseteq made'[s.id] /\ s.id = f.of
      OBVIOUS
    <3>1. s.id \in Notebooks
      BY <1>3 DEF Copies
    <3>2. PICK e \in editor : TRUE
      BY DEF IInv, TypeInv
    <3>3. s.content \subseteq made[s.id] /\ s.id = e.of /\ n.id = e.of
      BY <3>2 DEF IInv, OwnInv
    <3> QED BY <1>1, <3>1, <3>3
  <2> QED BY <1>3, <2>1, <2>2, <2>3 DEF OwnInv
<1>11. TruthInv'
  BY <1>2, <1>6 DEF IInv, TruthInv, SavedIsTrue
<1>12. Renamed(p)' <=> Renamed(n)
  BY DEF Renamed
<1>13. InStepInv'
  BY <1>12 DEF IInv, InStepInv, News
<1> QED BY <1>4, <1>7, <1>8, <1>9, <1>10, <1>11, <1>13 DEF IInv

\* The user edits.
LEMMA EditorEditStep ==
  ASSUME IInv, EditorEdit
  PROVE  IInv'
<1>1. PICK n \in Copies, e \in Editors :
        /\ notebook = {n} /\ editor = {e} /\ Typed = e.content /\ Pick(editor) = e
  BY OneShown DEF EditorEdit, IInv
<1>2. PICK content : content = e.content \union {changeVersion + 1}
  OBVIOUS
<1>3. /\ Changed(e.of)
      /\ editor' = {[x EXCEPT !.content = content] : x \in editor}
      /\ notebook' = {[c EXCEPT !.content = content] : c \in notebook}
      /\ UNCHANGED <<server, save, call, crossed, overtaken>>
  BY <1>1, <1>2 DEF EditorEdit
<1>4. e.of \in Notebooks
  BY DEF Editors
<1>5. /\ changeVersion + 1 \in Changes
      /\ made'[e.of] = made[e.of] \union {changeVersion + 1}
  BY <1>3, <1>4, MadeGrows DEF IInv
<1>6. content \in SUBSET Changes
  BY <1>2, <1>5 DEF Editors
<1>7. PICK f \in Editors : f = [e EXCEPT !.content = content] /\ f.of = e.of
                           /\ f.content = content
  <2>1. /\ [e EXCEPT !.content = content] \in Editors
        /\ [e EXCEPT !.content = content].of = e.of
        /\ [e EXCEPT !.content = content].content = content
    BY <1>6 DEF Editors
  <2> QED BY <2>1
<1>8. PICK p \in Copies : p = [n EXCEPT !.content = content] /\ p.id = n.id
                          /\ p.revision = n.revision /\ p.content = content
  <2>1. /\ [n EXCEPT !.content = content] \in Copies
        /\ [n EXCEPT !.content = content].id = n.id
        /\ [n EXCEPT !.content = content].revision = n.revision
        /\ [n EXCEPT !.content = content].content = content
    BY <1>6 DEF Copies
  <2> QED BY <2>1
<1>9. notebook' = {p} /\ editor' = {f}
  BY <1>1, <1>3, <1>7, <1>8
<1>10. ~crossed => p.id = e.of /\ p.content \subseteq made'[e.of]
  BY <1>1, <1>2, <1>5, <1>8 DEF IInv, OwnInv
<1> QED BY <1>1, <1>3, <1>4, <1>7, <1>8, <1>9, <1>10, EditStep

\* The editor reports the change to the page.
LEMMA PageEditStep ==
  ASSUME IInv, PageEdit
  PROVE  IInv'
<1>1. PICK n \in Copies : notebook = {n} /\ Shown = n
  BY OneShown DEF PageEdit, IInv
<1>2. PICK content : content = n.content \union {changeVersion + 1}
  OBVIOUS
<1>3. /\ Changed(n.id)
      /\ editor' = {[of |-> n.id, content |-> content]}
      /\ notebook' = {[n EXCEPT !.content = content]}
      /\ UNCHANGED <<server, save, call, crossed, overtaken>>
  BY <1>1, <1>2 DEF PageEdit
<1>4. n.id \in Notebooks
  BY DEF Copies
<1>5. /\ changeVersion + 1 \in Changes
      /\ made'[n.id] = made[n.id] \union {changeVersion + 1}
  BY <1>3, <1>4, MadeGrows DEF IInv
<1>6. content \in SUBSET Changes
  BY <1>2, <1>5 DEF Copies
<1>7. PICK f \in Editors : f = [of |-> n.id, content |-> content] /\ f.of = n.id
                           /\ f.content = content
  <2>1. [of |-> n.id, content |-> content] \in Editors
    BY <1>4, <1>6 DEF Editors
  <2> QED BY <2>1
<1>8. PICK p \in Copies : p = [n EXCEPT !.content = content] /\ p.id = n.id
                          /\ p.revision = n.revision /\ p.content = content
  <2>1. /\ [n EXCEPT !.content = content] \in Copies
        /\ [n EXCEPT !.content = content].id = n.id
        /\ [n EXCEPT !.content = content].revision = n.revision
        /\ [n EXCEPT !.content = content].content = content
    BY <1>6 DEF Copies
  <2> QED BY <2>1
<1>9. notebook' = {p} /\ editor' = {f}
  BY <1>3, <1>7, <1>8
<1>10. ~crossed => p.content \subseteq made'[n.id]
  BY <1>1, <1>2, <1>5, <1>8 DEF IInv, OwnInv
<1> QED BY <1>1, <1>3, <1>4, <1>7, <1>8, <1>9, <1>10, EditStep

-----------------------------------------------------------------------------
(* The server.                                                              *)

\* An answer that changes nothing at the server.
LEMMA ReadStep ==
  ASSUME IInv, call.got = Waiting, NEW tag \in {"ok", "missing"}, NEW copies \in SUBSET Copies,
         call' = [call EXCEPT !.got = Answer(tag, copies)],
         \A c \in copies : /\ c.id \in Live /\ c.revision = server[c.id].revision
                           /\ c.content = server[c.id].content,
         tag = "ok" => call.at # "patch" /\ (call.at \in {"get", "source"} => copies # {})
                       /\ call.at \notin {"post", "fill"},
         tag = "missing" => call.at # "list",
         overtaken => overtaken',
         UNCHANGED <<server, notebook, editor, saved, changeVersion, save, made, crossed, hasty>>
  PROVE  IInv'
<1>1. /\ call' \in Calls /\ call'.op = call.op /\ call'.at = call.at /\ call'.id = call.id
      /\ call'.held = call.held /\ call'.got.tag = tag /\ call'.got.copies = copies
  <2>1. call \in Calls /\ tag \in Tags
    BY DEF IInv, TypeInv, Tags
  <2> QED BY <2>1 DEF Calls, Answer, Answers
<1>2. TypeInv' /\ SaveInv'
  BY <1>1 DEF IInv, TypeInv, SaveInv
<1>3. CallInv'
  BY <1>1 DEF IInv, CallInv
<1>4. Held' \subseteq Held \union copies
  BY <1>1 DEF Held
<1>5. \A c \in copies : server[c.id].revision > 0
  BY DEF IInv, KnownInv
<1>6. KnownInv'
  BY <1>4, <1>5, PageAssumption DEF IInv, KnownInv, Live, Copies
<1>7. OwnInv'
  <2> SUFFICES ASSUME ~crossed PROVE OwnInv'
    BY DEF OwnInv
  <2>1. \A c \in copies : c.content \subseteq made[c.id]
    BY DEF IInv, OwnInv, StaysInItsNotebook, Live
  <2> QED BY <1>4, <2>1 DEF IInv, OwnInv, StaysInItsNotebook
<1>8. TruthInv'
  BY DEF IInv, TruthInv, SavedIsTrue
<1>9. \A c \in notebook : Renamed(c)' <=> Renamed(c)
  BY <1>1 DEF Renamed, IInv, CallInv, Waiting, Answer
<1>10. InStepInv'
  <2>1. call'.got.tag # "failed" /\ \A c \in notebook : Renamed(c) => call.at = "list"
    BY <1>1 DEF Renamed, Waiting, Answer
  <2> QED BY <1>1, <1>9, <2>1 DEF IInv, InStepInv, News
<1> QED BY <1>2, <1>3, <1>6, <1>7, <1>8, <1>10 DEF IInv

\* A new notebook is stored.
LEMMA CreatedStep ==
  ASSUME IInv, call.at \in {"post", "fill"}, NEW content \in SUBSET Changes, Create(content),
         overtaken => overtaken',
         UNCHANGED <<notebook, editor, saved, changeVersion, save, crossed, hasty>>
  PROVE  IInv'
<1>1. PICK n \in Notebooks : /\ server[n].revision = 0 /\ server' = Written(n, content)
                             /\ made' = [made EXCEPT ![n] = content]
                             /\ call' = [call EXCEPT !.got =
                                  Answer("ok", {[id |-> n, revision |-> 1,
                                                 content |-> content]})]
  <2>1. Unused # {} /\ Pick(Unused) \in Unused
    BY PickIn DEF Create
  <2> QED BY <2>1 DEF Create, Unused
<1>2. PICK c \in Copies : /\ c = [id |-> n, revision |-> 1, content |-> content]
                          /\ c.id = n /\ c.revision = 1 /\ c.content = content
  <2>1. [id |-> n, revision |-> 1, content |-> content] \in Copies
    BY DEF Copies
  <2> QED BY <2>1
<1>3. /\ call' \in Calls /\ call'.op = call.op /\ call'.at = call.at /\ call'.id = call.id
      /\ call'.held = call.held /\ call'.got.tag = "ok" /\ call'.got.copies = {c}
  <2>1. call \in Calls /\ call' = [call EXCEPT !.got = Answer("ok", {c})]
    BY <1>1, <1>2 DEF IInv, TypeInv
  <2> QED BY <2>1 DEF Calls, Answer, Answers, Tags
<1>4. /\ server' \in [Notebooks -> Records]
      /\ server'[n].revision = 1 /\ server'[n].content = content
      /\ \A m \in Notebooks \ {n} : server'[m] = server[m]
  <2>1. server \in [Notebooks -> Records]
    BY DEF IInv, TypeInv
  <2> QED BY <1>1, <2>1, WrittenTyped
<1>5. /\ made' \in [Notebooks -> SUBSET Changes] /\ made'[n] = content
      /\ \A m \in Notebooks \ {n} : made'[m] = made[m]
  BY <1>1 DEF IInv, TypeInv
<1>6. \A d \in notebook \union save.sent \union Held : d \in Copies /\ d.id \in Notebooks \ {n}
  BY <1>1 DEF IInv, TypeInv, KnownInv, Held, Calls, Saves, Answers, Copies
<1>7. Held' \subseteq Held \union {c}
  BY <1>3 DEF Held
<1>8. TypeInv'
  BY <1>3, <1>4, <1>5 DEF IInv, TypeInv
<1>9. SaveInv'
  BY DEF IInv, SaveInv
<1>10. CallInv'
  BY <1>3 DEF IInv, CallInv
<1>11. KnownInv'
  <2>1. \A m \in Live' : server'[m].revision > 0
    BY <1>4 DEF IInv, KnownInv, Live
  <2>2. \A d \in notebook \union save.sent : server'[d.id].revision > 0
    BY <1>4, <1>6 DEF IInv, KnownInv
  <2>3. \A d \in Held : /\ server'[d.id].revision > 0
                        /\ d.revision <= server'[d.id].revision
                        /\ d.revision = server'[d.id].revision
                             => d.content = server'[d.id].content
    BY <1>4, <1>6 DEF IInv, KnownInv
  <2> QED BY <1>2, <1>4, <1>7, <2>1, <2>2, <2>3 DEF KnownInv
<1>12. ~crossed => \A e \in editor : e.of \in Notebooks \ {n}
  BY <1>6 DEF IInv, OwnInv, TypeInv
<1>13. OwnInv'
  <2> SUFFICES ASSUME ~crossed PROVE OwnInv'
    BY DEF OwnInv
  <2>1. StaysInItsNotebook'
    BY <1>4, <1>5 DEF IInv, OwnInv, StaysInItsNotebook
  <2>2. \A d \in notebook \union Held : d.content \subseteq made'[d.id]
    BY <1>5, <1>6 DEF IInv, OwnInv
  <2>3. \A e \in editor : /\ e.content \subseteq made'[e.of]
                          /\ \A d \in notebook : d.id = e.of
    BY <1>5, <1>12 DEF IInv, OwnInv
  <2>4. save.at = "put" => \A s \in save.sent : /\ s.content \subseteq made'[s.id]
                                                /\ \A e \in editor : s.id = e.of
    BY <1>5, <1>6 DEF IInv, OwnInv
  <2> QED BY <1>2, <1>5, <1>7, <2>1, <2>2, <2>3, <2>4 DEF OwnInv
<1>14. TruthInv'
  BY <1>4, <1>6, <1>12 DEF IInv, TruthInv, SavedIsTrue
<1>15. call.op # "rename" \/ call.at = "list"
  BY DEF IInv, CallInv
<1>16. \A d \in notebook : ~Renamed(d)' /\ ~Renamed(d)
  BY <1>3, <1>15 DEF Renamed, IInv, CallInv
<1>17. InStepInv'
  BY <1>3, <1>4, <1>6, <1>16 DEF IInv, InStepInv
<1> QED BY <1>8, <1>9, <1>10, <1>11, <1>13, <1>14, <1>17 DEF IInv

\* A rename is stored: the revision moves, the content stays.
LEMMA PatchedStep ==
  ASSUME IInv, call.at = "patch", NEW n \in Live, call.id = {n},
         server' = Written(n, server[n].content),
         call' = [call EXCEPT !.got = Answer("ok", {[Copy(n) EXCEPT !.revision = @ + 1]})],
         overtaken' = (overtaken \/ (call.at = "patch" /\ OnPage(n) /\ save.at = "put")),
         UNCHANGED <<notebook, editor, saved, changeVersion, save, made, crossed, hasty>>
  PROVE  IInv'
<1>0. n \in Notebooks /\ server \in [Notebooks -> Records] /\ call \in Calls
      /\ server[n].content \in SUBSET Changes
  BY DEF Live, IInv, TypeInv, Records
<1>1. /\ server' \in [Notebooks -> Records]
      /\ server'[n].revision = server[n].revision + 1
      /\ server'[n].content = server[n].content /\ server'[n].live /\ server[n].live
      /\ \A m \in Notebooks \ {n} : server'[m] = server[m]
      /\ \A m \in Notebooks : server[m].revision \in Nat
  BY <1>0, WrittenTyped DEF Live
<1>2. PICK c \in Copies : /\ c = [Copy(n) EXCEPT !.revision = @ + 1]
                          /\ c.id = n /\ c.revision = server'[n].revision
                          /\ c.content = server'[n].content
  <2>1. [Copy(n) EXCEPT !.revision = @ + 1]
          = [id |-> n, revision |-> server[n].revision + 1, content |-> server[n].content]
    BY DEF Copy
  <2>2. [id |-> n, revision |-> server[n].revision + 1, content |-> server[n].content] \in Copies
    BY <1>0, <1>1 DEF Copies
  <2> QED BY <1>1, <2>1, <2>2
<1>3. /\ call' \in Calls /\ call'.op = call.op /\ call'.at = "patch" /\ call'.id = {n}
      /\ call'.held = call.held /\ call'.got.tag = "ok" /\ call'.got.copies = {c}
  <2>1. call' = [call EXCEPT !.got = Answer("ok", {c})]
    BY <1>2
  <2> QED BY <1>0, <2>1 DEF Calls, Answer, Answers, Tags
<1>4. Held' \subseteq Held \union {c}
  BY <1>3 DEF Held
<1>5. TypeInv'
  BY <1>1, <1>3 DEF IInv, TypeInv
<1>6. SaveInv'
  BY DEF IInv, SaveInv
<1>7. CallInv'
  BY <1>2, <1>3 DEF IInv, CallInv
<1>8. \A d \in notebook \union save.sent \union Held : d \in Copies /\ d.id \in Notebooks
                                                       /\ d.revision \in Nat
  BY DEF IInv, TypeInv, Held, Calls, Saves, Answers, Copies
<1>9. KnownInv'
  <2>1. \A m \in Live' : server'[m].revision > 0
    BY <1>0, <1>1 DEF IInv, KnownInv, Live
  <2>2. \A d \in notebook \union save.sent : server'[d.id].revision > 0
    BY <1>1, <1>8 DEF IInv, KnownInv
  <2>3. \A d \in Held : /\ server'[d.id].revision > 0
                        /\ d.revision <= server'[d.id].revision
                        /\ d.revision = server'[d.id].revision
                             => d.content = server'[d.id].content
    BY <1>1, <1>8 DEF IInv, KnownInv
  <2>4. server'[n].revision > 0
    BY <1>0, <1>1
  <2>5. server'[n].revision \in Nat
    BY <1>0, <1>1
  <2>6. \A d \in Held' : /\ server'[d.id].revision > 0
                         /\ d.revision <= server'[d.id].revision
                         /\ d.revision = server'[d.id].revision
                              => d.content = server'[d.id].content
    <3>1. ASSUME NEW d \in Held', d = c
          PROVE  /\ server'[d.id].revision > 0
                 /\ d.revision <= server'[d.id].revision
                 /\ d.content = server'[d.id].content
      BY <1>2, <2>4, <2>5, <3>1
    <3> QED BY <1>4, <2>3, <3>1
  <2> QED BY <2>1, <2>2, <2>6 DEF KnownInv
<1>10. OwnInv'
  <2> SUFFICES ASSUME ~crossed PROVE OwnInv'
    BY DEF OwnInv
  <2>1. StaysInItsNotebook'
    BY <1>0, <1>1 DEF IInv, OwnInv, StaysInItsNotebook
  <2>2. c.content \subseteq made[c.id]
    BY <1>0, <1>1, <1>2 DEF IInv, OwnInv, StaysInItsNotebook
  <2> QED BY <1>4, <2>1, <2>2 DEF IInv, OwnInv
<1>11. \A m \in Notebooks : /\ server'[m].content = server[m].content
                            /\ server'[m].live = server[m].live
  BY <1>0, <1>1 DEF Records
<1>12. TruthInv'
  BY <1>8, <1>11 DEF IInv, TruthInv, SavedIsTrue, TypeInv, Editors
<1>13. \A d \in notebook : /\ Renamed(d)' <=> d.id = n
                           /\ d.id # n => ~Renamed(d)
                           /\ d.id = n => OnPage(n)
  BY <1>3 DEF Renamed, IInv, CallInv, OnPage
<1>14. InStepInv'
  <2>1. call'.got.tag # "failed" /\ call'.at # "list"
    BY <1>3
  <2> SUFFICES ASSUME ~crossed, ~overtaken' PROVE InStepInv'
    BY <2>1 DEF InStepInv
  <2>2. ~overtaken /\ (OnPage(n) => save.at # "put")
    OBVIOUS
  <2>3. save.got.tag # "conflict"
    BY <2>2 DEF IInv, InStepInv
  <2>4. ASSUME NEW d \in notebook, d.id = n
        PROVE  Renamed(d)' /\ save.at # "put"
    BY <1>13, <2>2, <2>4
  <2>5. ASSUME NEW d \in notebook, d.id # n
        PROVE  /\ ~Renamed(d)'
               /\ save.at = "put" => \A s \in save.sent : s.revision = d.revision
               /\ save.at = "put" /\ save.got.tag = "ok"
                    => server'[d.id].revision = d.revision + 1
               /\ ~(save.at = "put" /\ save.got.tag = "ok")
                    => server'[d.id].revision = d.revision
    <3>1. server'[d.id] = server[d.id] /\ ~Renamed(d) /\ ~Renamed(d)'
      BY <1>1, <1>8, <1>13, <2>5
    <3> QED BY <2>2, <3>1 DEF IInv, InStepInv
  <2>6. \A d \in call'.got.copies : d.revision = server'[n].revision
    BY <1>2, <1>3
  <2>7. ASSUME NEW d \in notebook
        PROVE  /\ save.at = "put" => ~Renamed(d)' /\ \A s \in save.sent : s.revision = d.revision
               /\ save.at = "put" /\ save.got.tag = "ok"
                    => server'[d.id].revision = d.revision + 1
               /\ ~Renamed(d)' /\ ~(save.at = "put" /\ save.got.tag = "ok")
                    => server'[d.id].revision = d.revision
    BY <2>4, <2>5
  <2>8. \A d \in News' : d.revision = server'[n].revision
    BY <2>1, <2>6 DEF News
  <2>9. ASSUME NEW d \in notebook, Renamed(d)'
        PROVE  \A x \in News' : x.revision = server'[d.id].revision
    BY <1>13, <2>8, <2>9
  <2> QED BY <2>1, <2>3, <2>7, <2>9 DEF InStepInv
<1> QED BY <1>5, <1>6, <1>7, <1>9, <1>10, <1>12, <1>14 DEF IInv

\* A notebook is deleted: its revision and its content stay.
LEMMA DeletedStep ==
  ASSUME IInv, call.got = Waiting, call.at = "delete", NEW n \in Live,
         server' = [server EXCEPT ![n].live = FALSE],
         call' = [call EXCEPT !.got = Answer("ok", {})],
         overtaken => overtaken',
         UNCHANGED <<notebook, editor, saved, changeVersion, save, made, crossed, hasty>>
  PROVE  IInv'
<1>1. /\ n \in Notebooks /\ server \in [Notebooks -> Records] /\ call \in Calls
  BY DEF Live, IInv, TypeInv
<1>2. /\ server' \in [Notebooks -> Records]
      /\ \A m \in Notebooks : /\ server'[m].content = server[m].content
                              /\ server'[m].revision = server[m].revision
                              /\ server'[m].live => server[m].live
  BY <1>1 DEF Records
<1>3. /\ call' \in Calls /\ call'.op = call.op /\ call'.at = call.at /\ call'.id = call.id
      /\ call'.held = call.held /\ call'.got.tag = "ok" /\ call'.got.copies = {}
  BY <1>1 DEF Calls, Answer, Answers, Tags
<1>4. Held' \subseteq Held
  BY <1>3 DEF Held
<1>5. TypeInv' /\ SaveInv'
  BY <1>2, <1>3 DEF IInv, TypeInv, SaveInv
<1>6. CallInv'
  BY <1>3 DEF IInv, CallInv
<1>7. \A d \in notebook \union save.sent \union Held : d.id \in Notebooks
  BY DEF IInv, TypeInv, Held, Calls, Saves, Answers, Copies
<1>8. KnownInv'
  BY <1>2, <1>4, <1>7 DEF IInv, KnownInv, Live
<1>9. OwnInv'
  BY <1>2, <1>4 DEF IInv, OwnInv, StaysInItsNotebook
<1>10. \A e \in editor : e.of \in Notebooks
  BY DEF IInv, TypeInv, Editors
<1>11. TruthInv'
  BY <1>2, <1>7, <1>10 DEF IInv, TruthInv, SavedIsTrue
<1>12. \A c \in notebook : Renamed(c)' <=> Renamed(c)
  BY <1>3 DEF Renamed, IInv, CallInv
<1>13. InStepInv'
  BY <1>2, <1>3, <1>7, <1>12 DEF IInv, InStepInv, News
<1> QED BY <1>5, <1>6, <1>8, <1>9, <1>11, <1>13 DEF IInv

\* The service answers a handler's request.
LEMMA AnswerCallStep ==
  ASSUME IInv, AnswerCall
  PROVE  IInv'
<1> DEFINE n == Pick(call.id)
<1>1. /\ call.at # "none" /\ call.got = Waiting
      /\ overtaken' = (overtaken \/ (call.at = "patch" /\ OnPage(n) /\ save.at = "put"))
      /\ overtaken => overtaken'
      /\ UNCHANGED <<notebook, editor, saved, changeVersion, save, crossed, hasty>>
  BY DEF AnswerCall, page
<1>2. \A m \in Live : /\ Copy(m) \in Copies /\ Copy(m).id \in Live
                      /\ Copy(m).revision = server[Copy(m).id].revision
                      /\ Copy(m).content = server[Copy(m).id].content
  <2> SUFFICES ASSUME NEW m \in Live
               PROVE  /\ Copy(m) \in Copies /\ Copy(m).id = m
                      /\ Copy(m).revision = server[m].revision
                      /\ Copy(m).content = server[m].content
    OBVIOUS
  <2>1. server[m] \in Records /\ m \in Notebooks
    BY DEF Live, IInv, TypeInv
  <2> QED BY <2>1 DEF Copy, Records, Copies
<1>3. ASSUME call.at \in {"get", "source"}, n \in Live,
             call' = [call EXCEPT !.got = Answer("ok", {Copy(n)})], UNCHANGED <<server, made>>
      PROVE  IInv'
  <2>1. {Copy(n)} \in SUBSET Copies /\ {Copy(n)} # {}
    BY <1>2, <1>3
  <2> HIDE DEF n
  <2> QED BY <1>1, <1>2, <1>3, <2>1, ReadStep
<1>4. ASSUME call.at \in {"list", "choose"},
             call' = [call EXCEPT !.got = Answer("ok", {Copy(m) : m \in Live})],
             UNCHANGED <<server, made>>
      PROVE  IInv'
  <2>1. PICK copies \in SUBSET Copies : copies = {Copy(m) : m \in Live}
    BY <1>2
  <2>2. call' = [call EXCEPT !.got = Answer("ok", copies)]
    BY <1>4, <2>1
  <2>3. \A c \in copies : /\ c.id \in Live /\ c.revision = server[c.id].revision
                          /\ c.content = server[c.id].content
    BY <1>2, <2>1
  <2> QED BY <1>1, <1>4, <2>2, <2>3, ReadStep
<1>5. ASSUME call.at = "session", call' = [call EXCEPT !.got = Answer("ok", {})],
             UNCHANGED <<server, made>>
      PROVE  IInv'
  <2>1. {} \in SUBSET Copies
    OBVIOUS
  <2> QED BY <1>1, <1>5, <2>1, ReadStep
<1>6. ASSUME call.at \in {"get", "source", "patch", "delete"},
             call' = [call EXCEPT !.got = Answer("missing", {})], UNCHANGED <<server, made>>
      PROVE  IInv'
  <2>1. {} \in SUBSET Copies
    OBVIOUS
  <2> QED BY <1>1, <1>6, <2>1, ReadStep
<1>7. ASSUME call.at = "post",
             Create(IF call.op = "duplicate" THEN Pick(call.held).content ELSE {})
      PROVE  IInv'
  <2>1. call.held \in SUBSET Copies
    BY DEF IInv, TypeInv, Calls
  <2>2. call.op = "duplicate" => Pick(call.held) \in Copies
    BY <1>7, <2>1, PickIn DEF IInv, CallInv
  <2>3. PICK content \in SUBSET Changes :
          content = IF call.op = "duplicate" THEN Pick(call.held).content ELSE {}
    BY <2>2 DEF Copies
  <2>4. Create(content)
    BY <1>7, <2>3
  <2> QED BY <1>1, <1>7, <2>4, CreatedStep
<1>8. ASSUME call.at = "fill", Create({}) PROVE IInv'
  <2>1. {} \in SUBSET Changes
    OBVIOUS
  <2> QED BY <1>1, <1>8, <2>1, CreatedStep
<1>9. ASSUME call.at = "patch", n \in Live, server' = Written(n, server[n].content),
             call' = [call EXCEPT !.got = Answer("ok", {[Copy(n) EXCEPT !.revision = @ + 1]})],
             UNCHANGED made
      PROVE  IInv'
  <2>1. PICK m \in Notebooks : call.id = {m}
    BY <1>9 DEF IInv, CallInv
  <2>2. n = m
    BY <2>1, PickOnly
  <2> HIDE DEF n
  <2> QED BY <1>1, <1>9, <2>1, <2>2, PatchedStep
<1>10. ASSUME call.at = "delete", n \in Live, server' = [server EXCEPT ![n].live = FALSE],
              call' = [call EXCEPT !.got = Answer("ok", {})], UNCHANGED made
       PROVE  IInv'
  <2> HIDE DEF n
  <2> QED BY <1>1, <1>10, DeletedStep
<1> QED BY <1>3, <1>4, <1>5, <1>6, <1>7, <1>8, <1>9, <1>10 DEF AnswerCall

\* A save is answered without being stored, or its answer is lost.
LEMMA SaveUnheardStep ==
  ASSUME IInv, NEW tag \in Tags, saveInFlight, save' = [save EXCEPT !.got = Answer(tag, {})],
         tag = "ok" => save.at = "list",
         tag = "conflict" => save.at = "put" /\ (crossed \/ overtaken),
         save.at = "put" /\ save.got.tag = "ok" => overtaken',
         overtaken => overtaken',
         UNCHANGED <<server, notebook, editor, saved, changeVersion, call, made, crossed, hasty>>
  PROVE  IInv'
<1>1. /\ save' \in Saves /\ save'.at = save.at /\ save'.version = save.version
      /\ save'.sent = save.sent /\ save'.got.tag = tag
  <2>1. save \in Saves /\ {} \in SUBSET Copies
    BY DEF IInv, TypeInv
  <2> QED BY <2>1 DEF Saves, Answer, Answers
<1>2. TypeInv' /\ CallInv'
  BY <1>1 DEF IInv, TypeInv, CallInv
<1>3. SaveInv'
  BY <1>1 DEF IInv, SaveInv, saveInFlight
<1>4. KnownInv'
  BY <1>1 DEF IInv, KnownInv, Live, Held
<1>5. OwnInv'
  BY <1>1 DEF IInv, OwnInv, StaysInItsNotebook, Held
<1>6. TruthInv'
  BY <1>1 DEF IInv, TruthInv, SavedIsTrue
<1>7. InStepInv'
  BY <1>1 DEF IInv, InStepInv, News, Renamed
<1> QED BY <1>2, <1>3, <1>4, <1>5, <1>6, <1>7 DEF IInv

\* A save is stored.
LEMMA SaveStoredStep ==
  ASSUME IInv, NEW s \in Copies, save.sent = {s}, save.at = "put", save.got = Waiting,
         s.revision = server[s.id].revision, server' = Written(s.id, s.content),
         save' = [save EXCEPT !.got = Answer("ok", {[s EXCEPT !.revision = @ + 1]})],
         UNCHANGED <<notebook, editor, saved, changeVersion, call, made, crossed, hasty,
                     overtaken>>
  PROVE  IInv'
<1>1. /\ server \in [Notebooks -> Records] /\ save \in Saves
      /\ s.id \in Notebooks /\ s.content \in SUBSET Changes /\ s.revision \in Nat
  BY DEF IInv, TypeInv, Copies
<1>2. /\ server' \in [Notebooks -> Records]
      /\ server'[s.id].revision = server[s.id].revision + 1
      /\ server'[s.id].content = s.content
      /\ \A m \in Notebooks \ {s.id} : server'[m] = server[m]
      /\ \A m \in Notebooks : server[m].revision \in Nat
  BY <1>1, WrittenTyped
<1>3. PICK c \in Copies : /\ c = [s EXCEPT !.revision = @ + 1]
                          /\ c = [id |-> s.id, revision |-> s.revision + 1,
                                  content |-> s.content]
  <2>1. [s EXCEPT !.revision = @ + 1]
          = [id |-> s.id, revision |-> s.revision + 1, content |-> s.content]
    BY DEF Copies
  <2>2. [id |-> s.id, revision |-> s.revision + 1, content |-> s.content] \in Copies
    BY <1>1 DEF Copies
  <2> QED BY <2>1, <2>2
<1>4. /\ save' \in Saves /\ save'.at = "put" /\ save'.version = save.version
      /\ save'.sent = {s} /\ save'.got.tag = "ok" /\ save'.got.copies = {c}
  <2>1. save' = [save EXCEPT !.got = Answer("ok", {c})]
    BY <1>3
  <2> QED BY <1>1, <2>1 DEF Saves, Answer, Answers, Tags
<1>5. TypeInv' /\ CallInv'
  BY <1>2, <1>4 DEF IInv, TypeInv, CallInv
<1>6. SaveInv'
  <2>1. save'.got.copies = {[id |-> s.id, revision |-> s.revision + 1,
                             content |-> s.content]}
    BY <1>3, <1>4
  <2> QED BY <1>4, <2>1 DEF IInv, SaveInv
<1>7. \A d \in notebook \union Held : d \in Copies /\ d.id \in Notebooks /\ d.revision \in Nat
  BY DEF IInv, TypeInv, Held, Calls, Answers, Copies
<1>8. Held' = Held
  BY DEF Held
<1>9. KnownInv'
  <2>1. \A m \in Notebooks : server[m].revision <= server'[m].revision
    BY <1>1, <1>2
  <2>2. \A m \in Notebooks : server'[m].revision \in Nat
    BY <1>1, <1>2
  <2>3. \A m \in Live' : server'[m].revision > 0
    BY <1>1, <1>2 DEF IInv, KnownInv, Live
  <2>4. \A d \in notebook \union save'.sent : server'[d.id].revision > 0
    BY <1>1, <1>2, <1>4, <1>7, <2>1, <2>2 DEF IInv, KnownInv
  <2>5. ASSUME NEW d \in Held
        PROVE  /\ server'[d.id].revision > 0
               /\ d.revision <= server'[d.id].revision
               /\ d.revision = server'[d.id].revision => d.content = server'[d.id].content
    <3>1. /\ server[d.id].revision > 0 /\ d.revision <= server[d.id].revision
          /\ d.revision = server[d.id].revision => d.content = server[d.id].content
      BY DEF IInv, KnownInv
    <3> QED BY <1>1, <1>2, <1>7, <3>1
  <2> QED BY <1>8, <2>3, <2>4, <2>5 DEF KnownInv
<1>10. OwnInv'
  <2> SUFFICES ASSUME ~crossed PROVE OwnInv'
    BY DEF OwnInv
  <2>1. StaysInItsNotebook'
    BY <1>1, <1>2 DEF IInv, OwnInv, StaysInItsNotebook
  <2> QED BY <1>4, <1>8, <2>1 DEF IInv, OwnInv
<1>11. TruthInv'
  <2> SUFFICES ASSUME ~crossed PROVE TruthInv'
    BY DEF TruthInv
  <2>1. \A e \in editor : s.id = e.of
    BY DEF IInv, OwnInv
  <2>2. saved /\ ~hasty => \A e \in editor : s.content = e.content
    BY DEF IInv, TruthInv
  <2>3. SavedIsTrue'
    BY <1>2, <2>1, <2>2 DEF SavedIsTrue
  <2> QED BY <1>2, <1>4, <2>3 DEF IInv, TruthInv
<1>12. InStepInv'
  <2>1. ~crossed /\ ~overtaken => \A c2 \in notebook : c2.id = s.id
    BY DEF IInv, OwnInv, TypeInv
  <2>2. ~crossed /\ ~overtaken =>
          \A c2 \in notebook : ~Renamed(c2)' /\ s.revision = c2.revision
    BY DEF IInv, InStepInv, Renamed
  <2> QED BY <1>1, <1>2, <1>4, <2>1, <2>2, ZenonT(40) DEF IInv, InStepInv
<1> QED BY <1>5, <1>6, <1>9, <1>10, <1>11, <1>12 DEF IInv

\* The service answers a save's request.
LEMMA AnswerSaveStep ==
  ASSUME IInv, AnswerSave
  PROVE  IInv'
<1>1. /\ saveInFlight /\ save.got = Waiting /\ save.got.tag = "waiting"
      /\ UNCHANGED <<notebook, editor, saved, changeVersion, call, made, crossed, hasty,
                     overtaken>>
  BY DEF AnswerSave, page, history, Waiting, Answer
<1>2. ASSUME save.at = "list", save' = [save EXCEPT !.got = Answer("ok", {})], UNCHANGED server
      PROVE  IInv'
  BY <1>1, <1>2, SaveUnheardStep DEF Tags
<1>3. ASSUME save.at = "put" PROVE IInv'
  <2>1. PICK s \in Copies : save.sent = {s}
    BY <1>3 DEF IInv, SaveInv
  <2>2. Pick(save.sent) = s
    BY <2>1, PickOnly
  <2>3. ASSUME s.revision = server[s.id].revision, server' = Written(s.id, s.content),
               save' = [save EXCEPT !.got = Answer("ok", {[s EXCEPT !.revision = @ + 1]})]
        PROVE  IInv'
    BY <1>1, <1>3, <2>1, <2>3, SaveStoredStep
  <2>4. ASSUME s.revision # server[s.id].revision,
               save' = [save EXCEPT !.got = Answer("conflict", {})], UNCHANGED server
        PROVE  IInv'
    <3>1. crossed \/ overtaken
      <4> SUFFICES ASSUME ~crossed, ~overtaken PROVE FALSE
        OBVIOUS
      <4>1. PICK n \in Copies : notebook = {n}
        BY <1>3, OneShown DEF IInv, SaveInv
      <4>2. n.id = s.id
        BY <1>3, <2>1, <4>1 DEF IInv, OwnInv, TypeInv
      <4>3. s.revision = n.revision /\ server[n.id].revision = n.revision
        BY <1>1, <1>3, <2>1, <4>1 DEF IInv, InStepInv
      <4> QED BY <2>4, <4>2, <4>3
    <3> QED BY <1>1, <1>3, <2>4, <3>1, SaveUnheardStep DEF Tags
  <2>5. ASSUME save' = [save EXCEPT !.got = Answer("missing", {})], UNCHANGED server
        PROVE  IInv'
    BY <1>1, <1>3, <2>5, SaveUnheardStep DEF Tags
  <2> QED BY <1>3, <2>2, <2>3, <2>4, <2>5 DEF AnswerSave
<1> QED BY <1>2, <1>3 DEF AnswerSave

\* A save's request or its answer is lost.
LEMMA LoseSaveStep ==
  ASSUME IInv, LoseSave
  PROVE  IInv'
<1>1. /\ saveInFlight /\ save' = [save EXCEPT !.got = Answer("failed", {})]
      /\ overtaken' = (overtaken \/ (save.at = "put" /\ save.got.tag = "ok"))
      /\ UNCHANGED <<server, notebook, editor, saved, changeVersion, call, made, crossed, hasty>>
  BY DEF LoseSave, page
<1> QED BY <1>1, SaveUnheardStep DEF Tags

\* A handler's request or its answer is lost.
LEMMA LoseCallStep ==
  ASSUME IInv, LoseCall
  PROVE  IInv'
<1>1. /\ call.at # "none" /\ call' = [call EXCEPT !.got = Answer("failed", {})]
      /\ overtaken' = (overtaken \/ (call.op = "rename" /\ call.got.tag # "missing"))
      /\ UNCHANGED <<server, notebook, editor, saved, changeVersion, save, made, crossed, hasty>>
  BY DEF LoseCall, page
<1>2. /\ call' \in Calls /\ call'.op = call.op /\ call'.at = call.at /\ call'.id = call.id
      /\ call'.held = call.held /\ call'.got.tag = "failed" /\ call'.got.copies = {}
  <2>1. call \in Calls /\ {} \in SUBSET Copies
    BY DEF IInv, TypeInv
  <2> QED BY <1>1, <2>1 DEF Calls, Answer, Answers, Tags
<1>3. Held' \subseteq Held
  BY <1>2 DEF Held
<1>4. TypeInv' /\ SaveInv'
  BY <1>1, <1>2 DEF IInv, TypeInv, SaveInv
<1>5. CallInv'
  BY <1>2 DEF IInv, CallInv
<1>6. KnownInv'
  BY <1>1, <1>3 DEF IInv, KnownInv, Live
<1>7. OwnInv'
  BY <1>1, <1>3 DEF IInv, OwnInv, StaysInItsNotebook
<1>8. TruthInv'
  BY <1>1 DEF IInv, TruthInv, SavedIsTrue
<1>9. InStepInv'
  <2>1. ASSUME ~overtaken' PROVE call.op = "rename" => call.at = "patch" /\ call.got.tag = "missing"
    BY <1>1, <2>1 DEF IInv, CallInv
  <2>2. ~overtaken' => \A c \in notebook : ~Renamed(c) /\ ~Renamed(c)'
    BY <1>2, <2>1 DEF Renamed
  <2> QED BY <1>1, <1>2, <2>1, <2>2 DEF IInv, InStepInv
<1> QED BY <1>4, <1>5, <1>6, <1>7, <1>8, <1>9 DEF IInv

-----------------------------------------------------------------------------
(* The inductive invariant.                                                 *)

\* The invariant holds in the initial state.
LEMMA IInvInit == Init => IInv
<1> SUFFICES ASSUME Init PROVE IInv
  OBVIOUS
<1>1. PICK S \in SUBSET Stored :
        server = [n \in Notebooks |-> [revision |-> IF n \in S THEN 1 ELSE 0, content |-> {},
                                       live |-> n \in S]]
  BY DEF Init
<1>2. /\ server \in [Notebooks -> Records]
      /\ \A n \in Notebooks : server[n].content = {} /\ (server[n].live => server[n].revision > 0)
  <2>1. ASSUME NEW n \in Notebooks
        PROVE  /\ server[n] \in Records /\ server[n].content = {}
               /\ server[n].live => server[n].revision > 0
    <3>1. server[n] = [revision |-> IF n \in S THEN 1 ELSE 0, content |-> {}, live |-> n \in S]
      BY <1>1
    <3>2. PICK live \in BOOLEAN : live <=> n \in S
      OBVIOUS
    <3>3. server[n] = [revision |-> IF live THEN 1 ELSE 0, content |-> {}, live |-> live]
      BY <3>1, <3>2
    <3> QED BY <3>3 DEF Records
  <2>2. server = [n \in Notebooks |-> server[n]]
    BY <1>1
  <2> QED BY <2>1, <2>2
<1>3. /\ call \in Calls /\ call.op = "initialize" /\ call.at = "choose" /\ call.held = {}
      /\ call.got.tag = "waiting" /\ call.got.copies = {}
  BY DEF Init, NoCall, Calls, Ops, Awaits, Waiting, Answer, Answers, Tags
<1>4. /\ save \in Saves /\ save.at = "none" /\ save.sent = {} /\ save.version = 0
      /\ save.got = Waiting /\ save.got.tag = "waiting"
  BY RestingTyped DEF Init, Resting
<1>5. TypeInv
  BY <1>2, <1>3, <1>4, PageAssumption DEF Init, TypeInv, AtMostOne
<1>6. SaveInv /\ CallInv
  BY <1>3, <1>4 DEF Init, SaveInv, CallInv
<1>7. KnownInv
  BY <1>2, <1>3, <1>4 DEF Init, KnownInv, Live, Held
<1>8. OwnInv /\ TruthInv
  BY <1>2, <1>3, <1>4 DEF Init, OwnInv, StaysInItsNotebook, TruthInv, SavedIsTrue, Held
<1>9. InStepInv
  BY <1>3, <1>4 DEF Init, InStepInv
<1> QED BY <1>5, <1>6, <1>7, <1>8, <1>9 DEF IInv

\* Every step keeps the invariant.
LEMMA IInvNext == IInv /\ [Next]_vars => IInv'
<1> SUFFICES ASSUME IInv, [Next]_vars PROVE IInv'
  OBVIOUS
<1>1. ASSUME User PROVE IInv'
  <2>1. ASSUME PressSave PROVE IInv'
    BY <2>1, PersistStep DEF PressSave
  <2> QED BY <1>1, <2>1, EditorEditStep, PageEditStep, UserStarts DEF User
<1>2. ASSUME TimerFires PROVE IInv'
  BY <1>2, PersistStep DEF TimerFires
<1>3. ASSUME PersistGoesOn PROVE IInv'
  BY <1>3, SaveSameStep, SaveNewerStep, SaveEndsStep, SaveFailsStep DEF PersistGoesOn
<1>4. ASSUME CallGoesOn PROVE IInv'
  BY <1>4, OpenStep, CreateStep, ImportStep, RenameStep, DuplicateStep, EnsureStep, RemoveStep,
     InitializeStep, FailStep DEF CallGoesOn
<1>5. ASSUME UNCHANGED vars PROVE IInv'
  <2>1. UNCHANGED <<server, notebook, editor, saved, changeVersion, save, call, made, crossed,
                    hasty, overtaken>>
    BY <1>5 DEF vars, page, history
  <2>2. TypeInv' /\ SaveInv' /\ CallInv'
    BY <2>1 DEF IInv, TypeInv, SaveInv, CallInv
  <2>3. KnownInv' /\ OwnInv'
    BY <2>1 DEF IInv, KnownInv, Live, OwnInv, StaysInItsNotebook, Held
  <2>4. TruthInv'
    BY <2>1 DEF IInv, TruthInv, SavedIsTrue
  <2>5. InStepInv'
    BY <2>1 DEF IInv, InStepInv, News, Renamed
  <2> QED BY <2>2, <2>3, <2>4, <2>5 DEF IInv
<1> QED BY <1>1, <1>2, <1>3, <1>4, <1>5, AnswerCallStep, AnswerSaveStep, LoseCallStep,
           LoseSaveStep DEF Next

\* The invariant holds in every state that can be reached.
LEMMA IInvHolds == Spec => []IInv
<1> QED BY IInvInit, IInvNext, PTL DEF Spec

\* A set with at most one member.
LEMMA AtMostOneCardinality ==
  ASSUME NEW S, AtMostOne(S)
  PROVE  Cardinality(S) <= 1
<1>1. CASE S = {}
  BY <1>1, FS_EmptySet
<1>2. CASE S # {}
  <2>1. PICK x \in S : S = {x}
    BY <1>2 DEF AtMostOne
  <2>2. Cardinality({x}) = 1
    BY FS_Singleton
  <2> QED BY <2>1, <2>2
<1> QED BY <1>1, <1>2

\* The types of the page and of the server, for every run of the page: at most
\* one notebook with its editor, and copies only of notebooks the server names.
THEOREM TypesHold == Spec => []TypeOK
<1>1. IInv => TypeOK
  BY AtMostOneCardinality
  DEF IInv, TypeInv, TypeOK, Records, Editors, Saves, Calls, Answers
<1> QED BY IInvHolds, <1>1, PTL

\* Nothing made in one notebook reaches another one at the server, whatever
\* handlers, saves, failures and deletions overlap, unless the page was given
\* another notebook during a save (persist, openNotebook).
THEOREM StaysInItsNotebookHolds == Spec => []StaysInItsNotebook
<1>1. IInv => StaysInItsNotebook
  BY DEF IInv, OwnInv, StaysInItsNotebook
<1> QED BY IInvHolds, <1>1, PTL

\* "All changes saved" is true of the server, for any number of changes, saves
\* and handlers, with the two exceptions the property names (persist,
\* handleImport).
THEOREM SavedIsTrueHolds == Spec => []SavedIsTrue
<1>1. IInv => SavedIsTrue
  BY DEF IInv, TruthInv, SavedIsTrue
<1> QED BY IInvHolds, <1>1, PTL

\* The page's save is never refused for its revision, unless an answer was lost
\* or a rename ran beside it (persist, commitRename).
THEOREM NoSelfConflictHolds == Spec => []NoSelfConflict
<1>1. IInv => NoSelfConflict
  BY DEF IInv, InStepInv, NoSelfConflict
<1> QED BY IInvHolds, <1>1, PTL
=============================================================================

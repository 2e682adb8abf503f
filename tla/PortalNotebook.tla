--------------------------- MODULE PortalNotebook ---------------------------
(***************************************************************************)
(* The notebook page of portal-web: the document held in React state        *)
(* (useNotebookDocument), its PUTs with the revision they are based on, a   *)
(* run of a cell through RuntimeManager and ProductJupyterClient, and Stop  *)
(* Runtime beside it.  A callback keeps the document of the render it was   *)
(* made in.  All cells are code cells; a source is the number of the edit   *)
(* that made it, outputs are counted.  The runtime API (/v1/runtimes) is    *)
(* not part of the repository any more and is modelled from its use.        *)
(***************************************************************************)
EXTENDS Integers, Sequences

CONSTANTS Cells,     \* the cells of the notebook
          Runtimes,  \* numbers of runtimes, in the order they are created
          MaxEdits,  \* bound: changes of a source
          MaxSaves,  \* bound: clicks on Save
          MaxRuns,   \* bound: clicks on Run
          MaxStops,  \* bound: clicks on Stop Runtime
          MaxOutputs, \* bound: outputs of a cell
          MaxFaults  \* bound: requests and runtimes that fail

ASSUME PortalAssumption == /\ Runtimes \subseteq Nat \ {0}
                           /\ {MaxEdits, MaxSaves, MaxRuns, MaxStops, MaxOutputs, MaxFaults} \subseteq Nat

VARIABLES revisions, \* what the notebook service stores, and which run wrote it
          document,  \* the document in state, as a set of at most one
          loading, saving, error,
          edits,     \* how many so far
          saves,     \* the PUTs of Save, in the order of the clicks
          running,   \* runningCellId
          run,       \* the run: the await it is at, what it closed over, its answer
          runs,      \* how many so far, for the bound
          runtimes,  \* the state of each runtime
          current,   \* RuntimeManager.current, which the page shows
          client,    \* the runtime whose kernel ProductJupyterClient holds
          stop,      \* Stop Runtime: the runtime it deletes and the answer
          stops, faults, \* how many so far, for the bounds
          forgot     \* history: a runtime was created or kept, and its id lost

doc == <<document, loading, saving, error>>
work == <<running, run, runs>>
vars == <<revisions, doc, edits, saves, work, runtimes, current, client, stop, stops,
          faults, forgot>>

NoOut == [of |-> -1, n |-> 0]
Outs == [of: -1..MaxEdits, n: 0..MaxOutputs]
Contents == [Cells -> [src: 0..MaxEdits, out: Outs]]
Revisions == 1..(1 + MaxSaves + MaxRuns)
Documents == [revision: Revisions, cells: Contents, dirty: BOOLEAN]
Current == revisions[Len(revisions)]
Doc == CHOOSE d \in document : TRUE
Loaded(revision, cells) == {[revision |-> revision, cells |-> cells, dirty |-> FALSE]}

\* A PUT on its way; got turns from "waiting" to what came of it.
Put(revision, cells, got) == [revision |-> revision, cells |-> cells, got |-> got]
NoRun == [at |-> "none", cell |-> {}, put |-> Put(0, <<>>, "none"), runtime |-> 0,
          n |-> 0, got |-> "none"]

Active == {r \in Runtimes : runtimes[r] \in {"starting", "ready"}}
Unborn == {r \in Runtimes : runtimes[r] = "none"}
First(S) == CHOOSE r \in S : \A other \in S : r <= other

-----------------------------------------------------------------------------
(* The notebook service: a PUT is stored when its base is the current one.  *)

Accepts(put) == put.revision = Len(revisions)
Stored(put, by) ==
  IF Accepts(put) THEN Append(revisions, [cells |-> put.cells, by |-> by]) ELSE revisions
\* The answer: the new revision, or the conflict.
Answered(put) ==
  IF Accepts(put) THEN [put EXCEPT !.got = "ok", !.revision = Len(revisions) + 1]
  ELSE [put EXCEPT !.got = "conflict"]

-----------------------------------------------------------------------------
(* useNotebookDocument                                                      *)

Load ==
  /\ loading /\ loading' = FALSE
  /\ \/ document' = Loaded(Len(revisions), Current.cells) /\ UNCHANGED <<error, faults>>
     \/ /\ faults < MaxFaults /\ faults' = faults + 1
        /\ error' = TRUE /\ UNCHANGED document
  /\ UNCHANGED <<revisions, saving, edits, saves, work, runtimes, current, client, stop,
                 stops, forgot>>

UpdateCellSource(c) ==
  /\ document # {} /\ edits < MaxEdits /\ edits' = edits + 1
  /\ document' = {[Doc EXCEPT !.cells[c].src = edits + 1, !.dirty = TRUE]}
  /\ UNCHANGED <<revisions, loading, saving, error, saves, work, runtimes, current, client,
                 stop, stops, faults, forgot>>

\* The button is there for a dirty document, unless saving is set.
Save ==
  /\ document # {} /\ Doc.dirty /\ ~saving /\ Len(saves) < MaxSaves
  /\ saving' = TRUE /\ error' = FALSE
  /\ saves' = Append(saves, Put(Doc.revision, Doc.cells, "waiting"))
  /\ UNCHANGED <<revisions, document, loading, edits, work, runtimes, current, client, stop,
                 stops, faults, forgot>>

ServeSave ==
  \E i \in DOMAIN saves :
    /\ saves[i].got = "waiting"
    /\ revisions' = Stored(saves[i], {}) /\ saves' = [saves EXCEPT ![i] = Answered(@)]
    /\ UNCHANGED <<doc, edits, work, runtimes, current, client, stop, stops, faults, forgot>>

LoseSave ==
  \E i \in DOMAIN saves :
    /\ saves[i].got \in {"waiting", "ok"} /\ faults < MaxFaults /\ faults' = faults + 1
    /\ saves' = [saves EXCEPT ![i].got = "failed"]
    /\ UNCHANGED <<revisions, doc, edits, work, runtimes, current, client, stop, stops, forgot>>

\* Wrong: what was typed since stays, called saved.
InstallMerged(put) ==
  document' = {[Doc EXCEPT !.revision = put.revision, !.dirty = FALSE]}
\* The answer replaces the document, whatever was typed since.
Install(put) == document' = Loaded(put.revision, put.cells)

SaveAnswered ==
  \E i \in DOMAIN saves :
    /\ saves[i].got \in {"ok", "conflict", "failed"}
    /\ IF saves[i].got = "ok" THEN Install(saves[i]) /\ UNCHANGED error
       ELSE error' = TRUE /\ UNCHANGED document
    /\ saving' = FALSE
    /\ saves' = [saves EXCEPT ![i].got = "none"]
    /\ UNCHANGED <<revisions, loading, edits, work, runtimes, current, client, stop, stops,
                   faults, forgot>>

-----------------------------------------------------------------------------
(* runCell                                                                  *)

RunStays == UNCHANGED <<revisions, doc, edits, saves, running, runs, runtimes, stop, stops>>

\* Run Cell of the render that shows Doc.
RunCell(c) ==
  /\ document # {} /\ running = {} /\ runs < MaxRuns /\ runs' = runs + 1
  /\ running' = {c}
  /\ run' = [NoRun EXCEPT !.at = "create", !.cell = {c}, !.got = "waiting",
                          !.put = Put(Doc.revision, Doc.cells, "none")]
  /\ UNCHANGED <<revisions, doc, edits, saves, runtimes, current, client, stop, stops,
                 faults, forgot>>

\* catch and finally of runCell
RunStops ==
  /\ run' = NoRun /\ running' = {}
  /\ UNCHANGED <<revisions, doc, edits, saves, runs, runtimes, current, client, stop, stops,
                 faults, forgot>>

\* POST /v1/runtimes: the notebook's active runtime, or a new one.
ServeCreate ==
  /\ run.at = "create" /\ run.got = "waiting"
  /\ \/ /\ Active # {}
        /\ run' = [run EXCEPT !.runtime = First(Active), !.got = runtimes[First(Active)]]
        /\ UNCHANGED runtimes
     \/ /\ Active = {} /\ Unborn # {}
        /\ run' = [run EXCEPT !.runtime = First(Unborn), !.got = "starting"]
        /\ runtimes' = [runtimes EXCEPT ![First(Unborn)] = "starting"]
  /\ UNCHANGED <<revisions, doc, edits, saves, running, runs, current, client, stop, stops,
                 faults, forgot>>

\* GET /v1/runtimes/<id>
ServePoll ==
  /\ run.at = "poll" /\ run.got = "waiting"
  /\ run' = [run EXCEPT !.got = runtimes[run.runtime]]
  /\ RunStays /\ UNCHANGED <<current, client, faults, forgot>>

\* Wrong: the runtime is kept once it is ready.
EnsureReadyLate ==
  /\ run.at \in {"create", "poll"}
  /\ run.got \in {"starting", "ready"}
  /\ current' = IF run.got = "ready" THEN {run.runtime} ELSE current
  /\ forgot' = FALSE
  /\ run' = IF run.got = "starting" THEN [run EXCEPT !.at = "poll", !.got = "waiting"]
            ELSE [run EXCEPT !.at = "kernel", !.got = "none"]
  /\ RunStays /\ UNCHANGED <<client, faults>>
\* ensureReady with an answer: the runtime is kept, then awaited.
EnsureReady ==
  /\ run.at \in {"create", "poll"}
  /\ run.got \in {"starting", "ready"}
  /\ current' = {run.runtime}
  /\ forgot' = FALSE
  /\ run' = IF run.got = "starting" THEN [run EXCEPT !.at = "poll", !.got = "waiting"]
            ELSE [run EXCEPT !.at = "kernel", !.got = "none"]
  /\ RunStays /\ UNCHANGED <<client, faults>>

\* The runtime failed or was stopped, or the 60 seconds are over: ensureReady throws.
NotReady ==
  /\ run.at = "poll" /\ run.got \in {"starting", "failed", "stopped"}
  /\ current' = {run.runtime} /\ run' = NoRun /\ running' = {}
  /\ UNCHANGED <<revisions, doc, edits, saves, runs, runtimes, client, stop, stops, faults>>
  /\ forgot' = FALSE

\* ensureKernel: the kernel it holds, or another after the old connection is closed.
EnsureKernel ==
  /\ run.at = "kernel"
  /\ IF client = {run.runtime}
     THEN run' = [run EXCEPT !.at = "execute", !.n = 0] /\ UNCHANGED client
     ELSE client' = {} /\ run' = [run EXCEPT !.at = "startNew", !.got = "waiting"]
  /\ RunStays /\ UNCHANGED <<current, faults, forgot>>

ServeStartNew ==
  /\ run.at = "startNew" /\ run.got = "waiting"
  /\ run' = [run EXCEPT !.got = IF runtimes[run.runtime] = "ready" THEN "ok" ELSE "refused"]
  /\ RunStays /\ UNCHANGED <<current, client, faults, forgot>>

KernelStarted ==
  /\ run.at = "startNew" /\ run.got = "ok"
  /\ client' = {run.runtime}
  /\ run' = [run EXCEPT !.at = "execute", !.got = "none", !.n = 0]
  /\ RunStays /\ UNCHANGED <<current, faults, forgot>>

\* Wrong: the button stays disabled.
KernelRefusedQuiet ==
  /\ run.at = "startNew" /\ run.got = "refused"
  /\ run' = NoRun
  /\ RunStays /\ UNCHANGED <<current, client, faults, forgot>>
KernelRefused == run.at = "startNew" /\ run.got = "refused" /\ RunStops

\* onIOPub: stream, results, display_data and errors are kept, clear_output drops them.
Executing == run.at = "execute" /\ client = {run.runtime} /\ runtimes[run.runtime] = "ready"
OnIOPub ==
  /\ Executing
  /\ \/ run.n < MaxOutputs /\ run' = [run EXCEPT !.n = @ + 1]
     \/ run.n > 0 /\ run' = [run EXCEPT !.n = 0]
  /\ RunStays /\ UNCHANGED <<current, client, faults, forgot>>

\* dispose() closed the connection under the execution.
ExecutionCancelled == run.at = "execute" /\ client # {run.runtime} /\ RunStops

\* Cells with the outputs, made from the source the run was started with.
Result(cells, c) == [cells EXCEPT ![c].out = [of |-> run.put.cells[c].src, n |-> run.n]]
\* Wrong: the document of the moment.
ClosedOverLatest(c) == Put(Doc.revision, Result(Doc.cells, c), "waiting")
\* saveExecutionResult closed over the document of its render.
ClosedOver(c) == Put(run.put.revision, Result(run.put.cells, c), "waiting")

\* future.done, and saveExecutionResult up to its await.
SaveExecutionResult ==
  /\ Executing
  /\ saving' = TRUE /\ error' = FALSE
  /\ run' = [run EXCEPT !.at = "put", !.put = ClosedOver(CHOOSE c \in run.cell : TRUE)]
  /\ UNCHANGED <<revisions, document, loading, edits, saves, running, runs, runtimes, current,
                 client, stop, stops, faults, forgot>>

ServeRunPut ==
  /\ run.at = "put" /\ run.put.got = "waiting"
  /\ revisions' = Stored(run.put, run.cell) /\ run' = [run EXCEPT !.put = Answered(@)]
  /\ UNCHANGED <<doc, edits, saves, running, runs, runtimes, current, client, stop, stops,
                 faults, forgot>>

\* saveExecutionResult after its await, and the finally of both functions.
RunPutAnswered ==
  /\ run.at = "put" /\ run.put.got \in {"ok", "conflict", "failed"}
  /\ IF run.put.got = "ok" THEN Install(run.put) /\ UNCHANGED error
     ELSE error' = TRUE /\ UNCHANGED document
  /\ saving' = FALSE /\ running' = {} /\ run' = NoRun
  /\ UNCHANGED <<revisions, loading, edits, saves, runs, runtimes, current, client, stop,
                 stops, faults, forgot>>

\* A request of the run fails, or its answer is lost.
LoseRun ==
  /\ faults < MaxFaults /\ faults' = faults + 1
  /\ \/ /\ run.at \in {"create", "poll", "startNew"}
        /\ run' = NoRun /\ running' = {}
        /\ forgot' = (forgot \/ (run.at = "create" /\ run.got # "waiting"))
     \/ /\ run.at = "put" /\ run.put.got \in {"waiting", "ok"}
        /\ run' = [run EXCEPT !.put.got = "failed"] /\ UNCHANGED <<running, forgot>>
  /\ UNCHANGED <<revisions, doc, edits, saves, runs, runtimes, current, client, stop, stops>>

-----------------------------------------------------------------------------
(* Stop Runtime, and the runtimes themselves.                               *)

NoStop == [of |-> {}, got |-> "none"]

\* The button is there while a runtime is shown: runtimeManager.stop() up to its await.
StopRuntime ==
  /\ current # {} /\ stop = NoStop /\ stops < MaxStops /\ stops' = stops + 1
  /\ stop' = [of |-> current, got |-> "waiting"]
  /\ UNCHANGED <<revisions, doc, edits, saves, work, runtimes, current, client, faults, forgot>>

ServeStop ==
  /\ stop.got = "waiting" /\ stop' = [stop EXCEPT !.got = "ok"]
  /\ runtimes' = [r \in Runtimes |-> IF r \in stop.of /\ runtimes[r] # "failed" THEN "stopped"
                                     ELSE runtimes[r]]
  /\ UNCHANGED <<revisions, doc, edits, saves, work, current, client, stops, faults, forgot>>

LoseStop ==
  /\ stop # NoStop /\ faults < MaxFaults /\ faults' = faults + 1
  /\ stop' = NoStop
  /\ UNCHANGED <<revisions, doc, edits, saves, work, runtimes, current, client, stops, forgot>>

\* The manager forgets its runtime, whichever it is by now; the client lets go.
StopAnswered ==
  /\ stop.got = "ok" /\ stop' = NoStop
  /\ current' = {} /\ client' = {}
  /\ forgot' = (forgot \/ current # stop.of)
  /\ UNCHANGED <<revisions, doc, edits, saves, work, runtimes, stops, faults>>

RuntimeStarts ==
  \E r \in Runtimes :
    /\ runtimes[r] = "starting" /\ runtimes' = [runtimes EXCEPT ![r] = "ready"]
    /\ UNCHANGED <<revisions, doc, edits, saves, work, current, client, stop, stops, faults,
                   forgot>>

RuntimeFails ==
  \E r \in Active :
    /\ faults < MaxFaults /\ faults' = faults + 1
    /\ runtimes' = [runtimes EXCEPT ![r] = "failed"]
    /\ UNCHANGED <<revisions, doc, edits, saves, work, current, client, stop, stops, forgot>>

-----------------------------------------------------------------------------
Init ==
  /\ revisions = <<[cells |-> [c \in Cells |-> [src |-> 0, out |-> NoOut]], by |-> {}]>>
  /\ document = {} /\ loading = TRUE /\ saving = FALSE /\ error = FALSE
  /\ edits = 0 /\ saves = <<>>
  /\ running = {} /\ run = NoRun /\ runs = 0
  /\ runtimes = [r \in Runtimes |-> "none"] /\ current = {} /\ client = {}
  /\ stop = NoStop /\ stops = 0 /\ faults = 0 /\ forgot = FALSE

RunGoesOn ==
  EnsureReady \/ NotReady \/ EnsureKernel \/ KernelStarted \/ KernelRefused
  \/ ExecutionCancelled \/ RunPutAnswered
\* The buttons and the text areas of the page.
User == Save \/ StopRuntime \/ \E c \in Cells : UpdateCellSource(c) \/ RunCell(c)
Serve == ServeCreate \/ ServePoll \/ ServeStartNew \/ ServeRunPut
Next ==
  \/ User \/ Load \/ ServeSave \/ LoseSave \/ SaveAnswered
  \/ RunGoesOn \/ Serve \/ OnIOPub \/ SaveExecutionResult \/ LoseRun
  \/ ServeStop \/ LoseStop \/ StopAnswered
  \/ RuntimeStarts \/ RuntimeFails
Spec == Init /\ [][Next]_vars

\* Requests are answered, promises continued; a runtime is ready in the end or the
\* deadline passes; a kernel that runs finishes.
FairSpec == Spec /\ WF_vars(RunGoesOn) /\ WF_vars(Serve) /\ WF_vars(RuntimeStarts)
                 /\ WF_vars(SaveExecutionResult)

-----------------------------------------------------------------------------
\* Types; "Saving..." is shown only while a PUT is on its way.
TypeOK ==
  /\ document \subseteq Documents /\ Len(revisions) \in Revisions
  /\ \A i \in DOMAIN revisions : revisions[i].cells \in Contents
  /\ current \subseteq Runtimes /\ client \subseteq Runtimes /\ running \subseteq Cells
  /\ runtimes \in [Runtimes -> {"none", "starting", "ready", "failed", "stopped"}]
  /\ run.n \in 0..MaxOutputs
  /\ saving => run.at = "put" \/ \E i \in DOMAIN saves : saves[i].got # "none"

\* "Saved" is true: a document that is not dirty is, to the last cell, what the
\* service stored under the revision the page shows.
CleanIsStored ==
  \A d \in document : ~d.dirty => d.cells = revisions[d.revision].cells

\* Outputs are stored with the source they came from: in the revision a run
\* wrote, the cell has the source that was run, whatever was typed meanwhile.
OutputsWithTheirSource ==
  \A i \in DOMAIN revisions :
    \A c \in revisions[i].by : revisions[i].cells[c].out.of = revisions[i].cells[c].src

\* A runtime that runs can be stopped: it is the one Stop Runtime would delete,
\* or a run is about to learn of it, unless its creation's answer was lost or an
\* older stop was answered late.
LiveIsStoppable ==
  \A r \in Active : r \in current \/ (run.at = "create" /\ run.runtime = r) \/ forgot

\* A run ends and the buttons come back, unless its runtime goes away under the
\* execution: nothing but future.done ends that.
RunEnds ==
  running # {} ~> running = {}
                  \/ (run.at = "execute" /\ runtimes[run.runtime] \in {"failed", "stopped"})

\* What the README says of a run (src/README.md:120): its outputs are stored in a
\* new revision.
OutputsArePersisted == run.at = "put" => run.put.got # "conflict"
=============================================================================

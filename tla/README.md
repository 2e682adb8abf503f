# Specifications of the Lumen notebook platform

TLA+ modules, TLC runs and TLAPS proofs for the repository `Notebook-Project`
(Lumen): a multi-user notebook platform with a SvelteKit frontend, a React portal,
a document service, and a runtime plane that gives each user a Jupyter Server in a
Docker container and each notebook a kernel in it. Paths are relative to `src/`.

## The system

| Part | State it keeps | Operations | Talks to |
|---|---|---|---|
| runtime-service (`runtime-service/app/service.py`, `repository.py`, `main.py`) | SQLite table `user_runtimes`; in memory `_provisioning_ids` and one thread per runtime being provisioned | PUT / GET / DELETE `/api/runtime`, internal connection lookup, `_provision` | Docker through `providers/docker.py` |
| Docker provider | containers | create, inspect, terminate, get_endpoint | Docker daemon |
| notebook-service v1 (`notebook-service/app/services`, `repositories`, `storage`) | SQLite tables `notebooks`, `notebook_revisions`, `idempotency_records`; content-addressed blob files | create, get, get revision, save, each write with an `Idempotency-Key` | file system, SQLite |
| notebook-service legacy (`app/repository.py`, `api/legacy.py`) | a directory per notebook: `meta.json`, `<n>.ipynb` | create, get, list, save, rename, delete | file system |
| runtime-gateway (`runtime-gateway/app/main.py`) | in memory `kernel_by_notebook`, `kernel_creation_guards` | HTTP and WebSocket proxy; POST / DELETE `api/kernels` handled specially | runtime-service, Jupyter |
| notebook page (`frontend/src/routes/notebook/[id]`) | the page's notebook, the editor's model, saved flag, save timer, save in flight | edit, autosave, open, create, import, rename, duplicate, remove | legacy API |
| notebook conversions (`frontend/src/lib/notebookModel.ts`, `notebooks.ts`) | three forms of a cell: file, page, editor | parse, normalise, serialise, outline operations | page, SDK model |
| SDK model (`frontend/packages/notebook/src/adapters/docregistry`) | cells, dirty flag, undo and redo stacks; the file behind them | edit, undo, redo, save, revert | contents manager |
| SDK collaboration (`.../adapters/collaboration`) | the shared Yjs document | push local changes, apply remote ones | SDK model |
| SDK controller (`.../notebook/NotebookController.ts`, `NotebookEditor.svelte`) | selection, mode, clipboard, executions | keys, tools of a cell, run, run all | SDK model, session |
| runtime and kernel client (`frontend/src/lib/runtime*.ts`, `.../adapters/services`) | delegate, connection attempt, kernel id, sockets, running executions | execute, interrupt, restart, shutdown | gateway, runtime-service |
| portal-web (`portal-web/src`) | a document and its revision in React state, one runtime, one kernel | edit, Save, Run, Stop Runtime | legacy API, old runtime endpoints |
| language server, chat, output area, rendering | one virtual text; conversations; renderers | | their servers |
| PostgreSQL schema | none yet (no code uses it) | | |

What is hard in each part, and what makes it correct:

* **runtime-service**: request threads and a provisioning thread move one row by
  compare-and-swap on `state`, from copies they read before slow provider calls;
  the process may restart anywhere. Correct means: a stop is never undone, READY
  names a container that was not removed, a container is created at most once per
  runtime and removed with its record, stops and requests end.
* **notebook-service v1**: a write is a blob file, a transaction and an answer;
  clients retry; two saves compete for one head. Correct means: append-only
  histories, no lost update, one effect and one answer per key, every committed
  revision readable.
* **runtime-gateway**: tasks of one event loop interleave at awaits; requests are
  cancelled; answers are lost. Correct means: exact reference counts, one live
  kernel per notebook, what is offered for reuse is alive, no lost wake-up.
* **legacy API**: check and write are not atomic, files are truncated before they
  are written, deletion is not atomic.
* **notebook page**: results of a save are installed after awaits during which the
  user edits, switches, renames or deletes. Correct means: a change reaches its own
  notebook and is saved or reported, and "all changes saved" is true.
* **conversions**: the same cells live in three forms and are changed in two of
  them. Correct means: both sides show the same cells, ids stay distinct, what is
  stored is legal and reads back as it was.
* **SDK model and collaboration**: whole documents move between two bounded stacks,
  a file and a shared document. Correct means: undo and redo walk along one line,
  the shared document follows without echo, a clean document is the file's.
* **SDK controller**: the editor holds copies of a selection whose cells change
  under it. Correct means: a delete takes only what is highlighted, and the active
  cell exists.
* **kernel client**: two message channels in either order, a connection attempt
  shared by executions, shutdown in the middle. Correct means: a result is what the
  kernel published, the status is true, every execution ends, nothing is left behind.
* **portal-web**: callbacks hold the document of the render they were made in.
  Correct means: "Saved" is true, outputs are stored with the source they came
  from, a live runtime can be stopped, a run ends.

`PROJECT.json` lists every component with its status, every hazard with its line
and the properties that would catch it, and the source lines of every definition.

## Modules

| Module | Content | Runs |
|---|---|---|
| `RuntimeService` | the runtime service and its containers | `RuntimeFaults`, `RuntimeLiveness` |
| `NotebookStore` | abstract: what the notebook service promises | refinement in `NotebookReplay` |
| `NotebookService` | threads, blobs, transactions, answers; implements `NotebookStore` | `NotebookHistory`, `NotebookReplay`, `NotebookOtherTarget` |
| `KernelGateway` | kernels per notebook in the gateway | `GatewayFaults` |
| `NotebookDocument` | the SDK's document as a value with its operations; no variables | extended by `OpenNotebook` |
| `OpenNotebook` | one model of an opened document, with the next id | extended by `DocumentContext` and `NotebookController` |
| `EditTimeline` | abstract: what undo and redo promise | refinement in `DocumentUndo` |
| `DocumentContext` | a document with its file and its shared copy; implements `EditTimeline` | `DocumentUndo` |
| `NotebookController` | selection, clipboard, keys and executions over a document | `NotebookEditor` |
| `KernelSession` | one notebook's session: runtime wait, kernel, sockets, executions | `KernelSession` |
| `NotebookPage` | the page's saves and handlers over the legacy API | `NotebookPage` |
| `NotebookCells` | the cells' three forms and the changes on either side | `NotebookCells` |
| `PortalNotebook` | the portal's document, saves, run and runtime | `PortalNotebook` |
| `RuntimeService_proofs`, `NotebookService_proofs`, `KernelGateway_proofs`, `DocumentContext_proofs`, `KernelSession_proofs`, `NotebookPage_proofs`, `NotebookCells_proofs`, `PortalNotebook_proofs` | theorems about the module before `_proofs`; `DocumentContext_proofs` also about `NotebookController`, which edits the same model | |
| `MC...` | symmetry sets, opened documents and scripts for TLC | |

Definitions commented "wrong:" are single-definition variants of the code's
behaviour, as a plausible bug would have it. No specification uses them; they
stand next to the definition they vary and record, in `PROJECT.json` under
"mutants", that each property really depends on that definition.

Variables marked *history* are not in the code. They remember either what was
said or done (for properties about answers), or that a named window of the code
was hit: where the code has a known weakness, a property excludes exactly that
window, and the statement without the exclusion is a finding below.

### RuntimeService

* `rows`: the table, one record per runtime id: owner, `state`, `desired_state`,
  whether `provider_ref` is set. `QUEUED`, which no code writes, is left out.
* `requests`: each thread of the HTTP pool with its program point and the
  `RuntimeRecord` it holds. `provisioners`: the thread `_start_provision` starts;
  a runtime is in `_provisioning_ids` exactly when its thread is not `off`.
* `containers`: none, starting, ready (inspect would say ready), exited, removed.
* `creations`, `crashes`: history, for `CreatedOnce` and for the bound on restarts.

One action is one SQLite statement or provider call, with the control up to the
next one. `CanSwap`/`Store` are `update_if_state`; what a thread writes back is
its own copy, as in `transition`. `Crash` drops all threads and nothing else,
because start-up recovers nothing.

### NotebookStore and NotebookService

`NotebookStore` has two variables: the list of contents of each notebook and what
each (method, key) was used for. A write is one step.

`NotebookService` has the three tables, the blob files, the request threads, and
the answers given so far (history). A content stands for a document, its
canonical bytes and its hash. A blob is `absent`, `published` (renamed, directory
not synced) or `durable`. Every repository method is one step because every
transaction starts with `BEGIN IMMEDIATE`; reads that use two transactions are
two steps. `Crash` with the fault `power` may drop any subset of the published
blobs. The idempotency scope is the method alone: the path template of PUT is the
literal text `/api/v1/notebooks/{notebookId}`, and there is one caller.

### KernelGateway

`table` is `kernel_creation_guards`, `guards` the objects (count, lock, waiters),
`mapped` is `kernel_by_notebook`, `kernels` what Jupyter runs, `told` the ids
clients know, `astray` the kernels of which an answer was lost. A guard's `waiters`
are asyncio's queue: `Append` at the end, `Tail` when the first is woken,
`RemoveFirst` when one is cancelled (`deque.remove`). A step runs from
one await that waits to the next; `kernel_lock` is never held over one and is left
out. One user and one runtime stand for all, since they are part of every key.

### NotebookDocument, OpenNotebook, EditTimeline and DocumentContext

`NotebookDocument` defines the SDK's `NotebookModel` as a record (cells, metadata,
undo, redo, dirty) and each of its methods as an operator from model to model:
`Recorded` is `recordHistory`, `Parse`/`ToJSON` are `parseNotebook`/`toJSON` with
what they do to circuits, `Undo` and `Redo` exchange whole documents.
`OpenNotebook` is one such model, made from the document that was opened, and the next
id. `DocumentContext` adds the file, saves under way (the document is taken at the
call, the file gets it later, dirty is cleared with the answer), revert, and the
Yjs document: `Install` is a change of the model with the slot that pushes it,
`Remote` the slot of the other direction. `raced` remembers that something
overtook a save. `EditTimeline` has only a line of documents and a position on
it; undo stack, present document and reversed redo stack are that line.

### NotebookController

The controller edits the model of `OpenNotebook`; its specification is `EditorSpec`, and
its operations have names of their own, so that one module of proofs can extend both
users of the model. `active`, `chosen`, `anchor`, `mode`, `clipboard` are the
controller's fields; `shown` is the copy the Svelte editor was last given by the
listener; `runs`, `running`, `queue` are the executions awaited by `runCell` and
`runAll`. A handler is one action however often it edits the model; an execution
ends in an action of its own, at any later time.

### KernelSession

Three nested objects: `SessionContext` (`status`, `restarting`),
`RuntimeKernelAdapter` (`delegate`, `connecting`, `attempts`) and `JupyterKernel`
(`kernelId`, `socket`, and in `sockets` every WebSocket it ever created). `exec`
has each execution at its await, with the listener's state: outputs, display ids,
pending clear, reply and idle seen. The kernel is external: it takes requests in
order and publishes on two channels that interleave freely. `Rendered` states,
without replaying the messages, what a sequence of outputs, clears and updates has
to show; `ResultIsWhole` compares the listener with it.

### NotebookPage

`server` is the legacy API, one request at a time; a document is the set of the
user's changes it contains. `save` is `persist()`: the await it is at, the change
version it started from, the copy it sent and the answer. `call` is the one other
handler the user may have started, likewise. Answers are computed when the server
acts and read when the handler continues, so both orders with everything else
occur. `crossed`, `hasty`, `overtaken` and `unheard` mark the named windows.

### NotebookCells

`stored`, `notebook` and `editor` are the three forms; each action is a change on
one side with the rebuilding of the other that the page does in the same
turn. The initial states are all files of up to two cells that another
program might have written, after import. Ids are numbers, a new cell gets the next
one; foreign ids are any set of numbers with a greatest one.

### PortalNotebook

`document` is the React state, `saves` the PUTs of Save with what they closed over,
`run` the one run (the await it is at, the cells and revision of the render of the
click), `current` is `RuntimeManager`'s runtime, `client` the one whose kernel
`ProductJupyterClient` holds. The endpoints `/v1/runtimes` are not part of the
repository any more and are modelled from their use. `forgot` marks that the id of
a live runtime was lost.

## Runs

| Run | Instance | Shows |
|---|---|---|
| `RuntimeFaults` | 1 user, 2 runtimes, 2 threads, 1 restart, all faults | a container is created at most once, READY is kept, a stop is final, no write takes back another one's |
| `RuntimeLiveness` | 1 runtime, 3 threads, failing creations, dying containers, fairness | requested runtimes settle, stops end, requests are answered, servers of closed records are removed |
| `NotebookHistory` | 1 notebook, 2 contents, 2 keys, 2 threads, 3 revisions, 1 restart, faults blob and sync | blobs are present, answers stand, no lost update |
| `NotebookReplay` | 2 notebooks, 1 key, 2 threads, 2 revisions, 1 restart, faults database and power | repeats are replayed; `NotebookService` implements `NotebookStore` |
| `NotebookOtherTarget` | the same service, no faults | violation: a save answered with another notebook's result (finding 3) |
| `GatewayFaults` | 1 notebook, 3 tasks, 3 kernels, both faults, fairness | one kernel per notebook, mapped kernels are alive, exact counts, waiters are served |
| `DocumentUndo` | 1 circuit opened, 2 cells, history of 2, 3 edits, 1 save or revert | distinct ids, the shared document agrees, clean is saved; `DocumentContext` implements `EditTimeline` |
| `NotebookEditor` | a code cell and a circuit opened, 3 cells, 3 user operations, 2 executions, fairness | deletes only what is shown, the active cell is kept, a Run All ends |
| `KernelSession` | 2 executions, 2 faults, fairness | results are whole, busy is true, nothing is left behind, executions end |
| `NotebookPage` | 3 ids, 1 stored, 2 changes, 2 handlers, 1 fault, fairness | changes stay in their notebook, saved is true, no conflict with oneself, changes settle |
| `NotebookCells` | 2 foreign ids, 3 cells, 2 changes | distinct ids, both sides show the same, stored cells are legal, reopening shows the same |
| `PortalNotebook` | 2 cells, 2 runtimes, 1 edit, 2 saves, 2 runs, 1 stop, 1 output, 1 fault, fairness | saved is true, outputs go with their source, live runtimes can be stopped, a run ends |

Seven more configurations produce the counterexamples of the findings that have no
run of their own; call `tlc -config <name>.cfg <module>`:

| Configuration | Module | Property it violates |
|---|---|---|
| `RuntimeOneServer`, `RuntimeStopAnswer` | `MCRuntimeService` | `OneServerPerUser`, `StopReturnsAccepted` |
| `NotebookPowerLoss` | `MCNotebookService` | `BlobsPresent`, with power losses |
| `GatewayLostKernel` | `MCKernelGateway` | `OneKernelAtAll` |
| `PageSaved`, `PageAutosave` | `MCNotebookPage` | `AllChangesSaved`, `Autosaves` |
| `PortalOutputs` | `MCPortalNotebook` | `OutputsArePersisted` |
| `CircuitFile` | `MCDocumentContext` | `FilesAreLegal` |
| `CellNames` | `MCNotebookCells` | `NamesStick` |

Every module that models the code's state has a type invariant `TypeOK`, and all of
them are proved. The configurations leave `TypeOK` out in favour of properties that
say more.

### Why these bounds are enough to be interesting

*Runtime*: users only meet in the index, so one user with two runtimes has every
race; two threads and the provisioner are every pair of writers of a row, and the
run with fairness has three threads, two stops and a PUT at once, over a single
runtime. One restart is enough to find a row in each state without its thread and
to start a provisioning again. *Notebook service*: two threads reach every
interleaving of two writes, or of a write and a read; two contents make saves change
or keep the head; a key fewer than the number of calls forces replays; three
revisions let the head move on after an answer; the faults are divided between the
two runs. *Gateway*: three tasks of one notebook are a holder and two waiters, or a
holder, a waiter that was woken and a newcomer between release and wake-up; the
spare guard makes a second guard for one notebook possible; several notebooks are
covered by the proofs. *Document*: three edits overflow a history of two, and one
save or revert can be overtaken by the other actors. *Controller*: three operations
extend a selection, delete or undo under it, and delete again. *Session*: two
executions share an attempt, race for a socket and follow each other on one; two
faults break and break again. *Page*: one save in flight, one handler and two
changes are every pair of awaits of the page. *Cells*: two changes are one on each
side, in either order, from any imported file. *Portal*: one edit between two saves
and two runs, a stop and a fault is every closure that can be stale.

Bounds in the guards: `Runtimes`, `Notebooks` (ids run out: the request is dropped,
or the handler is not offered), `MaxRevision`, `MaxCrashes`, `Kernels` (Jupyter
refuses), `MaxCells`, `MaxEdits`, `MaxCalls`, `MaxEvents`, `MaxRuns`, `MaxChanges`,
`MaxSteps`, `MaxSaves`, `MaxStops`, `MaxOutputs`, `MaxFaults`, `Executions`. The
runs of the services check deadlock. In the frontend modules the user may simply
stop (all bounds used up), so their runs do not, except for `NotebookCells`, where
reopening is always possible.

### Fairness

* `RuntimeService`: every started thread runs on (threads of one process;
  provider calls return or raise; the polling loop has a deadline). Receiving
  requests, containers becoming ready, faults and restarts are not fair.
* `KernelGateway`: the event loop runs every ready task, and an upstream request
  ends, since aiohttp has a default total timeout.
* `KernelSession`: the wait for the runtime has a deadline, requests are answered
  or fail, a socket opens or fails, timers fire. Nothing is assumed of the user or
  of the kernel, which may run for ever.
* `NotebookController`: an execution that was begun is answered, by a result, an
  error or the session's timeout.
* `NotebookPage`: the timer runs out, requests are answered or lost, and a resolved
  await is continued.
* `PortalNotebook`: requests are answered, promises continued, a starting runtime is
  ready or the deadline passes, a kernel that runs finishes.

The liveness run of the runtime service has no restarts: nothing resumes a runtime
that a restart left in PROVISIONING, STARTING or STOPPING, until a DELETE closes
it. It also excludes a failing `terminate`, which the code logs and leaves.

## Findings

1. **Two servers for a user** (`RuntimeOneServer.cfg`). `request_stop` closes a
   runtime whose `provider.create` is still running (no `provider_ref` yet), and the
   next PUT starts another one beside it. The provisioner removes the first
   container only afterwards.
2. **DELETE answered with 500** (`RuntimeStopAnswer.cfg`). The closing transition of
   `request_stop` may lose against another DELETE or the provisioner;
   `ConcurrentRuntimeTransition` is not caught there.
3. **A save answered for another notebook** (run `NotebookOtherTarget`). Neither the
   idempotency scope nor the request hash of PUT contains the notebook id.
4. **A committed revision without content after a power loss**
   (`NotebookPowerLoss.cfg`). `save` trusts `exists()` although the directory entry
   may not be durable yet.
5. **A kernel nobody knows** (`GatewayLostKernel.cfg`). The answer to a creation is
   lost; the next POST creates a second kernel for the notebook.
6. **"All changes saved" over unsaved changes** (`PageSaved.cfg`). A notebook is
   opened, created or imported while a save is in flight: the answer installs the
   old notebook beside the new editor, or sets the flag over newer changes.
7. **A change that is not saved until the next one** (`PageAutosave.cfg`). The timer
   runs out while `persist()` awaits the list; `saveAgain` is not read any more.
8. **Outputs of a run are lost** (`PortalOutputs.cfg`). A Save answered during the
   run makes the run's own PUT a conflict, and the page drops the outputs.
9. **An illegal file from the SDK's serialiser** (`CircuitFile.cfg`). A circuit that
   came from a markdown cell is written as a code cell without results. The
   application's own serialiser repairs it (`StoredIsLegal` holds).
10. **An empty name does not stick** (`CellNames.cfg`). `toJSON` keeps the old label
    when the new one is empty, so the old name comes back.

## Proofs

`RuntimeService_proofs` proves, for every choice of the constants that satisfies
the assumptions in `RuntimeService`: `TypeOK`, `OneActivePerUser`, `StopIsFinal`,
`CreatedOnce`, `ReadyIsKept` as invariants and `LegalTransitions`,
`NothingTakenBack` as action properties. The argument: no writer checks more than
the state it read, so the invariants relate each copy a thread holds to the row.
As long as a copy's state equals the row's state, the copy differs from the row
at most by a stop it is about to record, because owner and `provider_ref` only
change together with the state and no state is entered twice. From there a
successful swap is a legal transition that takes nothing back. `CreatedOnce` needs
that a claim moves a row out of REQUESTED for good, so a second provisioning
thread finds nothing to claim; `ReadyIsKept` that a thread which is going to
remove a container either owns a row in STOPPING, or has lost a swap and thereby
knows that the row can no longer become READY.

`NotebookService_proofs` proves, under the assumptions in `NotebookService`,
`TypeOK`, `HistoryConsistent`, `AnswersStand`, `RepeatsAreReplayed`,
`NoLostUpdate`, `OneRequestPerRevision`, `NothingIsRewritten`, and that the service
implements `NotebookStore`; and, as long as the power does not fail, `BlobsPresent`
and `NoIntegrityFault` (finding 4 is what happens when it does). The argument: the
tables change in one way only, `Write`, which uses up a key that was never used and
leaves the head alone or appends the next row. So rows and records, once there, stay
(`Grows`), and what threads and clients hold are copies of records, which therefore
stay true. `NoLostUpdate` and `OneRequestPerRevision` need `OneMaker`: two records
that changed a notebook never name one row, because the new row is always one past
the head while every record names a row up to it. For the files the invariant adds
that a thread which reached `sync` or `commit` has its file, and that files stay.
The refinement maps a `Write` to `Create` or `Save` of `NotebookStore` and every
other step to a stutter; the bound `MaxRevision` is the same in both.

`KernelGateway_proofs` proves `GuardsAreCounted`, `OneKernelPerNotebook`,
`MappedIsAlive` and `NoLostWakeUp` for any notebooks, kernels, tasks and guards and both faults. The
invariant has two halves. `GuardInv`: the table has a task's guard for the task's
notebook, no two notebooks share one, the count is the number of users, and a guard
is locked exactly while one task, its holder, is between its look at the table and
its release. `KernelInv`: a holder before its store found no mapping; a kernel in
its hands is alive and known to nobody else; every other live kernel that is not
astray is mapped; a kernel that is being deleted was told to a client, and is dead
or astray before its mapping is dropped. Two live kernels of one notebook would
then be in the hands of two holders of one guard. The queue of waiters matters only
for who is woken, so this part leaves its content open. A second invariant on top of
the first, `QueueInv`, says that a guard's queue holds exactly the tasks that wait
for it, each once; the lemmas `AppendQueued`, `TailQueued` and `FirstRemovedQueued`
say what the three operations on it keep. With it no wake-up is lost: if a task
waits, the queue is not empty; either the lock is held by one who will release it,
or the first of the queue is a task that still waits and so has been woken, also
when the one woken before it was cancelled.

`PortalNotebook_proofs` proves `TypeOK`, `CleanIsStored`, `OutputsWithTheirSource` and
`LiveIsStoppable` for any cells, runtimes and bounds. The service only appends, so
"is what was stored under its revision" travels with every answer from the service
to the document; a run carries the cells it closed over, whose source is the one it
executes; and only one runtime can be active at a time, which the run or the
manager knows unless its id was lost. `TypeOK` bounds the revisions stored, which
takes a count: a click on Save or Run sends at most one PUT, and a PUT is served
once. `CountInv` says that no more revisions are stored than the first one, one for
each save that was served and one for each run (`Clicks`), and fewer while a run may
still store its own (`Owing`).

`DocumentContext_proofs` proves `TypeOK`, `UniqueIds`, `SharedAgrees`,
`CleanIsSaved` and the refinement of `EditTimeline` for any bounds and any opened
document that nbformat allows: distinct ids, and results only in code cells.
`OpenedAssumption` asks this of the opened file because `parseNotebook` takes ids
and results as they are. The lemmas go operation by operation through
`NotebookDocument`: lists of cells under distinct ids below the next one stay such
lists, and a document that is written and read again shows the same. `CleanIsSaved`
is not inductive: `SavesInv` adds that a save which nothing overtook sent what is
shown, and that the file, once written, still is what it sent. For the refinement,
`LineIs` says which document is at which place of the line, for a stack that is
full as for one that is not; an edit is then `EditTimeline`'s edit, undo and redo
its two steps, and everything else a stutter or its reset.

Its second half proves `DeletesOnlyShown`, `SelectionKept` and `EditorTypeOK` of
`NotebookController`, which edits the same model and so needs the same lemmas about
it. `DeletesOnlyShown` follows from `ToldInv` alone: every handler
that moves the selection tells the editor after it, but `enterEdit`, which only ends
a selection. `SelectionKept` needs the document: `StateInv` says that the model is
one the edits can be applied to (`Kept`), and that the selection, the clipboard, the
executions and the queue hold ids that were given. Each handler is then shown to
leave the active cell or to choose one that is there (`Served`); an execution that
ends finds its cell or leaves the model alone. Handlers that go through the selected
or the copied cells are loops, written as recursive functions of the turn. An edit in
a loop must leave what the next one needs: a deletion takes at most one cell, so
deleting fewer than all leaves one to select; a copy goes under an id of its own; a
change of type or text keeps the ids (`RemainingIs`, `PastedIs`, `RetypedIs`,
`HeadedIs`). `ControllerAssumption` ties the data of the model together: a result is
the number of an execution or a circuit's output, and source 1 is a text with a
heading mark.

`KernelSession_proofs` proves `TypeOK`, `ResultIsWhole`, `BusyIsTrue` and
`NothingLeftBehind` for any executions, scripts and faults. `Rendered` says without
replaying the messages what has to be shown, so the first half is a relation
(`Shows`) between the listener's outputs and a prefix of what was published, which
every message keeps, whatever its kind. The second half says where a message can
still come from: a request is queued once, idle comes last on its channel, and a
connection that was lost does not open again. `NothingLeftBehind` rests on `WireInv`:
after a shutdown nobody is left who could create a kernel or a socket, unless one
was connecting then.

`NotebookPage_proofs` proves `TypeOK`, `StaysInItsNotebook`, `SavedIsTrue` and
`NoSelfConflict` for any notebooks and bounds. What a handler holds of the server is
true of a revision (`KnownInv`), so a copy of the current revision has its content.
As long as nothing was put on the page over a running save, page, editor and save
speak of one notebook (`OwnInv`); what is under way is what the editor shows unless
it was changed since, and then nobody calls it saved (`TruthInv`); and only a rename
or the save itself moves the revision, each bringing the page the new one
(`InStepInv`).

`NotebookCells_proofs` proves `TypeOK`, `UniqueIds`, `PageShowsEditor`,
`StoredIsLegal` and `ReopenShowsTheSame` for any foreign ids and bounds. Every form
has a set of sound cells and lists of them under distinct ids up to the last one
given; an import makes such a list of whatever a file held, and each change keeps
it. Each conversion is described cell by cell; a save followed by a reopening is five
of them, and `ShownAgain` composes what is shown after each. `ReopenShowsTheSame` is
proved for whatever id a made-up cell would get, since that id moves on while the
stored file stays.

The library's induction theorems take an operator as a parameter, which the provers
cannot instantiate. Where a proof needs induction (where an element is found, how a
filtered list is numbered, what is shown of a longer sequence) it takes the least
counterexample instead: a set of natural numbers that is not empty has a least
element (`LeastNatural`, from the well-foundedness of `<`).

Proved but not among the runs' properties: the `TypeOK`s, `OneActivePerUser`,
`LegalTransitions`, `HistoryConsistent`, `NoIntegrityFault`, `NothingIsRewritten`,
`OneRequestPerRevision`, and `NoLostWakeUp`, the part of `WaitersAreServed` that needs
no fairness (it also holds in `GatewayFaults` when added to its INVARIANTS).

Only model-checked: the liveness properties (fairness and ENABLED are beyond the
prover).

## Not modelled

* Authentication, logging, wording of answers, time stamps and titles, GET handlers
  that change nothing, health checks and configuration.
* Validation and canonical form of documents (pure functions over JSON); damage to a
  blob's bytes.
* The legacy API's files: requests are taken one at a time. That two of them
  interleave between `meta.json` and `<n>.ipynb`, or stop in the middle, is a listed
  hazard without a property.
* The WebSocket proxy, which forwards frames; how Yjs merges; awareness.
* The language server adapter (arithmetic over text), rendering, the chat, menus and
  panels, uploads of other files, the home page's list.
* Raw cells (they behave as markdown cells), generated code (`dist/`), the
  PostgreSQL schema.

## Plan

1. `LegacyRepository`: the file steps of create, save, rename and delete, with
   crashes, against the promises of `NotebookStore`; most are expected to fail.
2. A composition of `KernelGateway` and `RuntimeService`: the gateway's mapping
   outlives a runtime that is stopped and started again.
3. The chat's conversations and the language server's positions.

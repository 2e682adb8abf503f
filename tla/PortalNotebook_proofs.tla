------------------------ MODULE PortalNotebook_proofs ------------------------
(***************************************************************************)
(* Proofs about PortalNotebook for any cells and runtimes and all bounds.   *)
(*                                                                         *)
(* The argument: the service only appends, so what a revision was answered  *)
(* with stays true of it while the answer travels (StoredIn), whatever the  *)
(* page shows by then; a document becomes clean only by such an answer.     *)
(* A run keeps the cells it closed over, so the source it ran is still      *)
(* beside its outputs when they are sent.  And the service gives a notebook *)
(* one active runtime at a time, which a run that is waiting for it knows.  *)
(*                                                                         *)
(* How many revisions there are is counted (CountInv): a PUT is served      *)
(* once, and a click on Save or Run sends at most one.                      *)
(***************************************************************************)
EXTENDS PortalNotebook, FiniteSetTheorems, SequenceTheorems, WellFoundedInduction, TLAPS

Got == {"none", "waiting", "ok", "conflict", "failed"}
Puts == [revision: Nat, cells: Contents, got: Got]
Stages == {"none", "create", "poll", "kernel", "startNew", "execute", "put"}
States == {"none", "starting", "ready", "failed", "stopped"}

StoredIn(p, rows) == p.revision \in DOMAIN rows /\ rows[p.revision].cells = p.cells

RevisionsInv ==
  /\ revisions \in Seq([cells: Contents, by: SUBSET Cells]) /\ revisions # <<>>
  /\ OutputsWithTheirSource

DocumentInv ==
  /\ edits \in 0..MaxEdits
  /\ \A d \in document :
       /\ d \in [revision: Nat, cells: Contents, dirty: BOOLEAN]
       /\ ~d.dirty => StoredIn(d, revisions)

SavesInv ==
  /\ saves \in Seq(Puts)
  /\ \A i \in DOMAIN saves : saves[i].got = "ok" => StoredIn(saves[i], revisions)

RunRecord ==
  [at: Stages, cell: SUBSET Cells, runtime: Runtimes \cup {0}, n: 0..MaxOutputs,
   put: [revision: Nat, cells: Contents \cup {<<>>}, got: Got],
   got: States \cup {"waiting", "ok", "refused"}]

\* The service has not said which runtime the run gets.
NoAnswer == run.at = "create" /\ run.got = "waiting"

\* What a run closed over, and what it puts back.
RunInv ==
  /\ run \in RunRecord /\ runtimes \in [Runtimes -> States]
  /\ run.at = "none" \/ NoAnswer \/ run.runtime \in Runtimes
  /\ run.at # "none" => run.put.cells \in Contents /\ \E c \in Cells : run.cell = {c}
  /\ run.at = "put" =>
       /\ \A c \in run.cell : run.put.cells[c].out.of = run.put.cells[c].src
       /\ run.put.got = "ok" => StoredIn(run.put, revisions)

PutsInv == RevisionsInv /\ DocumentInv /\ SavesInv /\ RunInv

\* The runtime a run was answered with is the only one that may be active.
RuntimesInv ==
  /\ running = {} => run.at = "none"
  /\ \A r, s \in Active : r = s
  /\ NoAnswer => run.runtime = 0
  /\ run.at \in {"create", "poll"} /\ ~NoAnswer => Active \subseteq {run.runtime}
  /\ stop.got = "ok" => \A r \in stop.of \cap Runtimes : runtimes[r] \in {"failed", "stopped"}
  /\ LiveIsStoppable

-----------------------------------------------------------------------------
(* The sequence of revisions and the choice of a runtime                    *)

\* CHOOSE in First has something to choose: natural numbers are well-ordered.
LEMMA FirstIn ==
  ASSUME NEW S \in SUBSET Nat, S # {}
  PROVE  First(S) \in S
<1>1. \E x \in S : \A y \in S : ~ (<<y, x>> \in OpToRel(<,Nat))
  BY NatLessThanWellFounded, WFMin
<1>2. \A x, y \in S : <<y, x>> \in OpToRel(<,Nat) <=> y < x
  BY DEF OpToRel
<1>3. \E x \in S : \A y \in S : ~ (y < x)
  BY <1>1, <1>2, Zenon
<1>4. \E x \in S : \A y \in S : x <= y
  BY <1>3
<1> QED BY <1>4, Zenon DEF First

\* Nothing that was stored changes.
Grows ==
  /\ Len(revisions) <= Len(revisions')
  /\ \A i \in DOMAIN revisions : i \in DOMAIN revisions' /\ revisions'[i] = revisions[i]

LEMMA StoredStays ==
  ASSUME Grows, NEW p, StoredIn(p, revisions)
  PROVE  StoredIn(p, revisions')
BY DEF Grows, StoredIn

\* Serving a PUT appends what it says, and its answer names that.
LEMMA PutServed ==
  ASSUME RevisionsInv, NEW put \in Puts, NEW by \in SUBSET Cells, put.got = "waiting",
         revisions' = Stored(put, by),
         \A c \in by : put.cells[c].out.of = put.cells[c].src
  PROVE  /\ RevisionsInv' /\ Grows
         /\ Answered(put) \in Puts /\ Answered(put).cells = put.cells
         /\ Answered(put).got = "ok" => StoredIn(Answered(put), revisions')
<1> DEFINE Rev == [cells: Contents, by: SUBSET Cells]
           new == [cells |-> put.cells, by |-> by]
<1>1. new \in Rev /\ revisions \in Seq(Rev) /\ Len(revisions) \in Nat
  BY LenProperties DEF RevisionsInv, Puts
<1>2. CASE Accepts(put)
  <2>1. revisions' = Append(revisions, new)
    BY <1>2 DEF Stored
  <2>2. /\ revisions' \in Seq(Rev) /\ Len(revisions') = Len(revisions) + 1
        /\ \A i \in 1..Len(revisions) : revisions'[i] = revisions[i]
        /\ revisions'[Len(revisions) + 1] = new
    BY <1>1, <2>1, AppendProperties
  <2>3. DOMAIN revisions = 1..Len(revisions) /\ DOMAIN revisions' = 1..(Len(revisions) + 1)
    BY <1>1, <2>2, LenProperties
  <2>4. Grows
    BY <1>1, <2>2, <2>3 DEF Grows
  <2>5. RevisionsInv'
    <3>1. ASSUME NEW i \in DOMAIN revisions', NEW c \in revisions'[i].by
          PROVE  revisions'[i].cells[c].out.of = revisions'[i].cells[c].src
      <4>1. CASE i \in DOMAIN revisions
        BY <4>1, <2>2, <2>3 DEF RevisionsInv, OutputsWithTheirSource
      <4>2. CASE i = Len(revisions) + 1
        BY <4>2, <2>2
      <4> QED BY <1>1, <2>3, <4>1, <4>2
    <3>2. revisions' # <<>>
      BY <1>1, <2>2
    <3> QED BY <2>2, <3>1, <3>2 DEF RevisionsInv, OutputsWithTheirSource
  <2>6. Answered(put) = [revision |-> Len(revisions) + 1, cells |-> put.cells, got |-> "ok"]
    BY <1>2 DEF Answered, Puts
  <2>7. /\ Answered(put) \in Puts /\ Answered(put).cells = put.cells
        /\ Answered(put).revision = Len(revisions) + 1
    BY <1>1, <2>6 DEF Puts, Got
  <2>8. StoredIn(Answered(put), revisions')
    BY <1>1, <2>2, <2>3, <2>7 DEF StoredIn
  <2> QED BY <2>4, <2>5, <2>7, <2>8
<1>3. CASE ~Accepts(put)
  <2>1. UNCHANGED revisions
    BY <1>3 DEF Stored
  <2>2. Answered(put) = [put EXCEPT !.got = "conflict"]
    BY <1>3 DEF Answered
  <2>3. Answered(put) \in Puts /\ Answered(put).cells = put.cells /\ Answered(put).got = "conflict"
    BY <2>2 DEF Puts, Got
  <2>4. Grows
    BY <1>1, <2>1 DEF Grows
  <2> QED BY <2>1, <2>3, <2>4 DEF RevisionsInv, OutputsWithTheirSource
<1> QED BY <1>2, <1>3

-----------------------------------------------------------------------------
(* PUTs, the document and the outputs                                       *)

\* A step that leaves the stored revisions alone changes the document, the PUTs or the run.
LEMMA PutsFrame ==
  ASSUME PutsInv, UNCHANGED revisions,
         DocumentInv' \/ UNCHANGED <<document, edits>>, SavesInv' \/ UNCHANGED saves,
         RunInv' \/ UNCHANGED <<run, runtimes>>
  PROVE  PutsInv'
BY DEF PutsInv, RevisionsInv, OutputsWithTheirSource, DocumentInv, SavesInv, RunInv, NoAnswer

\* The answer of a PUT that was stored makes a clean document.
LEMMA InstallIsClean ==
  ASSUME PutsInv, NEW put, put.revision \in Nat, put.cells \in Contents, StoredIn(put, revisions),
         UNCHANGED <<revisions, edits>>, Install(put)
  PROVE  DocumentInv'
<1>1. \A d \in document' : d = [revision |-> put.revision, cells |-> put.cells, dirty |-> FALSE]
  BY DEF Install, Loaded
<1>2. ASSUME NEW d \in document'
      PROVE  d \in [revision: Nat, cells: Contents, dirty: BOOLEAN] /\ StoredIn(d, revisions')
  <2>1. d = [revision |-> put.revision, cells |-> put.cells, dirty |-> FALSE]
    BY <1>1, <1>2
  <2>2. d \in [revision: Nat, cells: Contents, dirty: BOOLEAN]
    BY <2>1
  <2>3. d.revision = put.revision /\ d.cells = put.cells /\ revisions' = revisions
    BY <2>1
  <2> QED BY <2>2, <2>3 DEF StoredIn
<1>3. edits' \in 0..MaxEdits
  BY DEF PutsInv, DocumentInv
<1> QED BY <1>2, <1>3 DEF DocumentInv

LEMMA LoadKeepsPuts ==
  ASSUME PutsInv, Load
  PROVE  PutsInv'
<1>1. CASE UNCHANGED document
  BY <1>1, PutsFrame DEF Load, work
<1>2. CASE document' = Loaded(Len(revisions), Current.cells)
  <2>1. Len(revisions) \in Nat \ {0}
    BY EmptySeq DEF PutsInv, RevisionsInv
  <2>2. /\ Len(revisions) \in DOMAIN revisions
        /\ Current \in [cells: Contents, by: SUBSET Cells]
    <3>1. revisions \in Seq([cells: Contents, by: SUBSET Cells])
      BY DEF PutsInv, RevisionsInv
    <3>2. DOMAIN revisions = 1..Len(revisions)
      BY <3>1, LenProperties
    <3>3. Len(revisions) \in 1..Len(revisions)
      BY <2>1
    <3> QED BY <3>1, <3>2, <3>3, ElementOfSeq DEF Current
  <2>3. \A d \in document' :
          d = [revision |-> Len(revisions), cells |-> Current.cells, dirty |-> FALSE]
    BY <1>2 DEF Loaded
  <2>4. ASSUME NEW d \in document'
        PROVE  d \in [revision: Nat, cells: Contents, dirty: BOOLEAN] /\ StoredIn(d, revisions')
    <3>1. d = [revision |-> Len(revisions), cells |-> Current.cells, dirty |-> FALSE]
      BY <2>3, <2>4
    <3>2. Current.cells \in Contents /\ revisions' = revisions
      BY <2>2 DEF Load
    <3>3. d \in [revision: Nat, cells: Contents, dirty: BOOLEAN]
      BY <2>1, <3>1, <3>2
    <3>4. d.revision = Len(revisions) /\ d.cells = revisions[Len(revisions)].cells
      BY <3>1 DEF Current
    <3> QED BY <2>2, <3>2, <3>3, <3>4 DEF StoredIn
  <2>5. edits' \in 0..MaxEdits
    BY DEF Load, PutsInv, DocumentInv
  <2>6. DocumentInv'
    BY <2>4, <2>5 DEF DocumentInv
  <2> QED BY <2>6, PutsFrame DEF Load, work
<1> QED BY <1>1, <1>2 DEF Load

LEMMA EditKeepsPuts ==
  ASSUME PutsInv, NEW c \in Cells, UpdateCellSource(c)
  PROVE  PutsInv'
<1>1. /\ Doc \in document /\ Doc \in [revision: Nat, cells: Contents, dirty: BOOLEAN]
  BY DEF UpdateCellSource, Doc, PutsInv, DocumentInv
<1>2. edits + 1 \in 0..MaxEdits
  <2>1. MaxEdits \in Nat /\ edits \in 0..MaxEdits
    BY PortalAssumption DEF PutsInv, DocumentInv
  <2> QED BY <2>1 DEF UpdateCellSource
<1> DEFINE cells == [Doc.cells EXCEPT ![c].src = edits + 1]
<1>3. cells \in Contents
  BY <1>1, <1>2 DEF Contents
<1>4. document' = {[Doc EXCEPT !.cells[c].src = edits + 1, !.dirty = TRUE]}
  BY DEF UpdateCellSource
<1> DEFINE new == [Doc EXCEPT !.cells[c].src = edits + 1, !.dirty = TRUE]
<1>5. new.dirty = TRUE /\ new \in [revision: Nat, cells: Contents, dirty: BOOLEAN]
  BY <1>1, <1>3
<1> HIDE DEF cells, new
<1>6. \A d \in document' : d = new
  BY <1>4 DEF new
<1>7. edits' = edits + 1
  BY DEF UpdateCellSource
<1>8. DocumentInv'
  BY <1>2, <1>5, <1>6, <1>7 DEF DocumentInv
<1> QED BY <1>8, PutsFrame DEF UpdateCellSource, work

LEMMA SaveKeepsPuts ==
  ASSUME PutsInv, Save
  PROVE  PutsInv'
<1> DEFINE put == Put(Doc.revision, Doc.cells, "waiting")
<1>1. Doc \in document /\ put \in Puts /\ put.got = "waiting"
  BY DEF Save, Doc, PutsInv, DocumentInv, Put, Puts, Got
<1>2. /\ saves \in Seq(Puts) /\ saves' = Append(saves, put)
  BY DEF PutsInv, SavesInv, Save
<1>3. /\ saves' \in Seq(Puts) /\ Len(saves') = Len(saves) + 1
      /\ \A i \in 1..Len(saves) : saves'[i] = saves[i]
      /\ saves'[Len(saves) + 1] = put
  BY <1>1, <1>2, AppendProperties
<1>4. /\ Len(saves) \in Nat
      /\ DOMAIN saves = 1..Len(saves) /\ DOMAIN saves' = 1..(Len(saves) + 1)
  BY <1>2, <1>3, LenProperties
<1>5. ASSUME NEW i \in DOMAIN saves', saves'[i].got = "ok"
      PROVE  StoredIn(saves'[i], revisions')
  <2>1. i \in DOMAIN saves /\ saves'[i] = saves[i]
    BY <1>1, <1>3, <1>4, <1>5
  <2> QED BY <1>5, <2>1 DEF PutsInv, SavesInv, Save
<1>6. SavesInv'
  BY <1>3, <1>5 DEF SavesInv
<1> QED BY <1>6, PutsFrame DEF Save, work

\* One PUT of Save changes.
LEMMA SavesChange ==
  ASSUME SavesInv, NEW i \in DOMAIN saves, NEW put \in Puts, saves' = [saves EXCEPT ![i] = put],
         Grows \/ UNCHANGED revisions, put.got = "ok" => StoredIn(put, revisions')
  PROVE  SavesInv'
<1>1. i \in 1..Len(saves) /\ saves \in Seq(Puts) /\ DOMAIN saves = 1..Len(saves)
  BY LenProperties DEF SavesInv
<1>2. /\ saves' \in Seq(Puts) /\ Len(saves') = Len(saves)
      /\ \A j \in 1..Len(saves) : saves'[j] = IF j = i THEN put ELSE saves[j]
  BY <1>1, ExceptSeq
<1>3. DOMAIN saves' = DOMAIN saves
  BY <1>1, <1>2, LenProperties
<1>4. ASSUME NEW j \in DOMAIN saves', saves'[j].got = "ok"
      PROVE  StoredIn(saves'[j], revisions')
  BY <1>1, <1>2, <1>3, <1>4, StoredStays DEF SavesInv
<1> QED BY <1>2, <1>4 DEF SavesInv

LEMMA SaveServedKeepsPuts ==
  ASSUME PutsInv, ServeSave
  PROVE  PutsInv'
<1>1. PICK i \in DOMAIN saves :
        /\ saves[i].got = "waiting" /\ revisions' = Stored(saves[i], {})
        /\ saves' = [saves EXCEPT ![i] = Answered(saves[i])]
        /\ UNCHANGED <<document, edits, run, runtimes>>
  BY DEF ServeSave, doc, work
<1>2. saves[i] \in Puts
  BY ElementOfSeq, LenProperties DEF PutsInv, SavesInv
<1>3. /\ RevisionsInv' /\ Grows
      /\ Answered(saves[i]) \in Puts
      /\ Answered(saves[i]).got = "ok" => StoredIn(Answered(saves[i]), revisions')
  BY <1>1, <1>2, PutServed DEF PutsInv
<1>4. SavesInv'
  BY <1>1, <1>3, SavesChange DEF PutsInv
<1>5. DocumentInv' /\ RunInv'
  BY <1>1, <1>3, StoredStays DEF PutsInv, DocumentInv, RunInv, NoAnswer
<1> QED BY <1>3, <1>4, <1>5 DEF PutsInv

LEMMA SaveLostKeepsPuts ==
  ASSUME PutsInv, LoseSave
  PROVE  PutsInv'
<1>1. PICK i \in DOMAIN saves :
        /\ saves' = [saves EXCEPT ![i].got = "failed"]
        /\ UNCHANGED <<revisions, document, edits, run, runtimes>>
  BY DEF LoseSave, doc, work
<1> DEFINE put == [saves[i] EXCEPT !.got = "failed"]
<1>2. saves[i] \in Puts /\ saves' = [saves EXCEPT ![i] = put]
  BY <1>1, ElementOfSeq, LenProperties DEF PutsInv, SavesInv
<1>3. put \in Puts /\ put.got = "failed"
  BY <1>2 DEF Puts, Got
<1>4. SavesInv'
  BY <1>1, <1>2, <1>3, SavesChange DEF PutsInv
<1> QED BY <1>1, <1>4, PutsFrame

LEMMA SaveAnsweredKeepsPuts ==
  ASSUME PutsInv, SaveAnswered
  PROVE  PutsInv'
<1>1. PICK i \in DOMAIN saves :
        /\ IF saves[i].got = "ok" THEN Install(saves[i]) ELSE UNCHANGED document
        /\ saves' = [saves EXCEPT ![i].got = "none"]
        /\ UNCHANGED <<revisions, edits, run, runtimes>>
  BY DEF SaveAnswered, work
<1> DEFINE put == [saves[i] EXCEPT !.got = "none"]
<1>2. saves[i] \in Puts /\ saves' = [saves EXCEPT ![i] = put]
  BY <1>1, ElementOfSeq, LenProperties DEF PutsInv, SavesInv
<1>3. put \in Puts /\ put.got = "none"
  BY <1>2 DEF Puts, Got
<1>4. SavesInv'
  BY <1>1, <1>2, <1>3, SavesChange DEF PutsInv
<1>5. DocumentInv' \/ UNCHANGED <<document, edits>>
  <2>1. CASE saves[i].got = "ok"
    <3>1. StoredIn(saves[i], revisions)
      BY <2>1 DEF PutsInv, SavesInv
    <3> QED BY <1>1, <1>2, <2>1, <3>1, InstallIsClean DEF Puts
  <2> QED BY <1>1, <2>1
<1> QED BY <1>1, <1>4, <1>5, PutsFrame

\* runCell: the cells of the render are kept with the run.
LEMMA RunCellKeepsRun ==
  ASSUME PutsInv, NEW c \in Cells, RunCell(c)
  PROVE  RunInv'
<1>1. /\ Doc.revision \in Nat /\ Doc.cells \in Contents
  BY DEF RunCell, Doc, PutsInv, DocumentInv
<1>2. run' = [at |-> "create", cell |-> {c}, runtime |-> 0, n |-> 0, got |-> "waiting",
              put |-> [revision |-> Doc.revision, cells |-> Doc.cells, got |-> "none"]]
  BY DEF RunCell, NoRun, Put
<1>3. MaxOutputs \in Nat
  BY PortalAssumption
<1>4. run' \in RunRecord
  BY <1>1, <1>2, <1>3 DEF RunRecord, Stages, States, Got
<1>5. /\ run'.at = "create" /\ run'.got = "waiting" /\ run'.cell = {c}
      /\ run'.put.cells \in Contents
  BY <1>1, <1>2
<1>6. runtimes' \in [Runtimes -> States]
  BY DEF RunCell, PutsInv, RunInv
<1> QED BY <1>4, <1>5, <1>6 DEF RunInv, NoAnswer

LEMMA NoRunIsFine ==
  ASSUME PutsInv, run' = NoRun, UNCHANGED runtimes
  PROVE  RunInv'
<1>1. MaxOutputs \in Nat
  BY PortalAssumption
<1>2. NoRun \in RunRecord /\ NoRun.at = "none"
  BY <1>1 DEF NoRun, Put, RunRecord, Stages, States, Got
<1> QED BY <1>2 DEF PutsInv, RunInv

\* The service hands out the active runtime or a new one.
LEMMA CreateKeepsRun ==
  ASSUME PutsInv, ServeCreate
  PROVE  RunInv'
<1>1. /\ run \in RunRecord /\ runtimes \in [Runtimes -> States]
      /\ run.put.cells \in Contents /\ \E c \in Cells : run.cell = {c}
  BY DEF PutsInv, RunInv, ServeCreate
<1>2. CASE /\ Active # {} /\ UNCHANGED runtimes
           /\ run' = [run EXCEPT !.runtime = First(Active), !.got = runtimes[First(Active)]]
  <2>1. First(Active) \in Active
    BY <1>2, FirstIn, PortalAssumption DEF Active
  <2>2. First(Active) \in Runtimes /\ runtimes[First(Active)] \in {"starting", "ready"}
    BY <2>1 DEF Active
  <2>3. /\ run' \in RunRecord /\ run'.runtime \in Runtimes /\ run'.at = "create"
        /\ run'.put = run.put /\ run'.cell = run.cell
    BY <1>1, <1>2, <2>2 DEF RunRecord, States, ServeCreate
  <2> QED BY <1>1, <1>2, <2>3 DEF RunInv
<1>3. CASE /\ Unborn # {} /\ runtimes' = [runtimes EXCEPT ![First(Unborn)] = "starting"]
           /\ run' = [run EXCEPT !.runtime = First(Unborn), !.got = "starting"]
  <2>1. First(Unborn) \in Runtimes
    BY <1>3, FirstIn, PortalAssumption DEF Unborn
  <2>2. /\ run' \in RunRecord /\ run'.runtime \in Runtimes /\ run'.at = "create"
        /\ run'.put = run.put /\ run'.cell = run.cell
    BY <1>1, <1>3, <2>1 DEF RunRecord, States, ServeCreate
  <2>3. runtimes' \in [Runtimes -> States]
    BY <1>1, <1>3, <2>1 DEF States
  <2> QED BY <1>1, <2>2, <2>3 DEF RunInv
<1> QED BY <1>2, <1>3 DEF ServeCreate

\* The run goes on between its start and its PUT.
RunAdvances ==
  EnsureReady \/ EnsureKernel \/ KernelStarted \/ ServePoll \/ ServeStartNew \/ OnIOPub

LEMMA AdvanceKeepsRun ==
  ASSUME PutsInv, RunAdvances
  PROVE  RunInv'
<1>1. /\ run \in RunRecord /\ runtimes \in [Runtimes -> States] /\ run.runtime \in Runtimes
      /\ run.put.cells \in Contents /\ \E c \in Cells : run.cell = {c}
  BY DEF PutsInv, RunInv, NoAnswer, RunAdvances, EnsureReady, EnsureKernel, KernelStarted,
         ServePoll, ServeStartNew, OnIOPub, Executing
<1>2. MaxOutputs \in Nat /\ 0 \in 0..MaxOutputs
  BY PortalAssumption
<1>3. runtimes' = runtimes
  BY DEF RunAdvances, EnsureReady, EnsureKernel, KernelStarted, ServePoll, ServeStartNew,
         OnIOPub, RunStays
<1>4. /\ run' \in RunRecord /\ run'.runtime = run.runtime /\ run'.at # "put"
      /\ run'.put = run.put /\ run'.cell = run.cell
  <2>1. CASE EnsureReady
    <3>1. \/ run' = [run EXCEPT !.at = "poll", !.got = "waiting"]
          \/ run' = [run EXCEPT !.at = "kernel", !.got = "none"]
      BY <2>1 DEF EnsureReady
    <3>2. run' \in RunRecord
      BY <1>1, <3>1, ZenonT(40) DEF RunRecord, Stages, States
    <3> QED BY <1>1, <3>1, <3>2 DEF RunRecord
  <2>2. CASE EnsureKernel
    <3>1. \/ run' = [run EXCEPT !.at = "execute", !.n = 0]
          \/ run' = [run EXCEPT !.at = "startNew", !.got = "waiting"]
      BY <2>2 DEF EnsureKernel
    <3>2. run' \in RunRecord
      BY <1>1, <1>2, <3>1 DEF RunRecord, Stages
    <3> QED BY <1>1, <3>1, <3>2 DEF RunRecord
  <2>3. CASE KernelStarted
    <3>1. run' = [run EXCEPT !.at = "execute", !.got = "none", !.n = 0]
      BY <2>3 DEF KernelStarted
    <3>2. run' \in RunRecord
      BY <1>1, <1>2, <3>1 DEF RunRecord, Stages, States
    <3> QED BY <1>1, <3>1, <3>2 DEF RunRecord
  <2>4. CASE ServePoll
    BY <1>1, <2>4 DEF ServePoll, RunRecord
  <2>5. CASE ServeStartNew
    BY <1>1, <2>5 DEF ServeStartNew, RunRecord
  <2>6. CASE OnIOPub
    BY <1>1, <1>2, <2>6 DEF OnIOPub, Executing, RunRecord
  <2> QED BY <2>1, <2>2, <2>3, <2>4, <2>5, <2>6 DEF RunAdvances
<1> QED BY <1>1, <1>3, <1>4 DEF RunInv

\* saveExecutionResult: the outputs go beside the source the run closed over.
LEMMA ResultKeepsRun ==
  ASSUME PutsInv, SaveExecutionResult
  PROVE  RunInv'
<1> DEFINE c == CHOOSE x \in run.cell : TRUE
           cells == Result(run.put.cells, c)
<1>1. /\ run \in RunRecord /\ run.put.cells \in Contents /\ run.n \in 0..MaxOutputs
      /\ c \in Cells /\ run.cell = {c} /\ run.runtime \in Runtimes
  BY DEF PutsInv, RunInv, NoAnswer, RunRecord, SaveExecutionResult, Executing
<1>2. run.put.cells[c].src \in -1..MaxEdits
  BY <1>1 DEF Contents
<1>3. cells \in Contents /\ cells[c].out.of = cells[c].src
  BY <1>1, <1>2 DEF Result, Contents, Outs
<1>4. run' = [run EXCEPT !.at = "put", !.put = [revision |-> run.put.revision, cells |-> cells,
                                                got |-> "waiting"]]
  BY DEF SaveExecutionResult, ClosedOver, Put
<1> HIDE DEF c, cells
<1>5. /\ run' \in RunRecord /\ run'.runtime = run.runtime /\ run'.cell = run.cell
      /\ run'.put.cells = cells /\ run'.put.got = "waiting"
  BY <1>1, <1>3, <1>4 DEF RunRecord, Stages, Got
<1> QED BY <1>1, <1>3, <1>5 DEF RunInv, SaveExecutionResult, PutsInv

LEMMA RunServedKeepsPuts ==
  ASSUME PutsInv, ServeRunPut
  PROVE  PutsInv'
<1>1. /\ run \in RunRecord /\ run.at = "put" /\ run.put \in Puts /\ run.cell \in SUBSET Cells
      /\ run.put.got = "waiting" /\ run.runtime \in Runtimes /\ run.put.cells \in Contents
      /\ \A c \in run.cell : run.put.cells[c].out.of = run.put.cells[c].src
  BY DEF ServeRunPut, PutsInv, RunInv, NoAnswer, RunRecord, Puts
<1>2. revisions' = Stored(run.put, run.cell) /\ run' = [run EXCEPT !.put = Answered(run.put)]
  BY DEF ServeRunPut
<1>3. /\ RevisionsInv' /\ Grows
      /\ Answered(run.put) \in Puts /\ Answered(run.put).cells = run.put.cells
      /\ Answered(run.put).got = "ok" => StoredIn(Answered(run.put), revisions')
  BY <1>1, <1>2, PutServed DEF PutsInv
<1>4. /\ run' \in RunRecord /\ run'.runtime = run.runtime /\ run'.cell = run.cell
      /\ run'.at = "put" /\ run'.put = Answered(run.put)
  BY <1>1, <1>2, <1>3 DEF RunRecord, Puts
<1>5. UNCHANGED <<document, edits, saves, runtimes>>
  BY DEF ServeRunPut, doc
<1>6. RunInv'
  BY <1>1, <1>3, <1>4, <1>5 DEF RunInv, PutsInv
<1>7. DocumentInv' /\ SavesInv'
  BY <1>3, <1>5, StoredStays DEF PutsInv, DocumentInv, SavesInv
<1> QED BY <1>3, <1>6, <1>7 DEF PutsInv

LEMMA RunAnsweredKeepsPuts ==
  ASSUME PutsInv, RunPutAnswered
  PROVE  PutsInv'
<1>1. RunInv'
  BY NoRunIsFine DEF RunPutAnswered
<1>2. DocumentInv' \/ UNCHANGED <<document, edits>>
  <2>1. CASE run.put.got = "ok"
    <3>1. /\ run.put.revision \in Nat /\ run.put.cells \in Contents
          /\ StoredIn(run.put, revisions)
      BY <2>1 DEF RunPutAnswered, PutsInv, RunInv, RunRecord
    <3> QED BY <2>1, <3>1, InstallIsClean DEF RunPutAnswered
  <2> QED BY <2>1 DEF RunPutAnswered
<1> QED BY <1>1, <1>2, PutsFrame DEF RunPutAnswered

LEMMA RunLostKeepsRun ==
  ASSUME PutsInv, LoseRun
  PROVE  RunInv'
<1>1. CASE run' = NoRun
  BY <1>1, NoRunIsFine DEF LoseRun
<1>2. CASE run.at = "put" /\ run' = [run EXCEPT !.put.got = "failed"]
  <2>1. /\ run \in RunRecord /\ run.put.cells \in Contents /\ run.runtime \in Runtimes
        /\ \E c \in Cells : run.cell = {c}
        /\ \A c \in run.cell : run.put.cells[c].out.of = run.put.cells[c].src
    BY <1>2 DEF PutsInv, RunInv, NoAnswer
  <2> DEFINE put == [run.put EXCEPT !.got = "failed"]
  <2>2. /\ put \in [revision: Nat, cells: Contents \cup {<<>>}, got: Got]
        /\ put.got = "failed" /\ put.cells = run.put.cells
    BY <2>1 DEF RunRecord, Got
  <2>3. run' = [run EXCEPT !.put = put]
    BY <1>2, <2>1 DEF RunRecord
  <2> HIDE DEF put
  <2>4. /\ run' \in RunRecord /\ run'.runtime = run.runtime /\ run'.cell = run.cell
        /\ run'.put = put
    BY <2>1, <2>2, <2>3 DEF RunRecord
  <2> QED BY <2>1, <2>2, <2>4 DEF RunInv, LoseRun, PutsInv
<1> QED BY <1>1, <1>2 DEF LoseRun

\* The runtimes and Stop Runtime touch neither documents nor the run.
RuntimeSteps ==
  StopRuntime \/ ServeStop \/ LoseStop \/ StopAnswered \/ RuntimeStarts \/ RuntimeFails

LEMMA RuntimesKeepRun ==
  ASSUME PutsInv, RuntimeSteps
  PROVE  RunInv' /\ UNCHANGED <<revisions, document, edits, saves, run>>
<1>1. runtimes \in [Runtimes -> States] /\ RunInv
  BY DEF PutsInv, RunInv
<1>2. UNCHANGED <<revisions, document, edits, saves, run>>
  BY DEF RuntimeSteps, StopRuntime, ServeStop, LoseStop, StopAnswered, RuntimeStarts,
         RuntimeFails, doc, work
<1>3. runtimes' \in [Runtimes -> States]
  BY <1>1 DEF RuntimeSteps, StopRuntime, ServeStop, LoseStop, StopAnswered, RuntimeStarts,
              RuntimeFails, States
<1> QED BY <1>1, <1>2, <1>3 DEF RunInv, NoAnswer

LEMMA NextKeepsPuts ==
  ASSUME PutsInv, [Next]_vars
  PROVE  PutsInv'
<1>1. CASE Load
  BY <1>1, LoadKeepsPuts
<1>2. CASE \E c \in Cells : UpdateCellSource(c)
  BY <1>2, EditKeepsPuts
<1>3. CASE Save
  BY <1>3, SaveKeepsPuts
<1>4. CASE ServeSave
  BY <1>4, SaveServedKeepsPuts
<1>5. CASE LoseSave
  BY <1>5, SaveLostKeepsPuts
<1>6. CASE SaveAnswered
  BY <1>6, SaveAnsweredKeepsPuts
<1>7. CASE ServeRunPut
  BY <1>7, RunServedKeepsPuts
<1>8. CASE RunPutAnswered
  BY <1>8, RunAnsweredKeepsPuts
<1>9. CASE \E c \in Cells : RunCell(c)
  BY <1>9, RunCellKeepsRun, PutsFrame DEF RunCell, doc
<1>10. CASE NotReady \/ KernelRefused \/ ExecutionCancelled
  BY <1>10, NoRunIsFine, PutsFrame
     DEF NotReady, KernelRefused, ExecutionCancelled, RunStops, doc
<1>11. CASE ServeCreate
  BY <1>11, CreateKeepsRun, PutsFrame DEF ServeCreate, doc
<1>12. CASE RunAdvances
  <2>1. UNCHANGED <<revisions, document, edits, saves>>
    BY <1>12 DEF RunAdvances, EnsureReady, EnsureKernel, KernelStarted, ServePoll,
                 ServeStartNew, OnIOPub, RunStays, doc
  <2> QED BY <1>12, <2>1, AdvanceKeepsRun, PutsFrame
<1>13. CASE SaveExecutionResult
  BY <1>13, ResultKeepsRun, PutsFrame DEF SaveExecutionResult
<1>14. CASE LoseRun
  BY <1>14, RunLostKeepsRun, PutsFrame DEF LoseRun, doc
<1>15. CASE RuntimeSteps
  BY <1>15, RuntimesKeepRun, PutsFrame
<1>16. CASE UNCHANGED vars
  BY <1>16, PutsFrame DEF vars, doc, work
<1> QED BY <1>1, <1>2, <1>3, <1>4, <1>5, <1>6, <1>7, <1>8, <1>9, <1>10, <1>11, <1>12, <1>13,
           <1>14, <1>15, <1>16
        DEF Next, User, RunGoesOn, Serve, RunAdvances, RuntimeSteps

-----------------------------------------------------------------------------
(* Runtimes and Stop Runtime                                                *)

Runtime == <<running, run, current, stop, forgot>>

\* No runtime becomes active, and those that are over stay so.
LEMMA FewerActive ==
  ASSUME RunInv, RuntimesInv, UNCHANGED Runtime,
         \A r \in Runtimes : runtimes'[r] \in {"starting", "ready"}
                               => runtimes[r] \in {"starting", "ready"},
         \A r \in Runtimes : runtimes[r] \in {"failed", "stopped"}
                               => runtimes'[r] \in {"failed", "stopped"}
  PROVE  RuntimesInv'
<1>1. Active' \subseteq Active
  BY DEF Active
<1> QED BY <1>1 DEF RuntimesInv, Runtime, NoAnswer, LiveIsStoppable

\* The same runtimes are active; the run and what the page shows change.
LEMMA SameActive ==
  ASSUME RuntimesInv, UNCHANGED <<runtimes, stop>>,
         running' = {} => run'.at = "none",
         NoAnswer' => run'.runtime = 0,
         run'.at \in {"create", "poll"} /\ ~NoAnswer' => Active \subseteq {run'.runtime},
         \A r \in Active : r \in current' \/ (run'.at = "create" /\ run'.runtime = r) \/ forgot'
  PROVE  RuntimesInv'
<1>1. Active' = Active
  BY DEF Active
<1> QED BY <1>1 DEF RuntimesInv, LiveIsStoppable

\* The run ends or goes on beyond the creation, and nothing else changes.
LEMMA RunLeaves ==
  ASSUME RuntimesInv, UNCHANGED <<runtimes, stop, current, forgot>>, run.at # "create",
         run'.at \notin {"create", "poll"}, running' = {} => run'.at = "none"
  PROVE  RuntimesInv'
<1>1. \A r \in Active : r \in current' \/ forgot'
  BY DEF RuntimesInv, LiveIsStoppable
<1> QED BY <1>1, SameActive DEF NoAnswer

LEMMA CreateKeepsRuntimes ==
  ASSUME RunInv, RuntimesInv, ServeCreate
  PROVE  RuntimesInv'
<1>1. run \in RunRecord /\ run.at = "create" /\ runtimes \in [Runtimes -> States]
      /\ UNCHANGED <<running, current, stop, forgot>> /\ running # {}
  BY DEF ServeCreate, RunInv, RuntimesInv
<1>2. CASE /\ Active # {} /\ UNCHANGED runtimes
           /\ run' = [run EXCEPT !.runtime = First(Active), !.got = runtimes[First(Active)]]
  <2>1. First(Active) \in Active
    BY <1>2, FirstIn, PortalAssumption DEF Active
  <2>2. Active \subseteq {First(Active)} /\ runtimes[First(Active)] # "waiting"
    BY <2>1 DEF RuntimesInv, Active
  <2>3. run'.runtime = First(Active) /\ run'.at = "create" /\ run'.got # "waiting"
    BY <1>1, <1>2, <2>2 DEF RunRecord
  <2> QED BY <1>1, <1>2, <2>2, <2>3, SameActive DEF NoAnswer
<1>3. CASE /\ Active = {} /\ Unborn # {}
           /\ runtimes' = [runtimes EXCEPT ![First(Unborn)] = "starting"]
           /\ run' = [run EXCEPT !.runtime = First(Unborn), !.got = "starting"]
  <2> DEFINE new == First(Unborn)
  <2>1. new \in Runtimes /\ runtimes[new] = "none"
    BY <1>3, FirstIn, PortalAssumption DEF Unborn
  <2> HIDE DEF new
  <2>2. run'.runtime = new /\ run'.at = "create" /\ run'.got # "waiting"
    BY <1>1, <1>3 DEF RunRecord, new
  <2>3. Active' \subseteq {new}
    BY <1>1, <1>3, <2>1 DEF Active, new
  <2>4. stop.got = "ok" => \A r \in stop.of \cap Runtimes : runtimes'[r] \in {"failed", "stopped"}
    BY <1>1, <1>3, <2>1 DEF RuntimesInv, new
  <2> QED BY <1>1, <2>2, <2>3, <2>4 DEF RuntimesInv, LiveIsStoppable, NoAnswer
<1> QED BY <1>2, <1>3 DEF ServeCreate

LEMMA RunKeepsRuntimes ==
  ASSUME RunInv, RuntimesInv, \/ EnsureReady \/ NotReady \/ LoseRun \/ ServePoll
                             \/ \E c \in Cells : RunCell(c)
  PROVE  RuntimesInv'
<1>0. run \in RunRecord
  BY DEF RunInv
<1>1. CASE EnsureReady
  <2>1. Active \subseteq {run.runtime} /\ running # {} /\ running' = running
        /\ UNCHANGED <<runtimes, stop>> /\ current' = {run.runtime}
    BY <1>1 DEF EnsureReady, RuntimesInv, NoAnswer, RunStays
  <2>2. CASE run.got = "starting"
    <3>1. run'.at = "poll" /\ run'.runtime = run.runtime
      BY <1>0, <1>1, <2>2 DEF EnsureReady, RunRecord
    <3> QED BY <2>1, <3>1, SameActive DEF NoAnswer
  <2>3. CASE run.got = "ready"
    <3>1. run'.at = "kernel"
      BY <1>0, <1>1, <2>3 DEF EnsureReady, RunRecord
    <3> QED BY <2>1, <3>1, SameActive DEF NoAnswer
  <2> QED BY <1>1, <2>2, <2>3 DEF EnsureReady
<1>2. CASE NotReady
  <2>1. Active \subseteq {run.runtime} /\ UNCHANGED <<runtimes, stop>>
        /\ current' = {run.runtime} /\ run'.at = "none"
    BY <1>2 DEF NotReady, RuntimesInv, NoAnswer, NoRun
  <2> QED BY <2>1, SameActive DEF NoAnswer
<1>3. CASE LoseRun
  <2>1. UNCHANGED <<runtimes, stop, current>>
    BY <1>3 DEF LoseRun
  <2>2. CASE run.at # "put"
    <3>1. /\ run'.at = "none"
          /\ forgot' = (forgot \/ (run.at = "create" /\ run.got # "waiting"))
      BY <1>3, <2>2 DEF LoseRun, NoRun
    <3>2. \A r \in Active : r \in current' \/ forgot'
      <4>1. CASE NoAnswer
        BY <2>1, <3>1, <4>1, PortalAssumption DEF RuntimesInv, LiveIsStoppable, Active
      <4>2. CASE ~NoAnswer
        BY <2>1, <3>1, <4>2 DEF RuntimesInv, LiveIsStoppable, NoAnswer
      <4> QED BY <4>1, <4>2
    <3> QED BY <2>1, <3>1, <3>2, SameActive DEF NoAnswer
  <2>3. CASE run.at = "put"
    <3>1. run' = [run EXCEPT !.put.got = "failed"] /\ UNCHANGED <<running, forgot>>
      BY <1>3, <2>3 DEF LoseRun
    <3>2. run'.at = "put"
      BY <1>0, <2>3, <3>1 DEF RunRecord
    <3>3. running # {}
      BY <2>3 DEF RuntimesInv
    <3> QED BY <2>1, <2>3, <3>1, <3>2, <3>3, RunLeaves
  <2> QED BY <2>2, <2>3
<1>4. CASE ServePoll
  <2>1. /\ run.at = "poll" /\ UNCHANGED <<runtimes, stop, current, running, forgot>>
        /\ run'.at = "poll" /\ run'.runtime = run.runtime
    BY <1>0, <1>4 DEF ServePoll, RunStays, RunRecord
  <2> QED BY <2>1, SameActive DEF RuntimesInv, LiveIsStoppable, NoAnswer
<1>5. CASE \E c \in Cells : RunCell(c)
  <2>1. /\ run.at = "none" /\ UNCHANGED <<runtimes, stop, current, forgot>> /\ running' # {}
        /\ run'.at = "create" /\ run'.got = "waiting" /\ run'.runtime = 0
    BY <1>5 DEF RunCell, RuntimesInv, NoRun
  <2>2. \A r \in Active : r \in current' \/ forgot'
    BY <2>1 DEF RuntimesInv, LiveIsStoppable
  <2> QED BY <2>1, <2>2, SameActive DEF NoAnswer
<1> QED BY <1>1, <1>2, <1>3, <1>4, <1>5

\* The steps of a run whose runtime is known and kept.
LEMMA RunEndKeepsRuntimes ==
  ASSUME RunInv, RuntimesInv,
         \/ EnsureKernel \/ ServeStartNew \/ KernelStarted \/ KernelRefused \/ OnIOPub
         \/ ExecutionCancelled \/ SaveExecutionResult \/ ServeRunPut \/ RunPutAnswered
  PROVE  RuntimesInv'
<1>1. run \in RunRecord /\ run.at \notin {"none", "create", "poll"} /\ running # {}
  BY DEF RunInv, RuntimesInv, EnsureKernel, ServeStartNew, KernelStarted, KernelRefused,
         OnIOPub, Executing, ExecutionCancelled, SaveExecutionResult, ServeRunPut,
         RunPutAnswered
<1>2. UNCHANGED <<runtimes, stop, current, forgot>>
  BY DEF EnsureKernel, ServeStartNew, KernelStarted, KernelRefused, RunStops, RunStays, OnIOPub,
         ExecutionCancelled, SaveExecutionResult, ServeRunPut, RunPutAnswered
<1>3. run'.at = "none" \/ (run'.at \notin {"create", "poll"} /\ running' = running)
  <2>1. CASE KernelRefused \/ ExecutionCancelled \/ RunPutAnswered
    BY <2>1 DEF KernelRefused, ExecutionCancelled, RunPutAnswered, RunStops, NoRun
  <2>2. CASE EnsureKernel
    <3>1. \/ run' = [run EXCEPT !.at = "execute", !.n = 0]
          \/ run' = [run EXCEPT !.at = "startNew", !.got = "waiting"]
      BY <2>2 DEF EnsureKernel
    <3> QED BY <1>1, <2>2, <3>1 DEF EnsureKernel, RunRecord, RunStays
  <2>3. CASE KernelStarted
    <3>1. run' = [run EXCEPT !.at = "execute", !.got = "none", !.n = 0]
      BY <2>3 DEF KernelStarted
    <3> QED BY <1>1, <2>3, <3>1 DEF KernelStarted, RunRecord, RunStays
  <2>4. CASE ServeStartNew \/ OnIOPub
    BY <1>1, <2>4 DEF ServeStartNew, OnIOPub, Executing, RunRecord, RunStays
  <2>5. CASE SaveExecutionResult \/ ServeRunPut
    BY <1>1, <2>5 DEF SaveExecutionResult, ServeRunPut, RunRecord
  <2> QED BY <2>1, <2>2, <2>3, <2>4, <2>5
<1> QED BY <1>1, <1>2, <1>3, RunLeaves

LEMMA StopKeepsRuntimes ==
  ASSUME RunInv, RuntimesInv, RuntimeSteps
  PROVE  RuntimesInv'
<1>0. runtimes \in [Runtimes -> States]
  BY DEF RunInv
<1>1. CASE StopRuntime \/ LoseStop
  <2>1. UNCHANGED <<running, run, current, forgot, runtimes>> /\ stop'.got # "ok"
    BY <1>1 DEF StopRuntime, LoseStop, work, NoStop
  <2> QED BY <2>1 DEF RuntimesInv, Active, LiveIsStoppable, NoAnswer
<1>2. CASE ServeStop
  <2>1. /\ UNCHANGED <<running, run, current, forgot>>
        /\ runtimes' = [r \in Runtimes |-> IF r \in stop.of /\ runtimes[r] # "failed"
                                            THEN "stopped" ELSE runtimes[r]]
        /\ stop'.of = stop.of
    BY <1>2 DEF ServeStop, work
  <2>2. Active' \subseteq Active
    BY <2>1 DEF Active
  <2>3. \A r \in stop'.of \cap Runtimes : runtimes'[r] \in {"failed", "stopped"}
    BY <2>1
  <2> QED BY <2>1, <2>2, <2>3 DEF RuntimesInv, LiveIsStoppable, NoAnswer
<1>3. CASE StopAnswered
  <2>1. /\ UNCHANGED <<running, run, runtimes>> /\ stop.got = "ok" /\ stop'.got # "ok"
        /\ forgot' = (forgot \/ current # stop.of)
    BY <1>3 DEF StopAnswered, work, NoStop
  <2>2. Active' = Active /\ Active \cap stop.of = {}
    BY <2>1 DEF RuntimesInv, Active
  <2>3. LiveIsStoppable'
    BY <2>1, <2>2 DEF RuntimesInv, LiveIsStoppable
  <2> QED BY <2>1, <2>2, <2>3 DEF RuntimesInv, NoAnswer
<1>4. CASE RuntimeStarts \/ RuntimeFails
  <2>1. UNCHANGED Runtime
    BY <1>4 DEF RuntimeStarts, RuntimeFails, work, Runtime
  <2>2. \A r \in Runtimes : /\ runtimes'[r] \in {"starting", "ready"}
                               => runtimes[r] \in {"starting", "ready"}
                            /\ runtimes[r] \in {"failed", "stopped"}
                               => runtimes'[r] \in {"failed", "stopped"}
    BY <1>0, <1>4 DEF RuntimeStarts, RuntimeFails, Active
  <2> QED BY <2>1, <2>2, FewerActive
<1> QED BY <1>1, <1>2, <1>3, <1>4 DEF RuntimeSteps

LEMMA NextKeepsRuntimes ==
  ASSUME RunInv, RuntimesInv, [Next]_vars
  PROVE  RuntimesInv'
<1>1. CASE \/ Load \/ Save \/ ServeSave \/ LoseSave \/ SaveAnswered \/ UNCHANGED vars
           \/ \E c \in Cells : UpdateCellSource(c)
  <2>1. UNCHANGED Runtime /\ UNCHANGED runtimes
    BY <1>1 DEF Load, Save, ServeSave, LoseSave, SaveAnswered, UpdateCellSource, vars, work,
                Runtime
  <2> QED BY <2>1, FewerActive
<1>2. CASE ServeCreate
  BY <1>2, CreateKeepsRuntimes
<1>3. CASE RuntimeSteps
  BY <1>3, StopKeepsRuntimes
<1> QED BY <1>1, <1>2, <1>3, RunKeepsRuntimes, RunEndKeepsRuntimes
        DEF Next, User, RunGoesOn, Serve, RuntimeSteps

-----------------------------------------------------------------------------
(* Types: the service stores at most one revision for each click on Save    *)
(* and on Run, since a PUT is served once.                                   *)

\* The PUTs of Save that the service will not store any more.
Served == {i \in DOMAIN saves : saves[i].got # "waiting"}

\* The run may still store a revision.
Owing == run.at # "none" /\ ~(run.at = "put" /\ run.put.got # "waiting")

\* The revision that was there first, and those of the clicks that were served.
Clicks == 1 + Cardinality(Served) + runs

CountInv ==
  /\ runs \in 0..MaxRuns /\ Len(saves) \in 0..MaxSaves
  /\ Len(revisions) <= Clicks
  /\ Owing => Len(revisions) < Clicks

\* The page shows a revision that is stored.
ShownInv == \A d \in document : d.revision \in DOMAIN revisions

\* What Saving... waits for.
OnItsWay == run.at = "put" \/ \E i \in DOMAIN saves : saves[i].got # "none"

PageInv == /\ current \subseteq Runtimes /\ client \subseteq Runtimes /\ running \subseteq Cells
           /\ saving => OnItsWay

\* The PUTs of Save are finitely many, so those that were served can be counted.
LEMMA ServedIs ==
  ASSUME SavesInv
  PROVE  IsFiniteSet(Served) /\ Cardinality(Served) \in Nat /\ Cardinality(Served) <= Len(saves)
<1>1. Len(saves) \in Nat /\ DOMAIN saves = 1..Len(saves)
  BY LenProperties DEF SavesInv
<1>2. IsFiniteSet(1..Len(saves)) /\ Cardinality(1..Len(saves)) = Len(saves)
  <2> DEFINE n == Len(saves)
  <2>1. 1 \in Int /\ n \in Int /\ n \in Nat
    BY <1>1
  <2> HIDE DEF n
  <2>2. IsFiniteSet(1..n) /\ Cardinality(1..n) = IF 1 > n THEN 0 ELSE n - 1 + 1
    BY <2>1, FS_Interval
  <2>3. Cardinality(1..n) = n
    BY <2>1, <2>2
  <2> QED BY <2>2, <2>3 DEF n
<1>3. Served \in SUBSET (1..Len(saves))
  BY <1>1 DEF Served
<1> QED BY <1>2, <1>3, FS_Subset, FS_CardinalityType

\* A PUT adds one revision at most.
LEMMA OneMore ==
  ASSUME RevisionsInv, NEW put \in Puts, NEW by \in SUBSET Cells, revisions' = Stored(put, by)
  PROVE  Len(revisions') <= Len(revisions) + 1 /\ Len(revisions) \in Nat
<1> DEFINE new == [cells |-> put.cells, by |-> by]
<1>1. new \in [cells: Contents, by: SUBSET Cells] /\ Len(revisions) \in Nat
  BY LenProperties DEF RevisionsInv, Puts
<1>2. Len(Append(revisions, new)) = Len(revisions) + 1
  BY <1>1, AppendProperties DEF RevisionsInv
<1>3. revisions' = Append(revisions, new) \/ revisions' = revisions
  BY DEF Stored
<1> QED BY <1>1, <1>2, <1>3

\* A step in which nothing is stored and no PUT changes; a run may only get rid of its claim.
LEMMA QuietKeepsCount ==
  ASSUME CountInv, UNCHANGED <<revisions, saves, runs>>,
         run' = run \/ Owing \/ ~Owing'
  PROVE  CountInv'
<1>1. Served' = Served
  BY DEF Served
<1>2. Owing' => Owing
  BY DEF Owing
<1>3. Clicks' = Clicks
  BY <1>1 DEF Clicks
<1> QED BY <1>2, <1>3 DEF CountInv

LEMMA SaveKeepsCount ==
  ASSUME PutsInv, CountInv, Save
  PROVE  CountInv'
<1> DEFINE put == Put(Doc.revision, Doc.cells, "waiting")
<1>1. Doc \in document /\ put \in Puts /\ put.got = "waiting"
  BY DEF Save, Doc, PutsInv, DocumentInv, Put, Puts, Got
<1>2. saves \in Seq(Puts) /\ saves' = Append(saves, put) /\ Len(saves) < MaxSaves
  BY DEF PutsInv, SavesInv, Save
<1>3. /\ saves' \in Seq(Puts) /\ Len(saves') = Len(saves) + 1
      /\ \A i \in 1..Len(saves) : saves'[i] = saves[i]
      /\ saves'[Len(saves) + 1] = put
  BY <1>1, <1>2, AppendProperties
<1>4. /\ Len(saves) \in Nat
      /\ DOMAIN saves = 1..Len(saves) /\ DOMAIN saves' = 1..(Len(saves) + 1)
  BY <1>2, <1>3, LenProperties
<1>5. Served' = Served
  BY <1>1, <1>3, <1>4 DEF Served
<1>6. UNCHANGED <<revisions, run, runs>>
  BY DEF Save, work
<1>7. Clicks' = Clicks /\ (Owing' => Owing)
  BY <1>5, <1>6 DEF Clicks, Owing
<1>8. Len(saves') \in 0..MaxSaves
  BY <1>2, <1>3, <1>4, PortalAssumption
<1> QED BY <1>6, <1>7, <1>8 DEF CountInv

\* One PUT of Save is served or is over; only a waiting one may be stored.
LEMMA SavesKeepCount ==
  ASSUME PutsInv, CountInv, NEW i \in DOMAIN saves, NEW put \in Puts,
         saves' = [saves EXCEPT ![i] = put], put.got # "waiting", UNCHANGED <<run, runs>>,
         Len(revisions') <= Len(revisions) + 1,
         saves[i].got = "waiting" \/ UNCHANGED revisions
  PROVE  CountInv'
<1>1. saves \in Seq(Puts) /\ DOMAIN saves = 1..Len(saves) /\ i \in 1..Len(saves)
  BY LenProperties DEF PutsInv, SavesInv
<1>2. /\ Len(saves') = Len(saves) /\ DOMAIN saves' = DOMAIN saves
      /\ \A j \in DOMAIN saves : saves'[j] = IF j = i THEN put ELSE saves[j]
  BY <1>1, ExceptSeq
<1>3. Served' = Served \cup {i}
  BY <1>2 DEF Served
<1>4. IsFiniteSet(Served) /\ Cardinality(Served) \in Nat
  BY ServedIs DEF PutsInv
<1>5. Cardinality(Served') = IF i \in Served THEN Cardinality(Served) ELSE Cardinality(Served) + 1
  BY <1>3, <1>4, FS_AddElement
<1>6. i \in Served <=> saves[i].got # "waiting"
  BY DEF Served
<1>7. Len(revisions) \in Nat /\ runs \in Nat
  BY LenProperties DEF PutsInv, RevisionsInv, CountInv
<1>8. Owing' <=> Owing
  BY DEF Owing
<1> DEFINE n == Cardinality(Served)
           m == Cardinality(Served')
<1>9. (m = n /\ Len(revisions') = Len(revisions)) \/ m = n + 1
  BY <1>5, <1>6
<1>10. Clicks = 1 + n + runs /\ Clicks' = 1 + m + runs /\ n \in Nat
  BY <1>4 DEF Clicks
<1> HIDE DEF n, m
<1>11. /\ Len(revisions') <= Clicks'
       /\ Owing' => Len(revisions') < Clicks'
  <2>1. CASE m = n /\ Len(revisions') = Len(revisions)
    BY <1>8, <1>10, <2>1 DEF CountInv
  <2>2. CASE m = n + 1
    <3>1. Clicks' = Clicks + 1 /\ Clicks \in Nat
      BY <1>7, <1>10, <2>2
    <3>2. Len(revisions) <= Clicks /\ (Owing => Len(revisions) < Clicks)
      BY DEF CountInv
    <3> QED
      BY <1>7, <1>8, <3>1, <3>2
  <2> QED BY <1>9, <2>1, <2>2
<1> QED BY <1>2, <1>11 DEF CountInv

LEMMA RunCellKeepsCount ==
  ASSUME PutsInv, RuntimesInv, CountInv, NEW c \in Cells, RunCell(c)
  PROVE  CountInv'
<1>1. ~Owing
  BY DEF RunCell, RuntimesInv, Owing
<1>2. UNCHANGED <<revisions, saves>> /\ runs' = runs + 1 /\ runs < MaxRuns
  BY DEF RunCell
<1>3. Served' = Served /\ Cardinality(Served) \in Nat
  BY <1>2, ServedIs DEF Served, PutsInv
<1>4. runs \in Nat /\ Len(revisions) \in Nat
  BY LenProperties DEF PutsInv, RevisionsInv, CountInv
<1>5. Clicks' = Clicks + 1 /\ Clicks \in Nat
  BY <1>2, <1>3, <1>4 DEF Clicks
<1>6. runs' \in 0..MaxRuns
  BY <1>2, <1>4, PortalAssumption
<1>7. Len(revisions') <= Clicks' /\ Len(revisions') < Clicks'
  BY <1>2, <1>4, <1>5 DEF CountInv
<1> QED BY <1>2, <1>6, <1>7 DEF CountInv

LEMMA RunServedKeepsCount ==
  ASSUME PutsInv, CountInv, ServeRunPut
  PROVE  CountInv'
<1>1. /\ run \in RunRecord /\ run.at = "put" /\ run.put.got = "waiting" /\ run.put \in Puts
      /\ run.cell \in SUBSET Cells /\ revisions' = Stored(run.put, run.cell)
      /\ UNCHANGED <<saves, runs>> /\ run' = [run EXCEPT !.put = Answered(run.put)]
  BY DEF ServeRunPut, PutsInv, RunInv, NoAnswer, RunRecord, Puts
<1>2. run'.at = "put" /\ run'.put = Answered(run.put)
  BY <1>1 DEF RunRecord
<1>3. Answered(run.put).got # "waiting"
  BY <1>1 DEF Answered, Puts
<1>4. Owing /\ ~Owing'
  BY <1>1, <1>2, <1>3 DEF Owing
<1>5. Served' = Served /\ Cardinality(Served) \in Nat /\ runs \in Nat
  BY <1>1, ServedIs DEF Served, PutsInv, CountInv
<1>6. Clicks' = Clicks /\ Clicks \in Nat
  BY <1>1, <1>5 DEF Clicks
<1>7. Len(revisions') <= Len(revisions) + 1 /\ Len(revisions) \in Nat
  BY <1>1, OneMore DEF PutsInv
<1>8. Len(revisions') \in Nat
  BY <1>1, OneMore DEF Stored, PutsInv, RevisionsInv
<1>9. Len(revisions') <= Clicks'
  BY <1>4, <1>6, <1>7, <1>8 DEF CountInv
<1> QED BY <1>1, <1>4, <1>9 DEF CountInv

\* What the service did to the PUTs of Save.
LEMMA SavesCounted ==
  ASSUME PutsInv, CountInv, ServeSave \/ LoseSave \/ SaveAnswered
  PROVE  CountInv'
<1>1. UNCHANGED <<run, runs>>
  BY DEF ServeSave, LoseSave, SaveAnswered, work
<1>2. /\ Len(revisions) \in Nat /\ Len(revisions) <= Len(revisions) + 1
      /\ saves \in Seq(Puts) /\ \A i \in DOMAIN saves : saves[i] \in Puts
  BY LenProperties, ElementOfSeq DEF PutsInv, RevisionsInv, SavesInv
<1>3. CASE ServeSave
  <2>1. PICK i \in DOMAIN saves :
          /\ saves[i].got = "waiting" /\ revisions' = Stored(saves[i], {})
          /\ saves' = [saves EXCEPT ![i] = Answered(saves[i])]
    BY <1>3 DEF ServeSave
  <2>2. Answered(saves[i]) \in Puts /\ Answered(saves[i]).got # "waiting"
    <3> DEFINE p == saves[i]
    <3>1. p \in Puts /\ Len(revisions) + 1 \in Nat
      BY <1>2
    <3> HIDE DEF p
    <3>2. Answered(p) \in Puts /\ Answered(p).got # "waiting"
      BY <3>1 DEF Answered, Puts, Got
    <3> QED BY <3>2 DEF p
  <2>3. Len(revisions') <= Len(revisions) + 1
    BY <1>2, <2>1, OneMore DEF PutsInv
  <2> QED BY <1>1, <2>1, <2>2, <2>3, SavesKeepCount
<1>4. ASSUME NEW i \in DOMAIN saves, NEW got \in Got \ {"waiting"},
             saves' = [saves EXCEPT ![i].got = got], UNCHANGED revisions
      PROVE  CountInv'
  <2> DEFINE put == [saves[i] EXCEPT !.got = got]
  <2>1. saves' = [saves EXCEPT ![i] = put]
    BY <1>4
  <2>2. put \in Puts /\ put.got # "waiting"
    BY <1>2, <1>4 DEF Puts, Got
  <2> QED BY <1>1, <1>2, <1>4, <2>1, <2>2, SavesKeepCount
<1>5. CASE LoseSave
  BY <1>4, <1>5 DEF LoseSave, Got
<1>6. CASE SaveAnswered
  BY <1>4, <1>6 DEF SaveAnswered, Got
<1> QED BY <1>3, <1>5, <1>6

LEMMA NextKeepsCount ==
  ASSUME PutsInv, RuntimesInv, CountInv, [Next]_vars
  PROVE  CountInv'
<1>1. CASE Save
  BY <1>1, SaveKeepsCount
<1>2. CASE ServeSave \/ LoseSave \/ SaveAnswered
  BY <1>2, SavesCounted
<1>3. CASE \E c \in Cells : RunCell(c)
  BY <1>3, RunCellKeepsCount
<1>4. CASE ServeRunPut
  BY <1>4, RunServedKeepsCount
<1>5. CASE Load \/ RuntimeSteps \/ UNCHANGED vars \/ \E c \in Cells : UpdateCellSource(c)
  <2>1. UNCHANGED <<revisions, saves, runs, run>>
    BY <1>5 DEF Load, RuntimeSteps, StopRuntime, ServeStop, LoseStop, StopAnswered, RuntimeStarts,
                RuntimeFails, UpdateCellSource, vars, work, doc
  <2> QED BY <2>1, QuietKeepsCount
<1>6. CASE NotReady \/ KernelRefused \/ ExecutionCancelled \/ RunPutAnswered
  <2>1. UNCHANGED <<revisions, saves, runs>> /\ run' = NoRun
    BY <1>6 DEF NotReady, KernelRefused, ExecutionCancelled, RunPutAnswered, RunStops
  <2>2. ~Owing'
    BY <2>1 DEF Owing, NoRun
  <2> QED BY <2>1, <2>2, QuietKeepsCount
<1>7. CASE RunAdvances \/ ServeCreate \/ SaveExecutionResult
  <2>1. UNCHANGED <<revisions, saves, runs>>
    BY <1>7 DEF RunAdvances, EnsureReady, EnsureKernel, KernelStarted, ServePoll, ServeStartNew,
                OnIOPub, RunStays, ServeCreate, SaveExecutionResult
  <2>2. run.at \notin {"none", "put"}
    BY <1>7 DEF RunAdvances, EnsureReady, EnsureKernel, KernelStarted, ServePoll, ServeStartNew,
                OnIOPub, Executing, ServeCreate, SaveExecutionResult
  <2>3. Owing
    BY <2>2 DEF Owing
  <2> QED BY <2>1, <2>3, QuietKeepsCount
<1>8. CASE LoseRun
  <2>1. UNCHANGED <<revisions, saves, runs>>
    BY <1>8 DEF LoseRun
  <2>2. CASE run' = NoRun
    BY <2>1, <2>2, QuietKeepsCount DEF Owing, NoRun
  <2>3. CASE run.at = "put" /\ run' = [run EXCEPT !.put.got = "failed"]
    <3>1. run \in RunRecord
      BY DEF PutsInv, RunInv
    <3>2. run'.put.got = "failed" /\ run'.at = "put"
      BY <2>3, <3>1 DEF RunRecord
    <3>3. ~Owing'
      BY <3>2 DEF Owing
    <3> QED BY <2>1, <3>3, QuietKeepsCount
  <2> QED BY <1>8, <2>2, <2>3 DEF LoseRun
<1> QED BY <1>1, <1>2, <1>3, <1>4, <1>5, <1>6, <1>7, <1>8
        DEF Next, User, RunGoesOn, Serve, RunAdvances, RuntimeSteps

\* The service only appends.
LEMMA RevisionsGrow ==
  ASSUME PutsInv, [Next]_vars
  PROVE  Grows
<1>1. Len(revisions) \in Nat
  BY LenProperties DEF PutsInv, RevisionsInv
<1>2. CASE UNCHANGED revisions
  BY <1>1, <1>2 DEF Grows
<1>3. CASE ServeSave
  <2>1. PICK i \in DOMAIN saves :
          saves[i].got = "waiting" /\ revisions' = Stored(saves[i], {})
    BY <1>3 DEF ServeSave
  <2>2. saves[i] \in Puts
    BY ElementOfSeq, LenProperties DEF PutsInv, SavesInv
  <2> QED BY <2>1, <2>2, PutServed DEF PutsInv
<1>4. CASE ServeRunPut
  <2>1. /\ run.put \in Puts /\ run.cell \in SUBSET Cells /\ run.put.got = "waiting"
        /\ \A c \in run.cell : run.put.cells[c].out.of = run.put.cells[c].src
        /\ revisions' = Stored(run.put, run.cell)
    BY <1>4 DEF ServeRunPut, PutsInv, RunInv, NoAnswer, RunRecord, Puts
  <2> QED BY <2>1, PutServed DEF PutsInv
<1> QED BY <1>2, <1>3, <1>4
        DEF Next, User, RunGoesOn, Serve, Load, UpdateCellSource, Save, LoseSave, SaveAnswered,
            RunCell, ServeCreate, ServePoll, ServeStartNew, RunStays, EnsureReady, NotReady,
            EnsureKernel, KernelStarted, KernelRefused, RunStops, ExecutionCancelled, OnIOPub,
            SaveExecutionResult, RunPutAnswered, LoseRun, StopRuntime, ServeStop, LoseStop,
            StopAnswered, RuntimeStarts, RuntimeFails, vars

\* A document comes from an answer or from the service, an edit keeps its revision.
LEMMA NextKeepsShown ==
  ASSUME PutsInv, ShownInv, [Next]_vars
  PROVE  ShownInv'
<1>1. Grows
  BY RevisionsGrow
<1>2. CASE UNCHANGED document
  BY <1>1, <1>2 DEF ShownInv, Grows
<1>3. ASSUME NEW n \in DOMAIN revisions, \A d \in document' : d.revision = n
      PROVE  ShownInv'
  BY <1>1, <1>3 DEF ShownInv, Grows
<1>4. CASE Load
  <2>1. Len(revisions) \in DOMAIN revisions
    <3>1. Len(revisions) \in Nat \ {0} /\ DOMAIN revisions = 1..Len(revisions)
      BY EmptySeq, LenProperties DEF PutsInv, RevisionsInv
    <3> QED BY <3>1
  <2>2. CASE document' = Loaded(Len(revisions), Current.cells)
    BY <1>3, <2>1, <2>2 DEF Loaded
  <2> QED BY <1>2, <1>4, <2>2 DEF Load
<1>5. CASE \E c \in Cells : UpdateCellSource(c)
  <2>1. PICK c \in Cells : UpdateCellSource(c)
    BY <1>5
  <2>2. Doc \in document /\ Doc \in [revision: Nat, cells: Contents, dirty: BOOLEAN]
    BY <2>1 DEF UpdateCellSource, Doc, PutsInv, DocumentInv
  <2>3. document' = {[Doc EXCEPT !.cells[c].src = edits + 1, !.dirty = TRUE]}
    BY <2>1 DEF UpdateCellSource
  <2>4. \A d \in document' : d.revision = Doc.revision
    BY <2>2, <2>3
  <2>5. Doc.revision \in DOMAIN revisions
    BY <2>2 DEF ShownInv
  <2> QED BY <1>3, <2>4, <2>5
<1>6. CASE SaveAnswered
  <2>1. PICK i \in DOMAIN saves :
          IF saves[i].got = "ok" THEN Install(saves[i]) ELSE UNCHANGED document
    BY <1>6 DEF SaveAnswered
  <2>2. CASE saves[i].got = "ok"
    <3>1. saves[i].revision \in DOMAIN revisions
      BY <2>2 DEF PutsInv, SavesInv, StoredIn
    <3> QED BY <1>3, <2>1, <2>2, <3>1 DEF Install, Loaded
  <2> QED BY <1>2, <2>1, <2>2
<1>7. CASE RunPutAnswered
  <2>1. CASE run.put.got = "ok"
    <3>1. run.put.revision \in DOMAIN revisions
      BY <1>7, <2>1 DEF RunPutAnswered, PutsInv, RunInv, StoredIn
    <3> QED BY <1>3, <1>7, <2>1, <3>1 DEF RunPutAnswered, Install, Loaded
  <2> QED BY <1>2, <1>7, <2>1 DEF RunPutAnswered
<1> QED BY <1>2, <1>4, <1>5, <1>6, <1>7
        DEF Next, User, RunGoesOn, Serve, Save, ServeSave, LoseSave, doc,
            RunCell, ServeCreate, ServePoll, ServeStartNew, RunStays, EnsureReady, NotReady,
            EnsureKernel, KernelStarted, KernelRefused, RunStops, ExecutionCancelled, OnIOPub,
            SaveExecutionResult, ServeRunPut, LoseRun, StopRuntime, ServeStop, LoseStop,
            StopAnswered, RuntimeStarts, RuntimeFails, vars

\* A PUT that was answered keeps what came of it until the page takes the answer.
LEMMA SavesOnTheirWay ==
  ASSUME PutsInv, NEW i \in DOMAIN saves, NEW got \in Got \ {"none"}, NEW put,
         put.got = got, saves' = [saves EXCEPT ![i] = put]
  PROVE  OnItsWay'
<1>1. DOMAIN saves' = DOMAIN saves /\ saves'[i] = put
  OBVIOUS
<1> QED BY <1>1 DEF OnItsWay

LEMMA NextKeepsPage ==
  ASSUME PutsInv, RuntimesInv, PageInv, [Next]_vars
  PROVE  PageInv'
<1>1. /\ saves \in Seq(Puts) /\ DOMAIN saves = 1..Len(saves) /\ Len(saves) \in Nat
      /\ \A i \in DOMAIN saves : saves[i] \in Puts
  BY LenProperties, ElementOfSeq DEF PutsInv, SavesInv
<1>2. run \in RunRecord
  BY DEF PutsInv, RunInv
<1>3. CASE Save
  <2> DEFINE put == Put(Doc.revision, Doc.cells, "waiting")
  <2>1. put \in Puts /\ put.got = "waiting" /\ saves' = Append(saves, put)
    BY <1>3 DEF Save, Doc, PutsInv, DocumentInv, Put, Puts, Got
  <2> HIDE DEF put
  <2>2. Len(saves) + 1 \in DOMAIN saves' /\ saves'[Len(saves) + 1] = put
    <3>1. saves' \in Seq(Puts) /\ Len(saves') = Len(saves) + 1 /\ saves'[Len(saves) + 1] = put
      BY <1>1, <2>1, AppendProperties
    <3> QED BY <1>1, <3>1, LenProperties
  <2>3. OnItsWay'
    BY <2>1, <2>2 DEF OnItsWay
  <2> QED BY <1>3, <2>3 DEF Save, PageInv, work
<1>4. CASE ServeSave \/ LoseSave
  <2>1. UNCHANGED <<current, client, running, saving>>
    BY <1>4 DEF ServeSave, LoseSave, work, doc
  <2>2. CASE ServeSave
    <3>1. PICK i \in DOMAIN saves : saves' = [saves EXCEPT ![i] = Answered(saves[i])]
      BY <2>2 DEF ServeSave
    <3>2. Answered(saves[i]).got \in Got \ {"none"}
      BY <1>1 DEF Answered, Puts, Got
    <3> QED BY <2>1, <3>1, <3>2, SavesOnTheirWay DEF PageInv
  <2>3. CASE LoseSave
    <3>1. PICK i \in DOMAIN saves : saves' = [saves EXCEPT ![i].got = "failed"]
      BY <2>3 DEF LoseSave
    <3>2. [saves[i] EXCEPT !.got = "failed"].got = "failed"
      BY <1>1 DEF Puts
    <3>3. saves' = [saves EXCEPT ![i] = [saves[i] EXCEPT !.got = "failed"]]
      BY <3>1
    <3> QED BY <2>1, <3>2, <3>3, SavesOnTheirWay DEF PageInv, Got
  <2> QED BY <1>4, <2>2, <2>3
<1>5. CASE SaveAnswered \/ RunPutAnswered
  <2>1. ~saving' /\ UNCHANGED <<current, client>> /\ running' \in {running, {}}
    BY <1>5 DEF SaveAnswered, RunPutAnswered, work
  <2> QED BY <2>1 DEF PageInv
<1>6. CASE SaveExecutionResult
  <2>1. run'.at = "put" /\ UNCHANGED <<current, client, running>>
    BY <1>2, <1>6 DEF SaveExecutionResult, RunRecord
  <2> QED BY <2>1 DEF PageInv, OnItsWay
<1>7. ASSUME UNCHANGED <<saving, saves>>, run.at # "put" \/ run'.at = "put"
      PROVE  saving' => OnItsWay'
  BY <1>7 DEF PageInv, OnItsWay
<1>8. CASE Load \/ UNCHANGED vars \/ \E c \in Cells : UpdateCellSource(c)
  <2>1. UNCHANGED <<saving, saves, run, current, client, running>>
    BY <1>8 DEF Load, UpdateCellSource, vars, work, doc
  <2> QED BY <2>1 DEF PageInv, OnItsWay
<1>9. CASE \E c \in Cells : RunCell(c)
  <2>1. PICK c \in Cells : RunCell(c)
    BY <1>9
  <2>2. /\ UNCHANGED <<saving, saves, current, client>> /\ running' = {c} /\ run.at # "put"
    BY <2>1 DEF RunCell, doc, RuntimesInv
  <2> QED BY <1>7, <2>2 DEF PageInv
<1>10. CASE RuntimeSteps
  <2>1. /\ UNCHANGED <<saving, saves, run, running>>
        /\ current' \in {current, {}} /\ client' \in {client, {}}
    BY <1>10 DEF RuntimeSteps, StopRuntime, ServeStop, LoseStop, StopAnswered, RuntimeStarts,
                 RuntimeFails, doc, work
  <2> QED BY <2>1 DEF PageInv, OnItsWay
<1>11. CASE \/ RunAdvances \/ ServeCreate \/ NotReady \/ KernelRefused \/ ExecutionCancelled
  <2>1. UNCHANGED <<saving, saves>> /\ running' \in {running, {}} /\ run.at # "put"
    BY <1>11 DEF RunAdvances, EnsureReady, EnsureKernel, KernelStarted, ServePoll, ServeStartNew,
                 OnIOPub, Executing, RunStays, ServeCreate, NotReady, KernelRefused,
                 ExecutionCancelled, RunStops, doc
  <2>2. /\ current' = current \/ (run.runtime \in Runtimes /\ current' = {run.runtime})
        /\ client' = client \/ client' = {} \/ (run.runtime \in Runtimes /\ client' = {run.runtime})
    BY <1>11 DEF RunAdvances, EnsureReady, EnsureKernel, KernelStarted, ServePoll, ServeStartNew,
                 OnIOPub, RunStays, ServeCreate, NotReady, KernelRefused, ExecutionCancelled,
                 RunStops, PutsInv, RunInv, NoAnswer
  <2> QED BY <1>7, <2>1, <2>2 DEF PageInv
<1>12. CASE ServeRunPut \/ LoseRun
  <2>1. UNCHANGED <<saving, saves, current, client>> /\ running' \in {running, {}}
    BY <1>12 DEF ServeRunPut, LoseRun, doc
  <2>2. run.at # "put" \/ run'.at = "put"
    BY <1>2, <1>12 DEF ServeRunPut, LoseRun, RunRecord
  <2> QED BY <1>7, <2>1, <2>2 DEF PageInv
<1> QED BY <1>3, <1>4, <1>5, <1>6, <1>8, <1>9, <1>10, <1>11, <1>12
        DEF Next, User, RunGoesOn, Serve, RunAdvances, RuntimeSteps

-----------------------------------------------------------------------------
(* The theorems                                                             *)

IInv == PutsInv /\ RuntimesInv

LEMMA InitIInv == Init => IInv
<1> SUFFICES ASSUME Init PROVE IInv
  OBVIOUS
<1> DEFINE cells == [c \in Cells |-> [src |-> 0, out |-> NoOut]]
<1>1. /\ MaxEdits \in Nat /\ MaxOutputs \in Nat
  BY PortalAssumption
<1>2. cells \in Contents
  BY <1>1 DEF Contents, Outs, NoOut
<1> HIDE DEF cells
<1>3. revisions = <<[cells |-> cells, by |-> {}]>>
  BY DEF Init, cells
<1>4. /\ revisions \in Seq([cells: Contents, by: SUBSET Cells]) /\ revisions # <<>>
      /\ \A i \in DOMAIN revisions : revisions[i].by = {}
  BY <1>2, <1>3
<1>5. RevisionsInv
  BY <1>4 DEF RevisionsInv, OutputsWithTheirSource
<1>6. DocumentInv
  BY <1>1 DEF Init, DocumentInv
<1>7. SavesInv
  BY DEF Init, SavesInv
<1>8. NoRun \in RunRecord /\ NoRun.at = "none"
  BY <1>1 DEF NoRun, Put, RunRecord, Stages, States, Got
<1>9. RunInv
  BY <1>8 DEF Init, RunInv, States
<1>10. Active = {} /\ run.at = "none" /\ stop.got # "ok"
  BY <1>8 DEF Init, Active, NoStop
<1>11. RuntimesInv
  BY <1>10 DEF RuntimesInv, NoAnswer, LiveIsStoppable
<1> QED BY <1>5, <1>6, <1>7, <1>9, <1>11 DEF IInv, PutsInv

LEMMA Invariance == Spec => []IInv
<1>1. IInv /\ [Next]_vars => IInv'
  BY NextKeepsPuts, NextKeepsRuntimes DEF IInv, PutsInv
<1> QED BY InitIInv, <1>1, PTL DEF Spec

\* The types, and "Saving..." is shown only while a PUT is on its way.
TypesInv == CountInv /\ ShownInv /\ PageInv

LEMMA InitTypes == Init => TypesInv
<1> SUFFICES ASSUME Init PROVE TypesInv
  OBVIOUS
<1>1. saves = <<>> /\ runs = 0 /\ run = NoRun /\ Len(revisions) = 1
  BY DEF Init
<1>2. Served = {}
  BY <1>1 DEF Served
<1>3. Clicks = 1
  BY <1>1, <1>2, FS_EmptySet DEF Clicks
<1>4. CountInv
  BY <1>1, <1>3, PortalAssumption DEF CountInv, Owing, NoRun
<1>5. ShownInv /\ PageInv
  BY DEF Init, ShownInv, PageInv
<1> QED BY <1>4, <1>5 DEF TypesInv

LEMMA TypesFollow == IInv /\ TypesInv => TypeOK
<1> SUFFICES ASSUME IInv, TypesInv PROVE TypeOK
  OBVIOUS
<1>1. /\ revisions \in Seq([cells: Contents, by: SUBSET Cells])
      /\ Len(revisions) \in Nat \ {0} /\ DOMAIN revisions = 1..Len(revisions)
  BY EmptySeq, LenProperties DEF IInv, PutsInv, RevisionsInv
<1>2. Cardinality(Served) \in Nat /\ Cardinality(Served) <= MaxSaves
  <2>1. Cardinality(Served) \in Nat /\ Cardinality(Served) <= Len(saves)
    BY ServedIs DEF IInv, PutsInv
  <2>2. Len(saves) \in 0..MaxSaves /\ MaxSaves \in Nat
    BY PortalAssumption DEF TypesInv, CountInv
  <2> QED BY <2>1, <2>2
<1>3. Len(revisions) \in Revisions
  <2>1. runs \in 0..MaxRuns /\ MaxRuns \in Nat /\ MaxSaves \in Nat
    BY PortalAssumption DEF TypesInv, CountInv
  <2>2. Len(revisions) <= 1 + Cardinality(Served) + runs
    BY DEF TypesInv, CountInv, Clicks
  <2> QED BY <1>1, <1>2, <2>1, <2>2 DEF Revisions
<1>4. document \subseteq Documents
  <2> SUFFICES ASSUME NEW d \in document PROVE d \in Documents
    OBVIOUS
  <2>1. d \in [revision: Nat, cells: Contents, dirty: BOOLEAN] /\ d.revision \in 1..Len(revisions)
    BY <1>1 DEF IInv, PutsInv, DocumentInv, TypesInv, ShownInv
  <2>2. d.revision \in Revisions
    BY <1>1, <1>3, <2>1, PortalAssumption DEF Revisions
  <2> QED BY <2>1, <2>2 DEF Documents
<1>5. \A i \in DOMAIN revisions : revisions[i].cells \in Contents
  <2>1. \A i \in 1..Len(revisions) : revisions[i] \in [cells: Contents, by: SUBSET Cells]
    BY <1>1, ElementOfSeq
  <2> QED BY <1>1, <2>1
<1>6. /\ runtimes \in [Runtimes -> {"none", "starting", "ready", "failed", "stopped"}]
      /\ run.n \in 0..MaxOutputs
  BY DEF IInv, PutsInv, RunInv, RunRecord, States
<1>7. /\ current \subseteq Runtimes /\ client \subseteq Runtimes /\ running \subseteq Cells
      /\ saving => run.at = "put" \/ \E i \in DOMAIN saves : saves[i].got # "none"
  BY DEF TypesInv, PageInv, OnItsWay
<1> QED BY <1>3, <1>4, <1>5, <1>6, <1>7 DEF TypeOK

\* The types; in particular the service stores no more revisions than there were clicks,
\* and the page says "Saving..." only while a PUT is on its way.
THEOREM TypesHold == Spec => []TypeOK
<1>1. IInv /\ TypesInv /\ [Next]_vars => TypesInv'
  BY NextKeepsCount, NextKeepsShown, NextKeepsPage DEF IInv, TypesInv
<1>2. Spec => []TypesInv
  BY Invariance, InitTypes, <1>1, PTL DEF Spec
<1> QED BY Invariance, <1>2, TypesFollow, PTL

\* "Saved" is true, whatever was typed, saved or run meanwhile.
THEOREM CleanIsStoredHolds == Spec => []CleanIsStored
<1>1. IInv => CleanIsStored
  BY DEF IInv, PutsInv, DocumentInv, StoredIn, CleanIsStored
<1> QED BY Invariance, <1>1, PTL

\* In every revision that a run wrote, its cell has the source that was run.
THEOREM OutputsWithTheirSourceHolds == Spec => []OutputsWithTheirSource
<1>1. IInv => OutputsWithTheirSource
  BY DEF IInv, PutsInv, RevisionsInv
<1> QED BY Invariance, <1>1, PTL

\* Stop Runtime can reach a runtime that runs, unless it was lost by an answer.
THEOREM LiveIsStoppableHolds == Spec => []LiveIsStoppable
<1>1. IInv => LiveIsStoppable
  BY DEF IInv, RuntimesInv
<1> QED BY Invariance, <1>1, PTL
=============================================================================

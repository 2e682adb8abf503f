------------------------- MODULE RuntimeService_proofs -------------------------
(***************************************************************************)
(* Proofs about RuntimeService for any users, runtimes and threads, any    *)
(* number of restarts and any set of faults.                               *)
(*                                                                         *)
(* The argument: the state of a row only moves forward (Rank), so a copy   *)
(* of the row whose state still agrees with the table is a copy of the     *)
(* current row (Snapshot), and update_if_state, which compares the state   *)
(* alone, never overwrites anything newer.                                 *)
(***************************************************************************)
EXTENDS RuntimeService, TLAPS

Closing == {"STOPPING", "STOPPED", "FAILED"}

Rank(s) ==
  IF s = "ABSENT" THEN 0
  ELSE IF s = "REQUESTED" THEN 1
  ELSE IF s = "PROVISIONING" THEN 2
  ELSE IF s = "STARTING" THEN 3
  ELSE IF s = "READY" THEN 4
  ELSE IF s = "STOPPING" THEN 5 ELSE 6

\* rec was read from this row, at its present state or at an earlier one.
Snapshot(row, rec) ==
  /\ rec.owner = row.owner
  /\ rec.state # "ABSENT"
  /\ Rank(rec.state) <= Rank(row.state)
  /\ rec.state = row.state => rec.ref = row.ref

RowOK(row) ==
  /\ row.state \in {"STOPPING", "STOPPED"} => row.desired = "STOPPED"
  /\ row.desired = "STOPPED" => row.state \in Closing
  /\ row.state = "READY" => row.ref
  /\ row.state # "ABSENT" => row.owner \in Users

StopHolds == {"stop_swap", "stop_terminate", "stop_fail", "stop_final"}

RequestOK(q, table) ==
  /\ q.pc # "idle" => q.user \in Users
  /\ q.pc = "ensure_insert" => q.rid \in Runtimes /\ table[q.rid].state = "ABSENT"
  /\ q.pc = "ensure_schedule" => q.rid \in Runtimes /\ table[q.rid].state # "ABSENT"
  /\ q.pc \in StopHolds => /\ q.rid \in Runtimes
                           /\ Snapshot(table[q.rid], q.rec)
                           /\ q.rec.desired = "STOPPED"
  /\ q.pc = "stop_swap" => q.rec.state \in ActiveStates \ {"STOPPING"}
  /\ q.pc \in StopHolds \ {"stop_swap"} => /\ q.rec.state = "STOPPING"
                                           /\ table[q.rid].state \in Closing

\* A thread about to insert is the only one that holds the id it has drawn.
Reserved ==
  \A t, o \in Threads :
    requests[t].pc = "ensure_insert" /\ requests[o].rid = requests[t].rid => o = t

ProvisionHolds == {"claim", "create", "cancel", "cancel_stop", "start", "poll", "publish", "fail"}

ProvisionOK(p, row) ==
  /\ p.pc # "off" => row.state # "ABSENT"
  /\ p.pc \in ProvisionHolds =>
       /\ Snapshot(row, p.rec)
       /\ p.rec.state = row.state => p.rec.desired = row.desired
  /\ p.pc = "claim" => p.rec.state = "REQUESTED"
  /\ p.pc \in {"create", "start"} => p.rec.state = "PROVISIONING"
  /\ p.pc \in {"poll", "publish"} => p.rec.state = "STARTING" /\ p.rec.ref
  /\ p.pc = "cancel_stop" => p.rec.state = "STOPPING"
  /\ p.pc = "fail" => p.rec.state \notin {"FAILED", "STOPPED"}

IInv ==
  /\ TypeOK
  /\ \A r \in Runtimes : RowOK(rows[r]) /\ ProvisionOK(provisioners[r], rows[r])
  /\ \A t \in Threads : RequestOK(requests[t], rows)
  /\ Reserved

\* What any step does to a row: nothing, a legal advance, or its insertion.
Advances(old, new) ==
  /\ old.state \in ActiveStates
  /\ new.state \in AllowedTransitions[old.state]
  /\ new.owner = old.owner
  /\ old.desired = "STOPPED" => new.desired = "STOPPED"
  /\ old.ref => new.ref
  /\ RowOK(new)

Inserts(old, new) ==
  /\ old.state = "ABSENT"
  /\ \E u \in Users : new = NewRecord(u) /\ FindActive(u) = {}

Progress(r) ==
  \/ rows'[r] = rows[r]
  \/ Advances(rows[r], rows'[r])
  \/ Inserts(rows[r], rows'[r])

-----------------------------------------------------------------------------
(* Type correctness *)

LEMMA NoRecordType == NoRecord \in RuntimeRecord
  BY DEF NoRecord, RuntimeRecord

LEMMA NewRecordType ==
  ASSUME NEW u \in Users \cup {NoUser} PROVE NewRecord(u) \in RuntimeRecord
  BY DEF NewRecord, RuntimeRecord, RuntimeStates, ActiveStates

LEMMA MovedType ==
  ASSUME NEW rec \in RuntimeRecord, NEW to \in RuntimeStates
  PROVE  /\ Moved(rec, to) \in RuntimeRecord
         /\ Moved(rec, to).owner = rec.owner
         /\ Moved(rec, to).state = to
         /\ Moved(rec, to).desired = rec.desired
         /\ Moved(rec, to).ref = rec.ref
  BY DEF Moved, RuntimeRecord

LEMMA HoldType ==
  ASSUME requests \in [Threads -> RequestRecord],
         NEW t \in Threads, NEW step \in RequestSteps,
         NEW r \in Runtimes \cup {NoRuntime}, NEW rec \in RuntimeRecord,
         Hold(t, step, r, rec)
  PROVE  requests' \in [Threads -> RequestRecord]
  BY DEF Hold, RequestRecord

LEMMA AnswerType ==
  ASSUME requests \in [Threads -> RequestRecord], NEW t \in Threads, Answer(t)
  PROVE  requests' \in [Threads -> RequestRecord]
  BY NoRecordType DEF Answer, RequestRecord, IdleRequest, RequestSteps

LEMMA ContinueType ==
  ASSUME provisioners \in [Runtimes -> ProvisionRecord], NEW r \in Runtimes,
         NEW step \in ProvisionSteps, NEW rec \in RuntimeRecord,
         Continue(r, step, rec)
  PROVE  provisioners' \in [Runtimes -> ProvisionRecord]
  BY DEF Continue, ProvisionRecord

LEMMA ExitType ==
  ASSUME provisioners \in [Runtimes -> ProvisionRecord], NEW r \in Runtimes, Exit(r)
  PROVE  provisioners' \in [Runtimes -> ProvisionRecord]
  BY NoRecordType DEF Exit, ProvisionRecord, NoThread, ProvisionSteps

LEMMA RemoveType ==
  ASSUME containers \in [Runtimes -> ContainerStates], NEW r \in Runtimes, Remove(r)
  PROVE  containers' \in [Runtimes -> ContainerStates]
  BY DEF Remove, ContainerStates

LEMMA StoreType ==
  ASSUME rows \in [Runtimes -> RuntimeRecord], NEW r, NEW rec \in RuntimeRecord, Store(r, rec)
  PROVE  rows' \in [Runtimes -> RuntimeRecord]
  BY DEF Store

\* What a typed state says of one thread, one row and one provisioner.
LEMMA TypeFacts ==
  ASSUME TypeOK
  PROVE  /\ \A t \in Threads : /\ requests[t] \in RequestRecord
                               /\ requests[t].pc \in RequestSteps
                               /\ requests[t].user \in Users \cup {NoUser}
                               /\ requests[t].rid \in Runtimes \cup {NoRuntime}
                               /\ requests[t].rec \in RuntimeRecord
         /\ \A r \in Runtimes : /\ rows[r] \in RuntimeRecord
                                /\ provisioners[r].pc \in ProvisionSteps
                                /\ provisioners[r].rec \in RuntimeRecord
  BY DEF TypeOK, RequestRecord, ProvisionRecord

\* Every variable keeps its type through every step of a request thread.
LEMMA RequestStepType ==
  ASSUME TypeOK, NEW t \in Threads, RequestStep(t)
  PROVE  TypeOK'
<1> USE TypeFacts, NoRecordType, HoldType, AnswerType DEF TypeOK
<1> DEFINE R == requests' \in [Threads -> RequestRecord]
<1>1. CASE EnsureReuse(t)
  BY <1>1 DEF EnsureReuse, FindActive, RequestSteps
<1>2. CASE EnsureNew(t)
  BY <1>2 DEF EnsureNew, UnusedIds, RequestSteps
<1>3. CASE EnsureInsert(t)
  <2>1. R
    BY <1>3 DEF EnsureInsert, GoTo, RequestSteps
  <2>2. rows' \in [Runtimes -> RuntimeRecord]
    BY <1>3, NewRecordType, StoreType DEF EnsureInsert
  <2> QED BY <1>3, <2>1, <2>2 DEF EnsureInsert
<1>4. CASE EnsureRefind(t)
  BY <1>4 DEF EnsureRefind, GoTo, RequestSteps
<1>5. CASE EnsureSchedule(t)
  <2>1. provisioners' \in [Runtimes -> ProvisionRecord]
    BY <1>5, ContinueType DEF EnsureSchedule, Provisioning, ProvisionSteps, Continue
  <2> QED BY <1>5, <2>1 DEF EnsureSchedule
<1>6. CASE AnswerError(t)
  BY <1>6 DEF AnswerError
<1>7. CASE StopFindAbsent(t)
  BY <1>7 DEF StopFindAbsent
<1>8. CASE StopFind(t)
  <2>1. PICK r \in FindActive(requests[t].user) :
          IF rows[r].state = "STOPPING"
            THEN Hold(t, AfterStopping(rows[r]), r, rows[r])
            ELSE Hold(t, "stop_swap", r, [rows[r] EXCEPT !.desired = "STOPPED"])
    BY <1>8 DEF StopFind
  <2>2. r \in Runtimes /\ [rows[r] EXCEPT !.desired = "STOPPED"] \in RuntimeRecord
    BY DEF FindActive, RuntimeRecord
  <2>3. AfterStopping(rows[r]) \in RequestSteps /\ "stop_swap" \in RequestSteps
    BY DEF AfterStopping, RequestSteps
  <2>4. R
    BY <2>1, <2>2, <2>3
  <2> QED BY <1>8, <2>4 DEF StopFind
<1>9. CASE StopSwap(t)
  <2>1. Moved(requests[t].rec, "STOPPING") \in RuntimeRecord
    BY MovedType DEF RuntimeStates, ActiveStates
  <2>2. AfterStopping(requests[t].rec) \in RequestSteps /\ "stop_find" \in RequestSteps
    BY DEF AfterStopping, RequestSteps
  <2>3. R
    BY <1>9, <2>1, <2>2 DEF StopSwap
  <2>4. rows' \in [Runtimes -> RuntimeRecord]
    BY <1>9, <2>1, StoreType DEF StopSwap
  <2> QED BY <1>9, <2>3, <2>4 DEF StopSwap
<1>10. CASE StopTerminate(t)
  <2>1. R
    BY <1>10 DEF StopTerminate, GoTo, RequestSteps
  <2>2. containers' \in [Runtimes -> ContainerStates]
    BY <1>10 DEF StopTerminate, Remove, ContainerStates
  <2> QED BY <1>10, <2>1, <2>2 DEF StopTerminate
<1>11. CASE StopClose(t)
  <2>1. /\ Moved(requests[t].rec, "STOPPED") \in RuntimeRecord
        /\ Moved(requests[t].rec, "FAILED") \in RuntimeRecord
    BY MovedType DEF RuntimeStates, ActiveStates
  <2>2. rows' \in [Runtimes -> RuntimeRecord]
    BY <1>11, <2>1, StoreType DEF StopClose
  <2>3. R
    BY <1>11 DEF StopClose, RequestSteps
  <2> QED BY <1>11, <2>2, <2>3 DEF StopClose
<1> QED
  BY <1>1, <1>2, <1>3, <1>4, <1>5, <1>6, <1>7, <1>8, <1>9, <1>10, <1>11 DEF RequestStep

\* The same for the steps of a provisioning thread.
LEMMA ProvisionStepType ==
  ASSUME TypeOK, NEW r \in Runtimes, ProvisionStep(r)
  PROVE  TypeOK'
<1> USE TypeFacts, NoRecordType, ContinueType, ExitType DEF TypeOK
<1> DEFINE P == provisioners' \in [Runtimes -> ProvisionRecord]
           rec == provisioners[r].rec
<1>0. \A to \in RuntimeStates : Moved(rec, to) \in RuntimeRecord
  BY MovedType
<1>1. CASE ProvisionGet(r)
  BY <1>1 DEF ProvisionGet, ProvisionSteps
<1>2. CASE ProvisionClaim(r)
  <2>1. Moved(rec, "PROVISIONING") \in RuntimeRecord /\ "create" \in ProvisionSteps
    BY <1>0 DEF RuntimeStates, ActiveStates, ProvisionSteps
  <2>2. P
    BY <1>2, <2>1 DEF ProvisionClaim
  <2>3. rows' \in [Runtimes -> RuntimeRecord]
    BY <1>2, <2>1, StoreType DEF ProvisionClaim
  <2> QED BY <1>2, <2>2, <2>3 DEF ProvisionClaim
<1>3. CASE ProvisionCreate(r)
  <2>1. P
    BY <1>3 DEF ProvisionCreate, ProvisionSteps
  <2>2. containers' \in [Runtimes -> ContainerStates]
    BY <1>3 DEF ProvisionCreate, ContainerStates
  <2>3. creations' \in [Runtimes -> Nat]
    BY <1>3 DEF ProvisionCreate
  <2> QED BY <1>3, <2>1, <2>2, <2>3 DEF ProvisionCreate
<1>4. CASE ProvisionRecheck(r)
  BY <1>4 DEF ProvisionRecheck, ProvisionSteps
<1>5. CASE ProvisionCancel(r)
  <2>1. P
    BY <1>5 DEF ProvisionCancel, ProvisionSteps
  <2>2. containers' \in [Runtimes -> ContainerStates]
    BY <1>5, RemoveType DEF ProvisionCancel
  <2> QED BY <1>5, <2>1, <2>2 DEF ProvisionCancel
<1>6. CASE ProvisionCancelStop(r)
  <2>1. P
    BY <1>6 DEF ProvisionCancelStop, ProvisionSteps
  <2>2. rows' \in [Runtimes -> RuntimeRecord]
    BY <1>0, <1>6, StoreType DEF ProvisionCancelStop, RuntimeStates
  <2> QED BY <1>6, <2>1, <2>2 DEF ProvisionCancelStop
<1>7. CASE ProvisionStart(r)
  <2> DEFINE started == [Moved(rec, "STARTING") EXCEPT !.ref = TRUE]
  <2>1. started \in RuntimeRecord
    BY <1>0 DEF RuntimeRecord, RuntimeStates, ActiveStates
  <2>2. P
    BY <1>7, <2>1 DEF ProvisionStart, ProvisionSteps
  <2>3. rows' \in [Runtimes -> RuntimeRecord]
    BY <1>7, <2>1, StoreType DEF ProvisionStart
  <2> QED BY <1>7, <2>2, <2>3 DEF ProvisionStart
<1>8. CASE ProvisionPoll(r)
  BY <1>8 DEF ProvisionPoll, ProvisionSteps
<1>9. CASE ProvisionPublish(r)
  <2>1. P
    BY <1>9 DEF ProvisionPublish, ProvisionSteps
  <2>2. rows' \in [Runtimes -> RuntimeRecord]
    BY <1>0, <1>9, StoreType DEF ProvisionPublish, RuntimeStates, ActiveStates
  <2> QED BY <1>9, <2>1, <2>2 DEF ProvisionPublish
<1>10. CASE ProvisionGiveUp(r)
  <2>1. containers' \in [Runtimes -> ContainerStates]
    BY <1>10, RemoveType DEF ProvisionGiveUp
  <2> QED BY <1>10, <2>1 DEF ProvisionGiveUp
<1>11. CASE ProvisionCleanup(r)
  <2>1. containers' \in [Runtimes -> ContainerStates]
    BY <1>11, RemoveType DEF ProvisionCleanup
  <2> QED BY <1>11, <2>1 DEF ProvisionCleanup, ProvisionSteps
<1>12. CASE ProvisionReget(r)
  BY <1>12 DEF ProvisionReget, ProvisionSteps
<1>13. CASE ProvisionFail(r)
  <2>1. rows' \in [Runtimes -> RuntimeRecord]
    BY <1>0, <1>13, StoreType DEF ProvisionFail, RuntimeStates
  <2> QED BY <1>13, <2>1 DEF ProvisionFail
<1> QED
  BY <1>1, <1>2, <1>3, <1>4, <1>5, <1>6, <1>7, <1>8, <1>9, <1>10, <1>11, <1>12, <1>13
     DEF ProvisionStep

LEMMA InitType == Init => TypeOK
BY NoRecordType, CrashAssumption
   DEF Init, TypeOK, IdleRequest, NoThread, RequestRecord, ProvisionRecord, RequestSteps,
       ProvisionSteps, ContainerStates

LEMMA NextType == TypeOK /\ [Next]_vars => TypeOK'
<1> SUFFICES ASSUME TypeOK, [Next]_vars PROVE TypeOK'
  OBVIOUS
<1>1. ASSUME NEW t \in Threads, NEW u \in Users, Receive(t, u) PROVE TypeOK'
  <2>1. \A step \in {"ensure_find", "stop_find"} :
          [IdleRequest EXCEPT !.pc = step, !.user = u] \in RequestRecord
    BY NoRecordType DEF IdleRequest, RequestRecord, RequestSteps
  <2>2. requests' \in [Threads -> RequestRecord]
    BY <1>1, <2>1 DEF Receive, TypeOK
  <2> QED BY <1>1, <2>2 DEF Receive, TypeOK
<1>2. ASSUME NEW r \in Runtimes, ContainerReady(r) \/ ContainerExit(r) PROVE TypeOK'
  BY <1>2 DEF ContainerReady, ContainerExit, TypeOK, ContainerStates
<1>3. CASE Crash
  BY <1>3, CrashAssumption, NoRecordType
     DEF Crash, TypeOK, IdleRequest, NoThread, RequestRecord, ProvisionRecord, RequestSteps,
         ProvisionSteps
<1>4. CASE UNCHANGED vars
  BY <1>4 DEF vars, TypeOK
<1> QED BY <1>1, <1>2, <1>3, <1>4, RequestStepType, ProvisionStepType DEF Next

\* Every variable keeps its type in every behaviour.
THEOREM TypeCorrect == Spec => []TypeOK
BY InitType, NextType, PTL DEF Spec

-----------------------------------------------------------------------------
(* The table only moves forward *)

LEMMA AdvanceFacts ==
  ASSUME NEW old, NEW new, Advances(old, new)
  PROVE  /\ Rank(old.state) < Rank(new.state)
         /\ new.state \notin {"ABSENT", "REQUESTED"}
         /\ old.state \in Closing => new.state \in Closing
  BY DEF Advances, ActiveStates, AllowedTransitions, Rank, Closing

LEMMA SnapshotKept ==
  ASSUME NEW old, NEW new, NEW rec, Advances(old, new), Snapshot(old, rec),
         rec.state \in RuntimeStates, old.state \in RuntimeStates
  PROVE  Snapshot(new, rec) /\ rec.state # new.state
<1>1. Rank(rec.state) < Rank(new.state)
  <2>1. Rank(rec.state) \in Nat /\ Rank(old.state) \in Nat /\ Rank(new.state) \in Nat
    BY DEF Rank
  <2> QED BY <2>1, AdvanceFacts DEF Snapshot
<1>2. rec.state # new.state
  BY <1>1 DEF Rank
<1>3. Rank(rec.state) <= Rank(new.state)
  BY <1>1 DEF Rank
<1> QED BY <1>2, <1>3 DEF Snapshot, Advances

\* Whatever progress a row makes, what a thread knows of it stays true.
LEMMA ProvisionKept ==
  ASSUME IInv, NEW r \in Runtimes, Progress(r)
  PROVE  RowOK(rows'[r]) /\ ProvisionOK(provisioners[r], rows'[r])
<1>1. RowOK(rows[r]) /\ ProvisionOK(provisioners[r], rows[r])
  BY DEF IInv
<1>2. CASE rows'[r] = rows[r]
  BY <1>1, <1>2
<1>3. CASE Advances(rows[r], rows'[r])
  <2>1. TypeOK
    BY DEF IInv
  <2>2. rows[r].state \in RuntimeStates
    BY <1>3 DEF Advances, RuntimeStates
  <2>3. ASSUME provisioners[r].pc \in ProvisionHolds
        PROVE  /\ Snapshot(rows'[r], provisioners[r].rec)
               /\ provisioners[r].rec.state # rows'[r].state
    <3>1. Snapshot(rows[r], provisioners[r].rec)
      BY <1>1, <2>3 DEF ProvisionOK
    <3>2. provisioners[r].rec.state \in RuntimeStates
      BY <2>1, <3>1, TypeFacts DEF Snapshot, RuntimeRecord
    <3> QED BY <1>3, <2>2, <3>1, <3>2, SnapshotKept
  <2>4. RowOK(rows'[r]) /\ rows'[r].state # "ABSENT"
    BY <1>3, AdvanceFacts DEF Advances
  <2> QED BY <1>1, <2>3, <2>4 DEF ProvisionOK
<1>4. CASE Inserts(rows[r], rows'[r])
  <2>1. provisioners[r].pc = "off"
    BY <1>1, <1>4 DEF Inserts, ProvisionOK
  <2>2. PICK u \in Users : rows'[r] = NewRecord(u)
    BY <1>4 DEF Inserts
  <2>3. RowOK(rows'[r])
    BY <2>2 DEF NewRecord, RowOK, Closing
  <2> QED BY <2>1, <2>3 DEF ProvisionOK, ProvisionHolds
<1> QED BY <1>2, <1>3, <1>4 DEF Progress

LEMMA RequestKept ==
  ASSUME IInv, NEW t \in Threads, \A r \in Runtimes : Progress(r),
         requests[t].pc = "ensure_insert" => rows'[requests[t].rid] = rows[requests[t].rid]
  PROVE  RequestOK(requests[t], rows')
<1> DEFINE q == requests[t]
<1>1. RequestOK(q, rows)
  BY DEF IInv
<1>2. CASE q.pc \in StopHolds
  <2>1. q.rid \in Runtimes /\ Snapshot(rows[q.rid], q.rec) /\ q.rec.desired = "STOPPED"
    BY <1>1, <1>2 DEF RequestOK
  <2>2. q.rec.state \in RuntimeStates
    BY <2>1, TypeFacts DEF Snapshot, RuntimeRecord, IInv
  <2>3. rows[q.rid].state # "ABSENT"
    BY <2>1, <2>2 DEF Snapshot, Rank, RuntimeStates, ActiveStates
  <2>4. rows'[q.rid] = rows[q.rid] \/ Advances(rows[q.rid], rows'[q.rid])
    BY <2>1, <2>3 DEF Progress, Inserts
  <2>5. Snapshot(rows'[q.rid], q.rec)
    <3>1. CASE rows'[q.rid] = rows[q.rid]
      BY <2>1, <3>1
    <3>2. CASE Advances(rows[q.rid], rows'[q.rid])
      BY <2>1, <2>2, <3>2, SnapshotKept DEF Advances, RuntimeStates
    <3> QED BY <2>4, <3>1, <3>2
  <2>6. rows[q.rid].state \in Closing => rows'[q.rid].state \in Closing
    BY <2>4, AdvanceFacts
  <2> QED BY <1>1, <1>2, <2>1, <2>5, <2>6 DEF RequestOK, StopHolds
<1>3. CASE q.pc = "ensure_schedule"
  <2>1. q.rid \in Runtimes /\ rows[q.rid].state # "ABSENT"
    BY <1>1, <1>3 DEF RequestOK
  <2>2. rows'[q.rid].state # "ABSENT"
    BY <2>1, AdvanceFacts DEF Progress, Inserts, NewRecord
  <2> QED BY <1>1, <1>3, <2>1, <2>2 DEF RequestOK, StopHolds
<1>4. CASE q.pc = "ensure_insert"
  BY <1>1, <1>4 DEF RequestOK, StopHolds
<1>5. CASE q.pc \notin StopHolds \cup {"ensure_schedule", "ensure_insert"}
  BY <1>1, <1>5 DEF RequestOK, StopHolds
<1> QED BY <1>2, <1>3, <1>4, <1>5

-----------------------------------------------------------------------------
(* What each step does: the rows make progress, and the thread that took    *)
(* the step knows what its next step relies on.                             *)

\* A compare-and-swap from a snapshot is an advance of the current row.
LEMMA SwapAdvances ==
  ASSUME TypeOK, NEW r \in Runtimes, NEW rec \in RuntimeRecord, NEW to \in RuntimeStates,
         Snapshot(rows[r], rec), CanSwap(r, rec), RowOK(rows[r]),
         rec.state \in ActiveStates, to \in AllowedTransitions[rec.state],
         \/ rec.desired = rows[r].desired
         \/ rec.desired = "STOPPED" /\ to \in Closing,
         to = "STOPPED" => rec.desired = "STOPPED",
         to = "STOPPING" => rec.desired = "STOPPED",
         to = "READY" => rec.ref,
         Store(r, Moved(rec, to))
  PROVE  /\ \A x \in Runtimes : Progress(x)
         /\ rows'[r] = Moved(rec, to)
         /\ \A x \in Runtimes : x # r => rows'[x] = rows[x]
<1>1. rows'[r] = Moved(rec, to) /\ \A x \in Runtimes : x # r => rows'[x] = rows[x]
  BY DEF TypeOK, Store
<1>2. /\ Moved(rec, to).owner = rows[r].owner
      /\ Moved(rec, to).state = to
      /\ Moved(rec, to).desired = rec.desired
      /\ Moved(rec, to).ref = rows[r].ref
      /\ rec.state = rows[r].state
  BY MovedType DEF Snapshot, CanSwap
<1>3. RowOK(Moved(rec, to))
  <2>1. rec.desired = "STOPPED" => to \in Closing
    <3>1. CASE rec.desired = rows[r].desired
      BY <1>2, <3>1 DEF RowOK, AllowedTransitions, Closing, ActiveStates
    <3> QED BY <3>1
  <2>2. rows[r].owner \in Users
    BY <1>2 DEF RowOK, ActiveStates
  <2>3. to = "READY" => rows[r].ref
    BY <1>2 DEF Snapshot
  <2> QED BY <1>2, <2>1, <2>2, <2>3 DEF RowOK
<1>4. Advances(rows[r], Moved(rec, to))
  BY <1>2, <1>3 DEF Advances
<1> QED BY <1>1, <1>4 DEF Progress

LEMMA ProvisionStepKeeps ==
  ASSUME IInv, NEW r \in Runtimes, ProvisionStep(r)
  PROVE  /\ \A x \in Runtimes : Progress(x)
         /\ ProvisionOK(provisioners'[r], rows'[r])
         /\ \A x \in Runtimes : x # r => provisioners'[x] = provisioners[x]
         /\ requests' = requests
         /\ \A t \in Threads : requests[t].pc = "ensure_insert" =>
              rows'[requests[t].rid] = rows[requests[t].rid]
<1> DEFINE rec  == provisioners[r].rec
           Kept == /\ \A x \in Runtimes : Progress(x)
                   /\ ProvisionOK(provisioners'[r], rows'[r])
                   /\ \A t \in Threads : requests[t].pc = "ensure_insert" =>
                        rows'[requests[t].rid] = rows[requests[t].rid]
<1>1. /\ TypeOK
      /\ RowOK(rows[r])
      /\ ProvisionOK(provisioners[r], rows[r])
      /\ rec \in RuntimeRecord
      /\ rows[r] \in RuntimeRecord
  BY TypeFacts DEF IInv
<1>2. provisioners[r].pc # "off" /\ rows[r].state # "ABSENT"
  BY <1>1 DEF ProvisionStep, ProvisionGet, ProvisionClaim, ProvisionCreate, ProvisionRecheck,
       ProvisionCancel, ProvisionCancelStop, ProvisionStart, ProvisionPoll, ProvisionPublish,
       ProvisionGiveUp, ProvisionCleanup, ProvisionReget, ProvisionFail, Provisioning, ProvisionOK
<1>3. provisioners \in [Runtimes -> ProvisionRecord]
  BY <1>1 DEF TypeOK
<1>4. Exit(r) => provisioners'[r].pc = "off"
  BY <1>1 DEF Exit, TypeOK, NoThread
<1>5. \A t \in Threads : requests[t].pc = "ensure_insert" => requests[t].rid # r
  BY <1>2 DEF IInv, RequestOK
<1>6. Snapshot(rows[r], rows[r])
  BY <1>2 DEF Snapshot, Rank
<1>7. /\ requests' = requests
      /\ \A x \in Runtimes : x # r => provisioners'[x] = provisioners[x]
  BY <1>1 DEF ProvisionStep, ProvisionGet, ProvisionClaim, ProvisionCreate, ProvisionRecheck,
       ProvisionCancel, ProvisionCancelStop, ProvisionStart, ProvisionPoll, ProvisionPublish,
       ProvisionGiveUp, ProvisionCleanup, ProvisionReget, ProvisionFail, Continue, Exit, TypeOK
<1> SUFFICES Kept
  BY <1>7
<1>8. ASSUME provisioners'[r].pc = "off" PROVE ProvisionOK(provisioners'[r], rows'[r])
  BY <1>8 DEF ProvisionOK, ProvisionHolds
<1>9. ASSUME rows' = rows PROVE \A x \in Runtimes : Progress(x)
  BY <1>9 DEF Progress
<1>10. ASSUME NEW to \in RuntimeStates, Snapshot(rows[r], rec), CanSwap(r, rec),
              rec.desired = rows[r].desired, rec.state \in ActiveStates,
              to \in AllowedTransitions[rec.state],
              to = "STOPPED" => rec.state = "STOPPING", to # "STOPPING",
              to = "READY" => rec.ref,
              Store(r, Moved(rec, to))
       PROVE  /\ \A x \in Runtimes : Progress(x)
              /\ rows'[r] = Moved(rec, to)
              /\ \A x \in Runtimes : x # r => rows'[x] = rows[x]
  <2>1. rec.state = rows[r].state
    BY <1>10 DEF CanSwap
  <2>2. to = "STOPPED" => rec.desired = "STOPPED"
    BY <1>1, <1>10, <2>1 DEF RowOK
  <2> QED BY <1>1, <1>10, <2>2, SwapAdvances
<1>11. CASE ProvisionGet(r)
  <2>1. rows' = rows
    BY <1>11 DEF ProvisionGet
  <2>2. ProvisionOK(provisioners'[r], rows'[r])
    BY <1>11, <1>2, <1>3, <1>4, <1>6, <1>8, <2>1
       DEF Continue, ProvisionGet, ProvisionSteps, ProvisionOK, ProvisionHolds
  <2> QED BY <1>9, <2>1, <2>2
<1>12. CASE ProvisionClaim(r)
  <2>1. /\ Snapshot(rows[r], rec)
        /\ rec.state = "REQUESTED"
        /\ rec.state = rows[r].state => rec.desired = rows[r].desired
    BY <1>12, <1>1 DEF ProvisionClaim, Provisioning, ProvisionOK, ProvisionHolds
  <2>2. CASE CanSwap(r, rec)
    <3>1. Store(r, Moved(rec, "PROVISIONING"))
      BY <1>12, <2>2 DEF ProvisionClaim
    <3>2. /\ \A x \in Runtimes : Progress(x)
          /\ rows'[r] = Moved(rec, "PROVISIONING")
          /\ \A x \in Runtimes : x # r => rows'[x] = rows[x]
      BY <1>10, <2>1, <2>2, <3>1
         DEF CanSwap, ActiveStates, RuntimeStates, AllowedTransitions
    <3>3. provisioners'[r] = [pc |-> "create", rec |-> Moved(rec, "PROVISIONING")]
      BY <1>12, <1>3, <2>2 DEF Continue, ProvisionClaim, ProvisionSteps
    <3>4. Moved(rec, "PROVISIONING").state = "PROVISIONING"
      BY <1>1, MovedType DEF RuntimeStates, ActiveStates
    <3>5. ProvisionOK(provisioners'[r], rows'[r])
      BY <3>2, <3>3, <3>4 DEF ProvisionOK, ProvisionHolds, Snapshot, Rank
    <3> QED BY <1>1, <1>5, <3>2, <3>5, TypeFacts DEF IInv, RequestOK
  <2>3. CASE ~CanSwap(r, rec)
    BY <1>12, <1>4, <1>8, <1>9, <2>3 DEF ProvisionClaim
  <2> QED BY <2>2, <2>3
<1>13. CASE ProvisionCreate(r)
  <2>1. rows' = rows
    BY <1>13 DEF ProvisionCreate
  <2>2. provisioners'[r].pc \in {"recheck", "reget"}
    BY <1>13, <1>3 DEF Continue, ProvisionCreate, ProvisionSteps
  <2> QED BY <1>2, <1>9, <2>1, <2>2 DEF ProvisionOK, ProvisionHolds
<1>14. CASE ProvisionRecheck(r)
  <2>1. rows' = rows
    BY <1>14 DEF ProvisionRecheck
  <2>2. ProvisionOK(provisioners'[r], rows'[r])
    BY <1>14, <1>2, <1>3, <1>6, <2>1
       DEF Continue, ProvisionRecheck, ProvisionSteps, ProvisionOK, ProvisionHolds
  <2> QED BY <1>9, <2>1, <2>2
<1>15. CASE ProvisionCancel(r)
  <2>1. rows' = rows
    BY <1>15 DEF ProvisionCancel
  <2>2. ProvisionOK(provisioners'[r], rows'[r])
    BY <1>15, <1>1, <1>2, <1>3, <1>4, <1>8, <2>1
       DEF Continue, ProvisionCancel, Provisioning, ProvisionSteps, ProvisionOK, ProvisionHolds
  <2> QED BY <1>9, <2>1, <2>2
<1>16. CASE ProvisionCancelStop(r)
  <2>1. /\ Snapshot(rows[r], rec)
        /\ rec.state = "STOPPING"
        /\ rec.state = rows[r].state => rec.desired = rows[r].desired
    BY <1>16, <1>1 DEF ProvisionCancelStop, Provisioning, ProvisionOK, ProvisionHolds
  <2>2. CASE CanSwap(r, rec)
    <3>1. Store(r, Moved(rec, "STOPPED")) /\ provisioners'[r].pc = "off"
      BY <1>16, <1>4, <2>2 DEF ProvisionCancelStop
    <3>2. /\ \A x \in Runtimes : Progress(x)
          /\ \A x \in Runtimes : x # r => rows'[x] = rows[x]
      BY <1>10, <2>1, <2>2, <3>1
         DEF CanSwap, ActiveStates, RuntimeStates, AllowedTransitions
    <3> QED BY <1>1, <1>5, <1>8, <3>1, <3>2 DEF IInv, RequestOK
  <2>3. CASE ~CanSwap(r, rec)
    <3>1. rows' = rows /\ provisioners'[r].pc = "give_up"
      BY <1>16, <1>3, <2>3 DEF ProvisionCancelStop, Continue
    <3> QED BY <1>2, <1>9, <3>1 DEF ProvisionOK, ProvisionHolds
  <2> QED BY <2>2, <2>3
<1>17. CASE ProvisionStart(r)
  <2> DEFINE started == [Moved(rec, "STARTING") EXCEPT !.ref = TRUE]
  <2>1. /\ Snapshot(rows[r], rec)
        /\ rec.state = "PROVISIONING"
        /\ rec.state = rows[r].state => rec.desired = rows[r].desired
    BY <1>17, <1>1 DEF ProvisionStart, Provisioning, ProvisionOK, ProvisionHolds
  <2>2. CASE CanSwap(r, rec)
    <3>1. /\ rows' = [rows EXCEPT ![r] = started]
          /\ provisioners'[r] = [pc |-> "poll", rec |-> started]
      BY <1>17, <1>3, <2>2 DEF ProvisionStart, Store, Continue
    <3>2. /\ started.owner = rec.owner
          /\ started.state = "STARTING"
          /\ started.desired = rec.desired
          /\ started.ref
      BY <1>1 DEF Moved, RuntimeRecord
    <3>3. rec.state = rows[r].state
      BY <2>2 DEF CanSwap
    <3>4. RowOK(started)
      BY <1>1, <2>1, <3>2, <3>3 DEF RowOK, Snapshot, Closing
    <3>5. Advances(rows[r], started)
      BY <2>1, <3>2, <3>3, <3>4 DEF Advances, Snapshot, ActiveStates, AllowedTransitions
    <3>6. rows'[r] = started /\ \A x \in Runtimes : x # r => rows'[x] = rows[x]
      BY <1>1, <3>1 DEF TypeOK
    <3>7. ProvisionOK(provisioners'[r], rows'[r])
      <4> HIDE DEF started
      <4> QED BY <3>1, <3>2, <3>6 DEF ProvisionOK, ProvisionHolds, Snapshot, Rank
    <3> QED BY <1>1, <1>5, <3>5, <3>6, <3>7 DEF IInv, RequestOK, Progress
  <2>3. CASE ~CanSwap(r, rec)
    <3>1. rows' = rows /\ provisioners'[r].pc = "give_up"
      BY <1>17, <1>3, <2>3 DEF ProvisionStart, Continue
    <3> QED BY <1>2, <1>9, <3>1 DEF ProvisionOK, ProvisionHolds
  <2> QED BY <2>2, <2>3
<1>18. CASE ProvisionPoll(r)
  <2>1. rows' = rows
    BY <1>18 DEF ProvisionPoll
  <2>2. ProvisionOK(provisioners'[r], rows'[r])
    BY <1>18, <1>1, <1>2, <1>3, <2>1
       DEF ProvisionPoll, Provisioning, Continue, ProvisionOK, ProvisionHolds
  <2> QED BY <1>9, <2>1, <2>2
<1>19. CASE ProvisionPublish(r)
  <2>1. /\ Snapshot(rows[r], rec)
        /\ rec.state = "STARTING" /\ rec.ref
        /\ rec.state = rows[r].state => rec.desired = rows[r].desired
    BY <1>19, <1>1 DEF ProvisionPublish, Provisioning, ProvisionOK, ProvisionHolds
  <2>2. CASE CanSwap(r, rec)
    <3>1. Store(r, Moved(rec, "READY")) /\ provisioners'[r].pc = "off"
      BY <1>19, <1>4, <2>2 DEF ProvisionPublish
    <3>2. /\ \A x \in Runtimes : Progress(x)
          /\ \A x \in Runtimes : x # r => rows'[x] = rows[x]
      BY <1>10, <2>1, <2>2, <3>1
         DEF CanSwap, ActiveStates, RuntimeStates, AllowedTransitions
    <3> QED BY <1>1, <1>5, <1>8, <3>1, <3>2 DEF IInv, RequestOK
  <2>3. CASE ~CanSwap(r, rec)
    <3>1. rows' = rows /\ provisioners'[r].pc = "give_up"
      BY <1>19, <1>3, <2>3 DEF ProvisionPublish, Continue
    <3> QED BY <1>2, <1>9, <3>1 DEF ProvisionOK, ProvisionHolds
  <2> QED BY <2>2, <2>3
<1>20. CASE ProvisionGiveUp(r)
  BY <1>20, <1>4, <1>8, <1>9 DEF ProvisionGiveUp
<1>21. CASE ProvisionCleanup(r)
  <2>1. rows' = rows /\ provisioners'[r].pc = "reget"
    BY <1>21, <1>3 DEF ProvisionCleanup, Continue
  <2> QED BY <1>2, <1>9, <2>1 DEF ProvisionOK, ProvisionHolds
<1>22. CASE ProvisionReget(r)
  <2>1. rows' = rows
    BY <1>22 DEF ProvisionReget
  <2>2. ProvisionOK(provisioners'[r], rows'[r])
    BY <1>22, <1>2, <1>3, <1>4, <1>6, <1>8, <2>1
       DEF ProvisionReget, Continue, ProvisionOK, ProvisionHolds
  <2> QED BY <1>9, <2>1, <2>2
<1>23. CASE ProvisionFail(r)
  <2>1. /\ Snapshot(rows[r], rec)
        /\ rec.state \notin {"FAILED", "STOPPED", "ABSENT"}
        /\ rec.state = rows[r].state => rec.desired = rows[r].desired
    BY <1>23, <1>1 DEF ProvisionFail, Provisioning, ProvisionOK, ProvisionHolds, Snapshot
  <2>2. provisioners'[r].pc = "off"
    BY <1>23, <1>4 DEF ProvisionFail
  <2>3. CASE CanSwap(r, rec)
    <3>1. Store(r, Moved(rec, "FAILED"))
      BY <1>23, <2>3 DEF ProvisionFail
    <3>2. rec.state \in ActiveStates /\ "FAILED" \in AllowedTransitions[rec.state]
      BY <1>1, <2>1 DEF RuntimeRecord, RuntimeStates, ActiveStates, AllowedTransitions
    <3>3. /\ \A x \in Runtimes : Progress(x)
          /\ \A x \in Runtimes : x # r => rows'[x] = rows[x]
      BY <1>10, <2>1, <2>3, <3>1, <3>2 DEF CanSwap, RuntimeStates
    <3> QED BY <1>1, <1>5, <1>8, <2>2, <3>3 DEF IInv, RequestOK
  <2>4. CASE ~CanSwap(r, rec)
    BY <1>23, <1>8, <1>9, <2>2, <2>4 DEF ProvisionFail
  <2> QED BY <2>3, <2>4
<1> QED
  BY <1>11, <1>12, <1>13, <1>14, <1>15, <1>16, <1>17, <1>18, <1>19, <1>20, <1>21, <1>22, <1>23
     DEF ProvisionStep

LEMMA ReservedKept ==
  ASSUME IInv, NEW t \in Threads,
         \A o \in Threads : o # t => requests'[o] = requests[o],
         requests'[t].pc # "ensure_insert",
         \/ requests'[t].rid \in {NoRuntime, requests[t].rid}
         \/ rows[requests'[t].rid].state # "ABSENT"
  PROVE  Reserved'
<1> SUFFICES ASSUME NEW a \in Threads, NEW o \in Threads,
                    requests'[a].pc = "ensure_insert", requests'[o].rid = requests'[a].rid
             PROVE  o = a
  BY DEF Reserved
<1>1. a # t /\ requests'[a] = requests[a]
  OBVIOUS
<1>2. requests[a].rid \in Runtimes /\ rows[requests[a].rid].state = "ABSENT"
  BY <1>1 DEF IInv, RequestOK
<1>3. requests[a].rid # NoRuntime
  BY <1>2, NoRuntimeAssumption
<1>4. o = t => requests[o].rid = requests[a].rid
  BY <1>1, <1>2, <1>3
<1>5. requests[o].rid = requests[a].rid
  BY <1>1, <1>4
<1> QED BY <1>1, <1>5 DEF IInv, Reserved

LEMMA RequestStepKeeps ==
  ASSUME IInv, NEW t \in Threads, RequestStep(t)
  PROVE  /\ \A x \in Runtimes : Progress(x)
         /\ RequestOK(requests'[t], rows')
         /\ \A o \in Threads : o # t =>
              /\ requests'[o] = requests[o]
              /\ requests[o].pc = "ensure_insert" =>
                   rows'[requests[o].rid] = rows[requests[o].rid]
         /\ Reserved'
         /\ \A r \in Runtimes :
              \/ provisioners'[r] = provisioners[r]
              \/ provisioners'[r].pc = "get" /\ rows'[r].state # "ABSENT"
<1> DEFINE q == requests[t]
           Own == RequestOK(requests'[t], rows') /\ Reserved'
<1>1. /\ TypeOK
      /\ requests \in [Threads -> RequestRecord]
      /\ provisioners \in [Runtimes -> ProvisionRecord]
      /\ RequestOK(q, rows)
      /\ q.rec \in RuntimeRecord
      /\ q.user \in Users \cup {NoUser}
  BY TypeFacts DEF IInv, TypeOK
<1>2. q.pc # "idle" /\ q.user \in Users
  BY <1>1 DEF RequestStep, EnsureReuse, EnsureNew, EnsureInsert, EnsureRefind, EnsureSchedule,
       AnswerError, StopFindAbsent, StopFind, StopSwap, StopTerminate, StopClose, Request, RequestOK
<1>3. \A o \in Threads : o # t => requests'[o] = requests[o]
  BY <1>1 DEF RequestStep, EnsureReuse, EnsureNew, EnsureInsert, EnsureRefind, EnsureSchedule,
       AnswerError, StopFindAbsent, StopFind, StopSwap, StopTerminate, StopClose,
       Hold, GoTo, Answer
<1>4. ASSUME Answer(t) PROVE Own
  <2>1. requests'[t] = IdleRequest
    BY <1>1, <1>4 DEF Answer
  <2>2. RequestOK(requests'[t], rows')
    BY <2>1 DEF RequestOK, IdleRequest, StopHolds
  <2>3. requests'[t].rid = NoRuntime /\ requests'[t].pc # "ensure_insert"
    BY <2>1 DEF IdleRequest
  <2> QED BY <1>3, <2>2, <2>3, ReservedKept
<1>5. ASSUME rows' = rows
      PROVE  /\ \A x \in Runtimes : Progress(x)
             /\ \A o \in Threads : rows'[requests[o].rid] = rows[requests[o].rid]
  BY <1>5 DEF Progress
<1>6. ASSUME NEW step, NEW r, NEW rec, Hold(t, step, r, rec)
      PROVE  requests'[t] = [pc |-> step, user |-> q.user, rid |-> r, rec |-> rec]
  BY <1>1, <1>6 DEF Hold
<1>7. ASSUME NEW step \in {"ensure_refind", "ensure_error", "stop_find", "stop_error"},
             \/ GoTo(t, step)
             \/ Hold(t, step, NoRuntime, NoRecord)
      PROVE  Own
  <2>1. /\ requests'[t].pc = step
        /\ requests'[t].user = q.user
        /\ requests'[t].rid \in {NoRuntime, q.rid}
    BY <1>1, <1>7 DEF Hold, GoTo
  <2>2. RequestOK(requests'[t], rows')
    BY <1>2, <2>1 DEF RequestOK, StopHolds
  <2> QED BY <1>3, <2>1, <2>2, ReservedKept
<1>8. CASE EnsureReuse(t)
  <2>1. PICK r \in FindActive(q.user) :
          IF rows[r].state = "REQUESTED"
            THEN Hold(t, "ensure_schedule", r, NoRecord)
            ELSE Answer(t)
    BY <1>8 DEF EnsureReuse
  <2>2. rows' = rows /\ provisioners' = provisioners
    BY <1>8 DEF EnsureReuse
  <2>3. r \in Runtimes /\ rows[r].state # "ABSENT"
    BY DEF FindActive, ActiveStates
  <2>4. CASE Hold(t, "ensure_schedule", r, NoRecord)
    <3>1. requests'[t] = [pc |-> "ensure_schedule", user |-> q.user, rid |-> r, rec |-> NoRecord]
      BY <1>1, <2>4 DEF Hold
    <3>2. RequestOK(requests'[t], rows')
      BY <1>2, <2>2, <2>3, <3>1 DEF RequestOK, StopHolds
    <3>3. Reserved'
      BY <1>3, <2>3, <3>1, ReservedKept
    <3> QED BY <1>3, <1>5, <2>2, <3>2, <3>3
  <2> QED BY <1>3, <1>4, <1>5, <2>1, <2>2, <2>4
<1>9. CASE EnsureNew(t)
  <2>1. rows' = rows /\ provisioners' = provisioners
    BY <1>9 DEF EnsureNew
  <2>2. CASE \E r \in UnusedIds : Hold(t, "ensure_insert", r, NoRecord)
    <3>1. PICK r \in UnusedIds : Hold(t, "ensure_insert", r, NoRecord)
      BY <2>2
    <3>2. requests'[t] = [pc |-> "ensure_insert", user |-> q.user, rid |-> r, rec |-> NoRecord]
      BY <1>1, <3>1 DEF Hold
    <3>3. /\ r \in Runtimes
          /\ rows[r].state = "ABSENT"
          /\ \A o \in Threads : requests[o].rid # r
      BY DEF UnusedIds
    <3>4. RequestOK(requests'[t], rows')
      BY <1>2, <2>1, <3>2, <3>3 DEF RequestOK, StopHolds
    <3>5. Reserved'
      BY <1>3, <3>2, <3>3 DEF Reserved, IInv
    <3> QED BY <1>3, <1>5, <2>1, <3>4, <3>5
  <2> QED BY <1>9, <1>3, <1>4, <1>5, <2>1, <2>2 DEF EnsureNew
<1>10. CASE EnsureInsert(t)
  <2>1. q.pc = "ensure_insert" /\ q.rid \in Runtimes /\ rows[q.rid].state = "ABSENT"
    BY <1>1, <1>10 DEF EnsureInsert, Request, RequestOK
  <2>2. provisioners' = provisioners
    BY <1>10 DEF EnsureInsert
  <2>3. CASE FindActive(q.user) = {}
    <3>1. Store(q.rid, NewRecord(q.user)) /\ GoTo(t, "ensure_schedule")
      BY <1>10, <2>3 DEF EnsureInsert
    <3>2. /\ rows'[q.rid] = NewRecord(q.user)
          /\ \A x \in Runtimes : x # q.rid => rows'[x] = rows[x]
      BY <1>1, <2>1, <3>1 DEF Store, TypeOK
    <3>3. \A x \in Runtimes : Progress(x)
      BY <1>2, <2>1, <2>3, <3>2 DEF Progress, Inserts
    <3>4. requests'[t] = [pc |-> "ensure_schedule", user |-> q.user, rid |-> q.rid, rec |-> q.rec]
      BY <1>1, <3>1 DEF GoTo, Hold
    <3>5. RequestOK(requests'[t], rows')
      BY <1>2, <2>1, <3>2, <3>4 DEF RequestOK, StopHolds, NewRecord
    <3>6. Reserved'
      BY <1>3, <3>4, ReservedKept
    <3>7. \A o \in Threads : o # t /\ requests[o].pc = "ensure_insert" =>
            requests[o].rid \in Runtimes /\ requests[o].rid # q.rid
      BY <2>1 DEF IInv, RequestOK, Reserved
    <3> QED BY <1>3, <2>2, <3>2, <3>3, <3>5, <3>6, <3>7
  <2>4. CASE FindActive(q.user) # {}
    BY <1>3, <1>5, <1>7, <1>10, <2>2, <2>4 DEF EnsureInsert
  <2> QED BY <2>3, <2>4
<1>11. CASE EnsureRefind(t)
  BY <1>3, <1>4, <1>5, <1>7, <1>11 DEF EnsureRefind
<1>12. CASE EnsureSchedule(t)
  <2>1. q.rid \in Runtimes /\ rows[q.rid].state # "ABSENT"
    BY <1>1, <1>12 DEF EnsureSchedule, Request, RequestOK
  <2>2. \A r \in Runtimes : \/ provisioners'[r] = provisioners[r]
                            \/ provisioners'[r].pc = "get" /\ rows[r].state # "ABSENT"
    BY <1>1, <1>12, <2>1 DEF EnsureSchedule, Continue
  <2>3. rows' = rows /\ Answer(t)
    BY <1>12 DEF EnsureSchedule
  <2> QED BY <1>3, <1>4, <1>5, <2>2, <2>3
<1>13. CASE AnswerError(t)
  BY <1>3, <1>4, <1>5, <1>13 DEF AnswerError
<1>14. CASE StopFindAbsent(t)
  BY <1>3, <1>4, <1>5, <1>14 DEF StopFindAbsent
<1>15. CASE StopFind(t)
  <2>1. PICK r \in FindActive(q.user) :
          IF rows[r].state = "STOPPING"
            THEN Hold(t, AfterStopping(rows[r]), r, rows[r])
            ELSE Hold(t, "stop_swap", r, [rows[r] EXCEPT !.desired = "STOPPED"])
    BY <1>15 DEF StopFind
  <2>2. rows' = rows /\ provisioners' = provisioners
    BY <1>15 DEF StopFind
  <2>3. r \in Runtimes /\ rows[r] \in RuntimeRecord /\ rows[r].state \in ActiveStates
    BY <1>1, TypeFacts DEF FindActive
  <2>4. CASE rows[r].state = "STOPPING"
    <3>1. requests'[t] = [pc |-> AfterStopping(rows[r]), user |-> q.user, rid |-> r, rec |-> rows[r]]
      BY <1>1, <2>1, <2>4 DEF Hold
    <3>2. rows[r].desired = "STOPPED"
      BY <2>3, <2>4 DEF IInv, RowOK
    <3>3. RequestOK(requests'[t], rows')
      BY <1>2, <2>2, <2>3, <2>4, <3>1, <3>2
         DEF RequestOK, StopHolds, AfterStopping, Snapshot, Rank, Closing
    <3>4. Reserved'
      BY <1>3, <2>4, <3>1, ReservedKept DEF AfterStopping
    <3> QED BY <1>3, <1>5, <2>2, <3>3, <3>4
  <2>5. CASE rows[r].state # "STOPPING"
    <3> DEFINE rec == [rows[r] EXCEPT !.desired = "STOPPED"]
    <3>1. /\ rec.owner = rows[r].owner
          /\ rec.state = rows[r].state
          /\ rec.desired = "STOPPED"
          /\ rec.ref = rows[r].ref
      BY <2>3 DEF RuntimeRecord
    <3>2. requests'[t] = [pc |-> "stop_swap", user |-> q.user, rid |-> r, rec |-> rec]
      BY <1>1, <2>1, <2>5 DEF Hold
    <3> HIDE DEF rec
    <3>3. RequestOK(requests'[t], rows')
      BY <1>2, <2>2, <2>3, <2>5, <3>1, <3>2
         DEF RequestOK, StopHolds, Snapshot, Rank, ActiveStates
    <3>4. Reserved'
      BY <1>3, <2>3, <3>2, ReservedKept DEF ActiveStates
    <3> QED BY <1>3, <1>5, <2>2, <3>3, <3>4
  <2> QED BY <2>4, <2>5
<1>16. CASE StopSwap(t)
  <2> DEFINE rec == q.rec
             new == Moved(rec, "STOPPING")
  <2>1. /\ q.pc = "stop_swap"
        /\ q.rid \in Runtimes
        /\ Snapshot(rows[q.rid], rec)
        /\ rec.desired = "STOPPED"
        /\ rec.state \in ActiveStates \ {"STOPPING"}
    BY <1>1, <1>16 DEF StopSwap, Request, RequestOK, StopHolds
  <2>2. provisioners' = provisioners
    BY <1>16 DEF StopSwap
  <2>3. CASE CanSwap(q.rid, rec)
    <3>1. Store(q.rid, new) /\ Hold(t, AfterStopping(rec), q.rid, new)
      BY <1>16, <2>3 DEF StopSwap
    <3>2. RowOK(rows[q.rid])
      BY <2>1 DEF IInv
    <3>3. /\ \A x \in Runtimes : Progress(x)
          /\ rows'[q.rid] = new
          /\ \A x \in Runtimes : x # q.rid => rows'[x] = rows[x]
      BY <1>1, <2>1, <2>3, <3>1, <3>2, SwapAdvances
         DEF ActiveStates, RuntimeStates, AllowedTransitions, Closing
    <3>4. requests'[t] = [pc |-> AfterStopping(rec), user |-> q.user, rid |-> q.rid, rec |-> new]
      BY <1>1, <3>1 DEF Hold
    <3>5. new.state = "STOPPING" /\ new.desired = "STOPPED"
      BY <1>1, <2>1, MovedType DEF RuntimeStates, ActiveStates
    <3>6. RequestOK(requests'[t], rows')
      <4> HIDE DEF new
      <4> QED BY <1>2, <2>1, <3>3, <3>4, <3>5
              DEF RequestOK, StopHolds, AfterStopping, Snapshot, Rank, Closing
    <3>7. Reserved'
      BY <1>3, <3>4, ReservedKept DEF AfterStopping
    <3>8. rows[q.rid].state # "ABSENT"
      BY <2>1, <2>3 DEF CanSwap, ActiveStates
    <3>9. \A o \in Threads : requests[o].pc = "ensure_insert" =>
            requests[o].rid \in Runtimes /\ requests[o].rid # q.rid
      BY <3>8 DEF IInv, RequestOK
    <3> QED BY <1>3, <2>2, <3>3, <3>6, <3>7, <3>9
  <2>4. CASE ~CanSwap(q.rid, rec)
    BY <1>3, <1>5, <1>7, <1>16, <2>2, <2>4 DEF StopSwap
  <2> QED BY <2>3, <2>4
<1>17. CASE StopTerminate(t)
  <2>1. rows' = rows /\ provisioners' = provisioners
    BY <1>17 DEF StopTerminate
  <2>2. q.pc = "stop_terminate"
    BY <1>17 DEF StopTerminate, Request
  <2>3. PICK step \in {"stop_final", "stop_fail"} : GoTo(t, step)
    BY <1>17 DEF StopTerminate
  <2>4. requests'[t] = [pc |-> step, user |-> q.user, rid |-> q.rid, rec |-> q.rec]
    BY <1>1, <2>3 DEF GoTo, Hold
  <2>5. RequestOK(requests'[t], rows')
    BY <1>1, <1>2, <2>1, <2>2, <2>4 DEF RequestOK, StopHolds
  <2>6. Reserved'
    BY <1>3, <2>4, ReservedKept
  <2> QED BY <1>3, <1>5, <2>1, <2>5, <2>6
<1>18. CASE StopClose(t)
  <2> DEFINE rec == q.rec
             to  == IF q.pc = "stop_final" THEN "STOPPED" ELSE "FAILED"
  <2>1. /\ q.rid \in Runtimes
        /\ Snapshot(rows[q.rid], rec)
        /\ rec.desired = "STOPPED"
        /\ rec.state = "STOPPING"
    BY <1>1, <1>18 DEF StopClose, RequestOK, StopHolds
  <2>2. provisioners' = provisioners
    BY <1>18 DEF StopClose
  <2>3. CASE CanSwap(q.rid, rec)
    <3>1. Store(q.rid, Moved(rec, to)) /\ Answer(t)
      BY <1>18, <2>3 DEF StopClose
    <3>2. RowOK(rows[q.rid])
      BY <2>1 DEF IInv
    <3>3. to \in {"STOPPED", "FAILED"}
      OBVIOUS
    <3> HIDE DEF to
    <3>4. /\ \A x \in Runtimes : Progress(x)
          /\ \A x \in Runtimes : x # q.rid => rows'[x] = rows[x]
      BY <1>1, <2>1, <2>3, <3>1, <3>2, <3>3, SwapAdvances
         DEF ActiveStates, RuntimeStates, AllowedTransitions, Closing
    <3>5. \A o \in Threads : requests[o].pc = "ensure_insert" =>
            requests[o].rid \in Runtimes /\ requests[o].rid # q.rid
      BY <2>1, <2>3 DEF IInv, RequestOK, CanSwap
    <3> QED BY <1>3, <1>4, <2>2, <3>1, <3>4, <3>5
  <2>4. CASE ~CanSwap(q.rid, rec)
    BY <1>3, <1>5, <1>7, <1>18, <2>2, <2>4 DEF StopClose
  <2> QED BY <2>3, <2>4
<1> QED
  BY <1>8, <1>9, <1>10, <1>11, <1>12, <1>13, <1>14, <1>15, <1>16, <1>17, <1>18 DEF RequestStep

-----------------------------------------------------------------------------
(* The inductive invariant *)

LEMMA InitIInv == Init => IInv
<1> SUFFICES ASSUME Init PROVE IInv
  OBVIOUS
<1>1. TypeOK
  BY InitType
<1>2. \A r \in Runtimes : RowOK(rows[r]) /\ ProvisionOK(provisioners[r], rows[r])
  BY DEF Init, NoRecord, NoThread, RowOK, ProvisionOK, ProvisionHolds
<1>3. \A t \in Threads : RequestOK(requests[t], rows)
  BY DEF Init, IdleRequest, RequestOK, StopHolds
<1>4. Reserved
  BY DEF Init, IdleRequest, Reserved
<1> QED BY <1>1, <1>2, <1>3, <1>4 DEF IInv

\* Every step keeps IInv and moves each row of the table forward or not at all.
LEMMA StepIInv ==
  ASSUME IInv, [Next]_vars
  PROVE  IInv' /\ \A r \in Runtimes : Progress(r)
<1> USE DEF IInv
<1>1. TypeOK'
  BY NextType
<1>2. ASSUME NEW t \in Threads, RequestStep(t)
      PROVE  IInv' /\ \A r \in Runtimes : Progress(r)
  <2>1. \A r \in Runtimes : Progress(r)
    BY <1>2, RequestStepKeeps
  <2>2. \A o \in Threads : RequestOK(requests'[o], rows')
    <3>1. RequestOK(requests'[t], rows')
      BY <1>2, RequestStepKeeps
    <3>2. ASSUME NEW o \in Threads, o # t PROVE RequestOK(requests'[o], rows')
      <4>1. requests'[o] = requests[o]
        BY <1>2, <3>2, RequestStepKeeps
      <4>2. requests[o].pc = "ensure_insert" => rows'[requests[o].rid] = rows[requests[o].rid]
        BY <1>2, <3>2, RequestStepKeeps
      <4> QED BY <2>1, <4>1, <4>2, RequestKept
    <3> QED BY <3>1, <3>2
  <2>3. \A r \in Runtimes : RowOK(rows'[r]) /\ ProvisionOK(provisioners'[r], rows'[r])
    <3> TAKE r \in Runtimes
    <3>1. RowOK(rows'[r]) /\ ProvisionOK(provisioners[r], rows'[r])
      BY <2>1, ProvisionKept
    <3>2. \/ provisioners'[r] = provisioners[r]
          \/ provisioners'[r].pc = "get" /\ rows'[r].state # "ABSENT"
      BY <1>2, RequestStepKeeps
    <3> QED BY <3>1, <3>2 DEF ProvisionOK, ProvisionHolds
  <2>4. Reserved'
    BY <1>2, RequestStepKeeps
  <2> QED BY <1>1, <2>1, <2>2, <2>3, <2>4
<1>3. ASSUME NEW r \in Runtimes, ProvisionStep(r)
      PROVE  IInv' /\ \A x \in Runtimes : Progress(x)
  <2>1. /\ \A x \in Runtimes : Progress(x)
        /\ ProvisionOK(provisioners'[r], rows'[r])
        /\ \A x \in Runtimes : x # r => provisioners'[x] = provisioners[x]
        /\ requests' = requests
        /\ \A t \in Threads : requests[t].pc = "ensure_insert" =>
             rows'[requests[t].rid] = rows[requests[t].rid]
    BY <1>3, ProvisionStepKeeps
  <2>2. \A x \in Runtimes : RowOK(rows'[x]) /\ ProvisionOK(provisioners'[x], rows'[x])
    BY <2>1, ProvisionKept
  <2>3. \A t \in Threads : RequestOK(requests'[t], rows')
    BY <2>1, RequestKept
  <2>4. Reserved'
    BY <2>1 DEF Reserved
  <2> QED BY <1>1, <2>1, <2>2, <2>3, <2>4
<1>4. ASSUME rows' = rows, provisioners' = provisioners, requests' = requests
      PROVE  IInv' /\ \A r \in Runtimes : Progress(r)
  BY <1>1, <1>4 DEF Progress, Reserved
<1>5. ASSUME NEW t \in Threads, NEW u \in Users, Receive(t, u)
      PROVE  IInv' /\ \A r \in Runtimes : Progress(r)
  <2>1. PICK step \in {"ensure_find", "stop_find"} :
          requests' = [requests EXCEPT ![t] = [IdleRequest EXCEPT !.pc = step, !.user = u]]
    BY <1>5 DEF Receive
  <2>2. /\ requests'[t].pc = step
        /\ requests'[t].user = u
        /\ requests'[t].rid = NoRuntime
        /\ \A o \in Threads : o # t => requests'[o] = requests[o]
    BY <2>1 DEF TypeOK, IdleRequest
  <2>3. rows' = rows /\ provisioners' = provisioners
    BY <1>5 DEF Receive
  <2>4. RequestOK(requests'[t], rows')
    BY <2>2 DEF RequestOK, StopHolds
  <2>5. Reserved'
    BY <2>2, ReservedKept
  <2> QED BY <1>1, <2>2, <2>3, <2>4, <2>5 DEF Progress
<1>6. CASE Crash
  <2>1. /\ rows' = rows
        /\ \A t \in Threads : requests'[t] = IdleRequest
        /\ \A r \in Runtimes : provisioners'[r] = NoThread
    BY <1>6 DEF Crash
  <2>2. \A t \in Threads : RequestOK(requests'[t], rows')
    BY <2>1 DEF IdleRequest, RequestOK, StopHolds
  <2>3. \A r \in Runtimes : RowOK(rows'[r]) /\ ProvisionOK(provisioners'[r], rows'[r])
    BY <2>1 DEF NoThread, ProvisionOK, ProvisionHolds
  <2>4. Reserved'
    BY <2>1 DEF IdleRequest, Reserved
  <2> QED BY <1>1, <2>1, <2>2, <2>3, <2>4 DEF Progress
<1> QED
  BY <1>2, <1>3, <1>4, <1>5, <1>6 DEF Next, vars, ContainerReady, ContainerExit

LEMMA Invariance == Spec => []IInv
BY InitIInv, StepIInv, PTL DEF Spec

-----------------------------------------------------------------------------
(* The theorems *)

\* A recorded stop is never followed by another step of the provisioning, for
\* any number of threads, restarts and faults.
THEOREM StopIsFinalHolds == Spec => []StopIsFinal
<1>1. IInv => StopIsFinal
  BY DEF IInv, RowOK, StopIsFinal, Closing
<1> QED BY <1>1, Invariance, PTL

\* The table only ever makes the transitions of ALLOWED_TRANSITIONS.
THEOREM LegalTransitionsHold == Spec => LegalTransitions
<1>1. IInv /\ [Next]_vars =>
        [\A r \in Runtimes : rows'[r].state # rows[r].state =>
           rows'[r].state \in AllowedTransitions[rows[r].state]]_vars
  <2> SUFFICES ASSUME IInv, [Next]_vars, NEW r \in Runtimes, rows'[r].state # rows[r].state
               PROVE  rows'[r].state \in AllowedTransitions[rows[r].state]
    OBVIOUS
  <2>1. CASE Inserts(rows[r], rows'[r])
    <3>1. rows[r].state = "ABSENT" /\ rows'[r].state = "REQUESTED"
      BY <2>1 DEF Inserts, NewRecord
    <3>2. "REQUESTED" \in AllowedTransitions["ABSENT"]
      BY DEF AllowedTransitions
    <3> QED BY <3>1, <3>2
  <2>2. CASE Advances(rows[r], rows'[r])
    BY <2>2 DEF Advances
  <2> QED BY <2>1, <2>2, StepIInv DEF Progress
<1> QED BY <1>1, Invariance, PTL DEF Spec, LegalTransitions

\* Writing whole rows back from copies never loses an owner, a recorded stop or
\* a container reference.
THEOREM NothingTakenBackHolds == Spec => NothingTakenBack
<1>1. IInv /\ [Next]_vars =>
        [\A r \in Runtimes : rows[r].state # "ABSENT" =>
           /\ rows'[r].owner = rows[r].owner
           /\ rows[r].desired = "STOPPED" => rows'[r].desired = "STOPPED"
           /\ rows[r].ref => rows'[r].ref]_vars
  BY StepIInv DEF Progress, Advances, Inserts
<1> QED BY <1>1, Invariance, PTL DEF Spec, NothingTakenBack

\* One statement writes one row.
LEMMA OneRowChanges ==
  ASSUME TypeOK, [Next]_vars
  PROVE  \A a, b \in Runtimes : rows'[a] # rows[a] /\ rows'[b] # rows[b] => a = b
<1>1. ASSUME NEW r, NEW rec, Store(r, rec)
      PROVE  \A a, b \in Runtimes : rows'[a] # rows[a] /\ rows'[b] # rows[b] => a = b
  BY <1>1 DEF Store, TypeOK
<1>2. rows' = rows \/ \E r, rec : Store(r, rec)
  <2>1. ASSUME NEW t \in Threads, RequestStep(t) PROVE rows' = rows \/ \E r, rec : Store(r, rec)
    BY <2>1 DEF RequestStep, EnsureReuse, EnsureNew, EnsureInsert, EnsureRefind, EnsureSchedule,
         AnswerError, StopFindAbsent, StopFind, StopSwap, StopTerminate, StopClose
  <2>2. ASSUME NEW r \in Runtimes, ProvisionStep(r) PROVE rows' = rows \/ \E x, rec : Store(x, rec)
    BY <2>2 DEF ProvisionStep, ProvisionGet, ProvisionClaim, ProvisionCreate, ProvisionRecheck,
         ProvisionCancel, ProvisionCancelStop, ProvisionStart, ProvisionPoll, ProvisionPublish,
         ProvisionGiveUp, ProvisionCleanup, ProvisionReget, ProvisionFail
  <2> QED BY <2>1, <2>2 DEF Next, Receive, ContainerReady, ContainerExit, Crash, vars
<1> QED BY <1>1, <1>2

\* A user never has two active runtimes.
THEOREM OneActivePerUserHolds == Spec => []OneActivePerUser
<1>1. Init => OneActivePerUser
  BY DEF Init, NoRecord, OneActivePerUser, FindActive, ActiveStates
<1>2. IInv /\ OneActivePerUser /\ [Next]_vars => OneActivePerUser'
  <2> SUFFICES ASSUME IInv, OneActivePerUser, [Next]_vars, NEW u \in Users,
                      NEW a \in FindActive(u)', NEW b \in FindActive(u)', a # b
               PROVE  FALSE
    BY DEF OneActivePerUser
  <2>1. ASSUME NEW r \in FindActive(u)'
        PROVE  /\ r \in Runtimes
               /\ r \in FindActive(u) \/ (rows'[r] # rows[r] /\ FindActive(u) = {})
    <3>1. r \in Runtimes /\ rows'[r].owner = u /\ rows'[r].state \in ActiveStates
      BY <2>1 DEF FindActive
    <3>2. CASE rows'[r] = rows[r]
      BY <3>1, <3>2 DEF FindActive
    <3>3. CASE Advances(rows[r], rows'[r])
      BY <3>1, <3>3 DEF Advances, FindActive
    <3>4. CASE Inserts(rows[r], rows'[r])
      BY <3>1, <3>4 DEF Inserts, NewRecord, ActiveStates
    <3> QED BY <3>1, <3>2, <3>3, <3>4, StepIInv DEF Progress
  <2>2. rows'[a] # rows[a] /\ rows'[b] # rows[b] => a = b
    BY <2>1, OneRowChanges DEF IInv
  <2> QED BY <2>1, <2>2 DEF OneActivePerUser
<1> QED BY <1>1, <1>2, Invariance, PTL DEF Spec

-----------------------------------------------------------------------------
(* One creation per runtime *)

CreationInv ==
  \A r \in Runtimes :
    /\ creations[r] \in {0, 1}
    /\ rows[r].state \in {"ABSENT", "REQUESTED"} \/ provisioners[r].pc = "create" =>
         creations[r] = 0

\* The provider is asked at most once for a runtime's container: the claim of a
\* REQUESTED row, which no row ever becomes again, is the permission to ask.
THEOREM CreatedOnceHolds == Spec => []CreatedOnce
<1>1. Init => CreationInv
  BY DEF Init, CreationInv
<1>2. IInv /\ CreationInv /\ [Next]_vars => CreationInv'
  <2> SUFFICES ASSUME IInv, CreationInv, [Next]_vars, NEW r \in Runtimes
               PROVE  /\ creations'[r] \in {0, 1}
                      /\ rows'[r].state \in {"ABSENT", "REQUESTED"} \/ provisioners'[r].pc = "create"
                           => creations'[r] = 0
    BY DEF CreationInv
  <2> USE DEF CreationInv
  <2>1. rows'[r].state \in {"ABSENT", "REQUESTED"} => rows[r].state \in {"ABSENT", "REQUESTED"}
    <3>1. CASE Advances(rows[r], rows'[r])
      BY <3>1, AdvanceFacts
    <3> QED BY <3>1, StepIInv DEF Progress, Inserts
  <2>2. CASE ProvisionCreate(r)
    <3>1. creations'[r] = creations[r] + 1 /\ creations[r] = 0
      BY <2>2 DEF ProvisionCreate, Provisioning, IInv, TypeOK
    <3>2. provisioners'[r].pc # "create"
      BY <2>2 DEF ProvisionCreate, Continue, IInv, TypeOK
    <3>3. rows[r].state \notin {"ABSENT", "REQUESTED"}
      BY <2>2 DEF ProvisionCreate, Provisioning, IInv, ProvisionOK, ProvisionHolds, Snapshot, Rank
    <3> QED BY <2>1, <3>1, <3>2, <3>3
  <2>3. CASE ~ProvisionCreate(r)
    <3>1. creations'[r] = creations[r]
      <4>1. ASSUME NEW x \in Runtimes, ProvisionStep(x) PROVE creations'[r] = creations[r]
        BY <2>3, <4>1 DEF ProvisionStep, ProvisionGet, ProvisionClaim, ProvisionCreate,
             ProvisionRecheck, ProvisionCancel, ProvisionCancelStop, ProvisionStart, ProvisionPoll,
             ProvisionPublish, ProvisionGiveUp, ProvisionCleanup, ProvisionReget, ProvisionFail,
             IInv, TypeOK
      <4>2. ASSUME NEW t \in Threads, RequestStep(t) PROVE creations'[r] = creations[r]
        BY <4>2 DEF RequestStep, EnsureReuse, EnsureNew, EnsureInsert, EnsureRefind,
             EnsureSchedule, AnswerError, StopFindAbsent, StopFind, StopSwap, StopTerminate, StopClose
      <4> QED BY <4>1, <4>2 DEF Next, Receive, ContainerReady, ContainerExit, Crash, vars
    <3>2. provisioners'[r].pc = "create" =>
            provisioners[r].pc = "create" \/ rows[r].state = "REQUESTED"
      <4>1. ASSUME NEW x \in Runtimes, ProvisionStep(x), provisioners'[r].pc = "create"
            PROVE  provisioners[r].pc = "create" \/ rows[r].state = "REQUESTED"
        <5>1. CASE x # r
          BY <4>1, <5>1, ProvisionStepKeeps
        <5>2. CASE x = r /\ ProvisionClaim(r)
          BY <5>2, <4>1 DEF ProvisionClaim, CanSwap, Provisioning, Continue, Exit, NoThread, IInv,
               TypeOK, ProvisionOK
        <5>3. CASE x = r /\ ~ProvisionClaim(r)
          BY <5>3, <4>1 DEF ProvisionStep, ProvisionGet, ProvisionCreate, ProvisionRecheck,
               ProvisionCancel, ProvisionCancelStop, ProvisionStart, ProvisionPoll, ProvisionPublish,
               ProvisionGiveUp, ProvisionCleanup, ProvisionReget, ProvisionFail, Continue, Exit,
               NoThread, IInv, TypeOK
        <5> QED BY <5>1, <5>2, <5>3
      <4>2. ASSUME NEW t \in Threads, RequestStep(t), provisioners'[r].pc = "create"
            PROVE  provisioners[r].pc = "create"
        BY <4>2, RequestStepKeeps
      <4>3. CASE Crash
        BY <4>3 DEF Crash, NoThread
      <4>4. CASE provisioners' = provisioners
        BY <4>4
      <4> QED BY <4>1, <4>2, <4>3, <4>4
              DEF Next, Receive, ContainerReady, ContainerExit, vars
    <3> QED BY <2>1, <3>1, <3>2
  <2> QED BY <2>2, <2>3
<1>3. CreationInv => CreatedOnce
  BY DEF CreationInv, CreatedOnce
<1> QED BY <1>1, <1>2, <1>3, Invariance, PTL DEF Spec

-----------------------------------------------------------------------------
(* READY runtimes keep their container *)

\* What request threads do to a row is insert it, or close it.
LEMMA RequestsClose ==
  ASSUME IInv, NEW t \in Threads, RequestStep(t), NEW r \in Runtimes,
         rows[r].state # "ABSENT"
  PROVE  rows'[r] = rows[r] \/ rows'[r].state \in Closing
<1> DEFINE q == requests[t]
<1>1. /\ TypeOK
      /\ q.rec \in RuntimeRecord
      /\ RequestOK(q, rows)
  BY TypeFacts DEF IInv
<1>2. \A to \in RuntimeStates : Moved(q.rec, to).state = to
  BY <1>1, MovedType
<1>3. CASE StopSwap(t)
  BY <1>1, <1>2, <1>3
     DEF StopSwap, Store, TypeOK, Closing, RuntimeStates, ActiveStates
<1>4. CASE StopClose(t)
  BY <1>1, <1>2, <1>4
     DEF StopClose, Store, TypeOK, Closing, RuntimeStates
<1>5. CASE EnsureInsert(t)
  <2>1. rows[q.rid].state = "ABSENT"
    BY <1>1, <1>5 DEF EnsureInsert, Request, RequestOK
  <2> QED BY <1>1, <1>5, <2>1 DEF EnsureInsert, Store, TypeOK
<1> QED
  BY <1>3, <1>4, <1>5
     DEF RequestStep, EnsureReuse, EnsureNew, EnsureRefind, EnsureSchedule, AnswerError,
         StopFindAbsent, StopFind, StopTerminate

Alive(c) == c \in {"starting", "ready", "exited"}

\* Where the row of a provisioning thread may stand: where the thread left it,
\* or closing.  Only a container whose row is closing or failing may go.
Keeps(pc, row, c) ==
  /\ row.state = "READY" => Alive(c)
  /\ pc \in {"create", "recheck", "start"} => row.state \in {"PROVISIONING"} \cup Closing
  /\ pc \in {"poll", "publish"} => row.state \in {"STARTING"} \cup Closing
  /\ pc \in {"recheck", "start", "poll", "publish"} => Alive(c) \/ row.state \in Closing
  /\ pc \in {"cancel", "cancel_stop", "give_up"} => row.state \in Closing
  /\ pc = "cleanup" => row.state \in {"STARTING"} \cup Closing

KeepInv ==
  \A r \in Runtimes : Keeps(provisioners[r].pc, rows[r], containers[r])

\* A step of another thread leaves the row alone, closes it, or inserts it; it
\* removes the container of a closing row only.
LEMMA KeepsThroughOthers ==
  ASSUME NEW pc, NEW old, NEW new, NEW c, NEW d, Keeps(pc, old, c),
         old.state = "ABSENT" => pc = "off",
         \/ new = old
         \/ new.state \in Closing
         \/ old.state = "ABSENT" /\ new.state = "REQUESTED",
         \/ Alive(c) => Alive(d)
         \/ new.state \in Closing
  PROVE  Keeps(pc, new, d)
BY DEF Keeps, Closing

\* What request threads do to rows and containers.
LEMMA RequestStepCloses ==
  ASSUME IInv, NEW t \in Threads, RequestStep(t), NEW r \in Runtimes
  PROVE  /\ \/ rows'[r] = rows[r]
            \/ rows'[r].state \in Closing
            \/ rows[r].state = "ABSENT" /\ rows'[r].state = "REQUESTED"
         /\ containers'[r] = containers[r] \/ rows'[r].state \in Closing
<1>1. \/ rows'[r] = rows[r]
      \/ rows'[r].state \in Closing
      \/ rows[r].state = "ABSENT" /\ rows'[r].state = "REQUESTED"
  <2>1. CASE rows[r].state = "ABSENT"
    <3>1. Progress(r)
      BY RequestStepKeeps
    <3>2. CASE Advances(rows[r], rows'[r])
      BY <2>1, <3>2 DEF Advances, ActiveStates
    <3>3. CASE Inserts(rows[r], rows'[r])
      BY <2>1, <3>3 DEF Inserts, NewRecord
    <3> QED BY <3>1, <3>2, <3>3 DEF Progress
  <2>2. CASE rows[r].state # "ABSENT"
    BY <2>2, RequestsClose
  <2> QED BY <2>1, <2>2
<1>2. CASE StopTerminate(t)
  <2>1. rows' = rows
    BY <1>2 DEF StopTerminate
  <2>2. rows[requests[t].rid].state \in Closing
    BY <1>2 DEF StopTerminate, Request, IInv, RequestOK, StopHolds
  <2>3. r # requests[t].rid => containers'[r] = containers[r]
    BY <1>2 DEF StopTerminate, Remove, IInv, TypeOK
  <2> QED BY <1>1, <2>1, <2>2, <2>3
<1>3. CASE ~StopTerminate(t)
  <2>1. containers' = containers
    BY <1>3 DEF RequestStep, EnsureReuse, EnsureNew, EnsureInsert, EnsureRefind, EnsureSchedule,
         AnswerError, StopFindAbsent, StopFind, StopSwap, StopClose
  <2> QED BY <1>1, <2>1
<1> QED BY <1>2, <1>3

\* The steps of r's own provisioning thread.
LEMMA ProvisionStepKept ==
  ASSUME IInv, KeepInv, NEW r \in Runtimes, ProvisionStep(r)
  PROVE  Keeps(provisioners'[r].pc, rows'[r], containers'[r])
<1> DEFINE p    == provisioners[r]
           rec  == p.rec
           Goal == Keeps(provisioners'[r].pc, rows'[r], containers'[r])
<1>1. /\ TypeOK
      /\ rec \in RuntimeRecord
      /\ RowOK(rows[r])
      /\ ProvisionOK(p, rows[r])
      /\ Keeps(p.pc, rows[r], containers[r])
  BY TypeFacts DEF IInv, KeepInv
<1>2. /\ \A rw : Store(r, rw) => rows'[r] = rw
      /\ Exit(r) => provisioners'[r].pc = "off"
      /\ Remove(r) => containers'[r] \in {"none", "removed"}
  BY <1>1 DEF Store, Exit, Remove, NoThread, TypeOK
<1>3. ASSUME NEW step, NEW rw, Continue(r, step, rw) PROVE provisioners'[r].pc = step
  BY <1>1, <1>3 DEF Continue, TypeOK
<1>4. \A to \in RuntimeStates : Moved(rec, to).state = to
  BY <1>1, MovedType
<1> USE DEF Keeps, Closing
<1>5. CASE ProvisionGet(r)
  <2>1. provisioners'[r].pc \in {"claim", "off"}
    BY <1>2, <1>3, <1>5 DEF ProvisionGet
  <2> QED BY <1>1, <1>5, <2>1 DEF ProvisionGet
<1>6. CASE ProvisionClaim(r)
  <2>1. CASE CanSwap(r, rec)
    <3>1. rows'[r].state = "PROVISIONING" /\ provisioners'[r].pc = "create"
      BY <1>2, <1>3, <1>4, <1>6, <2>1 DEF ProvisionClaim, RuntimeStates, ActiveStates
    <3> QED BY <3>1
  <2>2. CASE ~CanSwap(r, rec)
    BY <1>1, <1>2, <1>6, <2>2 DEF ProvisionClaim
  <2> QED BY <2>1, <2>2
<1>7. CASE ProvisionCreate(r)
  <2>1. rows'[r] = rows[r] /\ rows[r].state \in {"PROVISIONING"} \cup Closing
    BY <1>1, <1>7 DEF ProvisionCreate, Provisioning
  <2>2. \/ provisioners'[r].pc = "recheck" /\ containers'[r] = "starting"
        \/ provisioners'[r].pc = "reget"
    BY <1>1, <1>3, <1>7 DEF ProvisionCreate, TypeOK
  <2> QED BY <2>1, <2>2 DEF Alive
<1>8. CASE ProvisionRecheck(r)
  <2>1. /\ p.pc = "recheck"
        /\ rows'[r] = rows[r]
        /\ containers'[r] = containers[r]
    BY <1>8 DEF ProvisionRecheck, Provisioning
  <2>2. rows[r].desired \in {"RUNNING", "STOPPED"}
    BY <1>1 DEF TypeOK, RuntimeRecord
  <2>3. \/ provisioners'[r].pc = "start"
        \/ provisioners'[r].pc = "cancel" /\ rows[r].state \in Closing
    BY <1>1, <1>3, <1>8, <2>1, <2>2 DEF ProvisionRecheck, RowOK
  <2> QED BY <1>1, <2>1, <2>3
<1>9. CASE ProvisionCancel(r)
  <2>1. rows'[r] = rows[r] /\ rows[r].state \in Closing
    BY <1>1, <1>9 DEF ProvisionCancel, Provisioning
  <2>2. provisioners'[r].pc \in {"cancel_stop", "off", "cleanup"}
    BY <1>2, <1>3, <1>9 DEF ProvisionCancel
  <2> QED BY <2>1, <2>2
<1>10. CASE ProvisionCancelStop(r)
  <2>1. rows'[r].state \in Closing
    BY <1>1, <1>2, <1>4, <1>10 DEF ProvisionCancelStop, Provisioning, RuntimeStates
  <2>2. provisioners'[r].pc \in {"off", "give_up"}
    BY <1>2, <1>3, <1>10 DEF ProvisionCancelStop
  <2> QED BY <2>1, <2>2
<1>11. CASE ProvisionStart(r)
  <2> DEFINE started == [Moved(rec, "STARTING") EXCEPT !.ref = TRUE]
  <2>1. p.pc = "start" /\ rec.state = "PROVISIONING" /\ containers'[r] = containers[r]
    BY <1>1, <1>11 DEF ProvisionStart, Provisioning, ProvisionOK
  <2>2. CASE CanSwap(r, rec)
    <3>1. started.state = "STARTING"
      BY <1>1, MovedType DEF RuntimeRecord, RuntimeStates, ActiveStates
    <3>2. rows'[r] = started /\ provisioners'[r].pc = "poll"
      BY <1>2, <1>3, <1>11, <2>2 DEF ProvisionStart
    <3> QED BY <1>1, <2>1, <2>2, <3>1, <3>2 DEF CanSwap
  <2>3. CASE ~CanSwap(r, rec)
    BY <1>1, <1>3, <1>11, <2>1, <2>3 DEF ProvisionStart, CanSwap
  <2> QED BY <2>2, <2>3
<1>12. CASE ProvisionPoll(r)
  <2>1. p.pc = "poll" /\ rows'[r] = rows[r] /\ containers'[r] = containers[r]
    BY <1>12 DEF ProvisionPoll, Provisioning
  <2>2. provisioners'[r].pc \in {"publish", "cleanup"}
    BY <1>3, <1>12 DEF ProvisionPoll
  <2> QED BY <1>1, <2>1, <2>2
<1>13. CASE ProvisionPublish(r)
  <2>1. p.pc = "publish" /\ rec.state = "STARTING" /\ containers'[r] = containers[r]
    BY <1>1, <1>13 DEF ProvisionPublish, Provisioning, ProvisionOK
  <2>2. CASE CanSwap(r, rec)
    <3>1. rows'[r].state = "READY" /\ provisioners'[r].pc = "off"
      BY <1>2, <1>4, <1>13, <2>2 DEF ProvisionPublish, RuntimeStates, ActiveStates
    <3> QED BY <1>1, <2>1, <2>2, <3>1 DEF CanSwap
  <2>3. CASE ~CanSwap(r, rec)
    BY <1>1, <1>3, <1>13, <2>1, <2>3 DEF ProvisionPublish, CanSwap
  <2> QED BY <2>2, <2>3
<1>14. CASE ProvisionGiveUp(r)
  <2>1. rows'[r] = rows[r] /\ rows[r].state \in Closing
    BY <1>1, <1>14 DEF ProvisionGiveUp, Provisioning
  <2> QED BY <1>2, <1>14, <2>1 DEF ProvisionGiveUp
<1>15. CASE ProvisionCleanup(r)
  <2>1. rows'[r] = rows[r] /\ rows[r].state \in {"STARTING"} \cup Closing
    BY <1>1, <1>15 DEF ProvisionCleanup, Provisioning
  <2>2. provisioners'[r].pc = "reget"
    BY <1>3, <1>15 DEF ProvisionCleanup
  <2> QED BY <2>1, <2>2
<1>16. CASE ProvisionReget(r)
  <2>1. provisioners'[r].pc \in {"fail", "off"}
    BY <1>2, <1>3, <1>16 DEF ProvisionReget
  <2> QED BY <1>1, <1>16, <2>1 DEF ProvisionReget
<1>17. CASE ProvisionFail(r)
  <2>1. rows'[r] = rows[r] \/ rows'[r].state = "FAILED"
    BY <1>2, <1>4, <1>17 DEF ProvisionFail, RuntimeStates
  <2> QED BY <1>1, <1>2, <1>17, <2>1 DEF ProvisionFail
<1> QED
  BY <1>5, <1>6, <1>7, <1>8, <1>9, <1>10, <1>11, <1>12, <1>13, <1>14, <1>15, <1>16, <1>17
     DEF ProvisionStep

\* A runtime that is announced as READY has a container, and none of the
\* service's own threads has removed it: every thread that removes a container
\* works for a row that is closing or failing.
THEOREM ReadyIsKeptHolds == Spec => []ReadyIsKept
<1>1. Init => KeepInv
  BY DEF Init, KeepInv, Keeps, NoRecord, NoThread
<1>2. IInv /\ KeepInv /\ [Next]_vars => KeepInv'
  <2> SUFFICES ASSUME IInv, KeepInv, [Next]_vars, NEW r \in Runtimes
               PROVE  Keeps(provisioners'[r].pc, rows'[r], containers'[r])
    BY DEF KeepInv
  <2> DEFINE Goal == Keeps(provisioners'[r].pc, rows'[r], containers'[r])
  <2>1. /\ TypeOK
        /\ Keeps(provisioners[r].pc, rows[r], containers[r])
        /\ rows[r].state = "ABSENT" => provisioners[r].pc = "off"
    BY DEF IInv, KeepInv, ProvisionOK
  <2>2. ASSUME NEW t \in Threads, RequestStep(t) PROVE Goal
    <3>1. /\ \/ rows'[r] = rows[r]
             \/ rows'[r].state \in Closing
             \/ rows[r].state = "ABSENT" /\ rows'[r].state = "REQUESTED"
          /\ containers'[r] = containers[r] \/ rows'[r].state \in Closing
      BY <2>2, RequestStepCloses
    <3>2. Keeps(provisioners[r].pc, rows'[r], containers'[r])
      BY <2>1, <3>1, KeepsThroughOthers
    <3>3. provisioners'[r] = provisioners[r] \/ provisioners'[r].pc = "get"
      BY <2>2, RequestStepKeeps
    <3> QED BY <3>2, <3>3 DEF Keeps
  <2>3. ASSUME NEW x \in Runtimes, ProvisionStep(x) PROVE Goal
    <3>1. CASE x = r
      BY <2>3, <3>1, ProvisionStepKept
    <3>2. CASE x # r
      <4>1. rows'[r] = rows[r] /\ containers'[r] = containers[r]
        BY <2>1, <2>3, <3>2 DEF ProvisionStep, ProvisionGet, ProvisionClaim, ProvisionCreate,
             ProvisionRecheck, ProvisionCancel, ProvisionCancelStop, ProvisionStart, ProvisionPoll,
             ProvisionPublish, ProvisionGiveUp, ProvisionCleanup, ProvisionReget, ProvisionFail,
             Store, Remove, TypeOK
      <4>2. provisioners'[r] = provisioners[r]
        BY <2>3, <3>2, ProvisionStepKeeps
      <4> QED BY <2>1, <4>1, <4>2
    <3> QED BY <3>1, <3>2
  <2>4. ASSUME NEW x \in Runtimes, ContainerReady(x) \/ ContainerExit(x) PROVE Goal
    <3>1. rows' = rows /\ provisioners' = provisioners
      BY <2>4 DEF ContainerReady, ContainerExit
    <3>2. Alive(containers[r]) => Alive(containers'[r])
      BY <2>1, <2>4 DEF ContainerReady, ContainerExit, Alive, TypeOK
    <3> QED BY <2>1, <3>1, <3>2, KeepsThroughOthers
  <2>5. CASE Crash
    BY <2>1, <2>5 DEF Crash, Keeps, NoThread
  <2>6. ASSUME rows' = rows, provisioners' = provisioners, containers' = containers PROVE Goal
    BY <2>1, <2>6
  <2> QED BY <2>2, <2>3, <2>4, <2>5, <2>6 DEF Next, Receive, vars
<1>3. IInv /\ KeepInv => ReadyIsKept
  BY DEF IInv, RowOK, KeepInv, Keeps, Alive, ReadyIsKept
<1> QED BY <1>1, <1>2, <1>3, Invariance, PTL DEF Spec

==============================================================================

---------------------------- MODULE RuntimeService ----------------------------
(***************************************************************************)
(* The runtime service (runtime-service/app): the table user_runtimes, the *)
(* HTTP request threads of PUT and DELETE /api/runtime, one background     *)
(* provisioning thread per runtime, and the containers the provider runs.  *)
(*                                                                         *)
(* Each SQLite statement and each provider call is one atomic step; what a *)
(* thread read from the table before a step is kept in its local record.   *)
(* Production always has a provider, so the "no provider" branches that    *)
(* only tests take are left out.  Profiles, timestamps, the provider's     *)
(* name and failure texts do not influence control and are left out.       *)
(***************************************************************************)
EXTENDS Naturals, FiniteSets

CONSTANTS
  Users,       \* owners of runtimes
  Runtimes,    \* the runtime ids uuid4 may produce (bounds the run)
  Threads,     \* request threads of the service's thread pool
  NoUser,      \* owner of a row that was never inserted
  NoRuntime,   \* runtime id of a thread that serves no request
  MaxCrashes,  \* bound: restarts of the service process
  Faults       \* which failures the environment may produce

ASSUME NoUserAssumption    == NoUser \notin Users
ASSUME NoRuntimeAssumption == NoRuntime \notin Runtimes
ASSUME CrashAssumption     == MaxCrashes \in Nat
ASSUME FaultsAssumption    == Faults \subseteq {"create", "terminate", "container"}

VARIABLES
  rows,          \* the table user_runtimes, keyed by runtime_id
  requests,      \* state of each request thread
  provisioners,  \* state of each runtime's provisioning thread
  containers,    \* what Docker holds for each runtime
  creations,     \* history: calls of provider.create per runtime
  crashes        \* history: restarts so far

vars == <<rows, requests, provisioners, containers, creations, crashes>>

-----------------------------------------------------------------------------
(* Records and states *)

ActiveStates == {"REQUESTED", "PROVISIONING", "STARTING", "READY", "STOPPING"}

RuntimeStates == ActiveStates \cup {"STOPPED", "FAILED"}

AllowedTransitions ==
  [ABSENT       |-> {"REQUESTED"},
   REQUESTED    |-> {"PROVISIONING", "FAILED", "STOPPING"},
   PROVISIONING |-> {"STARTING", "FAILED", "STOPPING"},
   STARTING     |-> {"READY", "FAILED", "STOPPING"},
   READY        |-> {"FAILED", "STOPPING"},
   STOPPING     |-> {"STOPPED", "FAILED"},
   FAILED       |-> {"STOPPED"},
   STOPPED      |-> {}]

RuntimeRecord ==
  [owner   : Users \cup {NoUser},
   state   : RuntimeStates \cup {"ABSENT"},
   desired : {"RUNNING", "STOPPED"},
   ref     : BOOLEAN]  \* is provider_ref set (it names the runtime's container)

NoRecord == [owner |-> NoUser, state |-> "ABSENT", desired |-> "RUNNING", ref |-> FALSE]

NewRecord(u) ==
  [owner |-> u, state |-> "REQUESTED", desired |-> "RUNNING", ref |-> FALSE]

RequestSteps ==
  {"idle",
   "ensure_find", "ensure_insert", "ensure_refind", "ensure_schedule", "ensure_error",
   "stop_find", "stop_swap", "stop_terminate", "stop_fail", "stop_final", "stop_error"}

ProvisionSteps ==
  {"off", "get", "claim", "create", "recheck", "cancel", "cancel_stop", "start",
   "poll", "publish", "give_up", "cleanup", "reget", "fail"}

ContainerStates == {"none", "starting", "ready", "exited", "removed"}

RequestRecord ==
  [pc   : RequestSteps,
   user : Users \cup {NoUser},
   rid  : Runtimes \cup {NoRuntime},
   rec  : RuntimeRecord]

ProvisionRecord == [pc : ProvisionSteps, rec : RuntimeRecord]

IdleRequest ==
  [pc |-> "idle", user |-> NoUser, rid |-> NoRuntime, rec |-> NoRecord]

NoThread == [pc |-> "off", rec |-> NoRecord]

FindActive(u) ==
  {r \in Runtimes : rows[r].owner = u /\ rows[r].state \in ActiveStates}

\* Ids that no row has and no thread has drawn for a row it is about to insert.
UnusedIds ==
  {r \in Runtimes : /\ rows[r].state = "ABSENT"
                    /\ \A t \in Threads : requests[t].rid # r}

-----------------------------------------------------------------------------
(* RuntimeService.transition over RuntimeRepository.update_if_state: the   *)
(* whole record a thread holds is written back, provided the state in the  *)
(* table is still the one the thread read.                                 *)

CanSwapUnchecked(r, rec) == TRUE  \* wrong: writes back without comparing

CanSwap(r, rec) == rows[r].state = rec.state

Moved(rec, to) == [rec EXCEPT !.state = to]

Store(r, rec) == rows' = [rows EXCEPT ![r] = rec]

-----------------------------------------------------------------------------
(* Thread bookkeeping *)

Request(t, step) == requests[t].pc = step

Hold(t, step, r, rec) ==
  requests' = [requests EXCEPT ![t] =
                 [pc |-> step, user |-> requests[t].user, rid |-> r, rec |-> rec]]

GoTo(t, step) == Hold(t, step, requests[t].rid, requests[t].rec)

Answer(t) == requests' = [requests EXCEPT ![t] = IdleRequest]

Provisioning(r, step) == provisioners[r].pc = step

Continue(r, step, rec) ==
  provisioners' = [provisioners EXCEPT ![r] = [pc |-> step, rec |-> rec]]

Exit(r) == provisioners' = [provisioners EXCEPT ![r] = NoThread]

Remove(r) == containers' = [containers EXCEPT ![r] = IF @ = "none" THEN @ ELSE "removed"]

-----------------------------------------------------------------------------
(* PUT /api/runtime: ensure_user_runtime *)

Receive(t, u) ==
  /\ Request(t, "idle")
  /\ \E step \in {"ensure_find", "stop_find"} :
       requests' = [requests EXCEPT ![t] = [IdleRequest EXCEPT !.pc = step, !.user = u]]
  /\ UNCHANGED <<rows, provisioners, containers, creations, crashes>>

\* An active runtime is returned as it is; one that nobody has claimed yet
\* gets a provisioning thread first.
EnsureReuse(t) ==
  /\ Request(t, "ensure_find")
  /\ \E r \in FindActive(requests[t].user) :
       IF rows[r].state = "REQUESTED"
         THEN Hold(t, "ensure_schedule", r, NoRecord)
         ELSE Answer(t)
  /\ UNCHANGED <<rows, provisioners, containers, creations, crashes>>

\* The id is drawn before the row is inserted.  A request that would need more
\* ids than the instance has (the bound Runtimes) is dropped.
EnsureNew(t) ==
  /\ Request(t, "ensure_find")
  /\ FindActive(requests[t].user) = {}
  /\ \/ \E r \in UnusedIds : Hold(t, "ensure_insert", r, NoRecord)
     \/ UnusedIds = {} /\ Answer(t)
  /\ UNCHANGED <<rows, provisioners, containers, creations, crashes>>

\* INSERT under the partial unique index on active rows of one owner; a
\* violated index (IntegrityError) sends the thread to look again.
EnsureInsert(t) ==
  /\ Request(t, "ensure_insert")
  /\ IF FindActive(requests[t].user) = {}
       THEN /\ Store(requests[t].rid, NewRecord(requests[t].user))
            /\ GoTo(t, "ensure_schedule")
       ELSE /\ Hold(t, "ensure_refind", NoRuntime, NoRecord)
            /\ UNCHANGED rows
  /\ UNCHANGED <<provisioners, containers, creations, crashes>>

\* The winner of the race is returned, without starting its provisioning; if
\* it is no longer active the IntegrityError is raised again.
EnsureRefind(t) ==
  /\ Request(t, "ensure_refind")
  /\ IF FindActive(requests[t].user) # {}
       THEN Answer(t)
       ELSE GoTo(t, "ensure_error")
  /\ UNCHANGED <<rows, provisioners, containers, creations, crashes>>

\* _start_provision: _provisioning_ids are the runtimes whose thread is not off.
EnsureSchedule(t) ==
  /\ Request(t, "ensure_schedule")
  /\ LET r == requests[t].rid IN
       IF Provisioning(r, "off")
         THEN Continue(r, "get", NoRecord)
         ELSE UNCHANGED provisioners
  /\ Answer(t)
  /\ UNCHANGED <<rows, containers, creations, crashes>>

\* An uncaught exception is answered with status 500.
AnswerError(t) ==
  /\ requests[t].pc \in {"ensure_error", "stop_error"}
  /\ Answer(t)
  /\ UNCHANGED <<rows, provisioners, containers, creations, crashes>>

-----------------------------------------------------------------------------
(* DELETE /api/runtime: request_stop *)

AfterStopping(rec) == IF rec.ref THEN "stop_terminate" ELSE "stop_final"

StopFindAbsent(t) ==
  /\ Request(t, "stop_find")
  /\ FindActive(requests[t].user) = {}
  /\ Answer(t)
  /\ UNCHANGED <<rows, provisioners, containers, creations, crashes>>

StopFind(t) ==
  /\ Request(t, "stop_find")
  /\ \E r \in FindActive(requests[t].user) :
       IF rows[r].state = "STOPPING"
         THEN Hold(t, AfterStopping(rows[r]), r, rows[r])
         ELSE Hold(t, "stop_swap", r, [rows[r] EXCEPT !.desired = "STOPPED"])
  /\ UNCHANGED <<rows, provisioners, containers, creations, crashes>>

StopSwapStubborn(t) ==  \* wrong: a lost race is retried with the same record
  /\ Request(t, "stop_swap")
  /\ LET r   == requests[t].rid
         rec == requests[t].rec IN
       IF CanSwap(r, rec)
         THEN /\ Store(r, Moved(rec, "STOPPING"))
              /\ Hold(t, AfterStopping(rec), r, Moved(rec, "STOPPING"))
         ELSE UNCHANGED <<rows, requests>>
  /\ UNCHANGED <<provisioners, containers, creations, crashes>>

StopSwapLeaving(t) ==  \* wrong: without a container the provisioner is trusted to finish
  /\ Request(t, "stop_swap")
  /\ LET r   == requests[t].rid
         rec == requests[t].rec IN
       IF CanSwap(r, rec)
         THEN /\ Store(r, Moved(rec, "STOPPING"))
              /\ IF rec.ref THEN Hold(t, "stop_terminate", r, Moved(rec, "STOPPING"))
                            ELSE Answer(t)
         ELSE /\ Hold(t, "stop_find", NoRuntime, NoRecord)
              /\ UNCHANGED rows
  /\ UNCHANGED <<provisioners, containers, creations, crashes>>

\* A lost race sends the loop back to find_active_by_user.
StopSwap(t) ==
  /\ Request(t, "stop_swap")
  /\ LET r   == requests[t].rid
         rec == requests[t].rec IN
       IF CanSwap(r, rec)
         THEN /\ Store(r, Moved(rec, "STOPPING"))
              /\ Hold(t, AfterStopping(rec), r, Moved(rec, "STOPPING"))
         ELSE /\ Hold(t, "stop_find", NoRuntime, NoRecord)
              /\ UNCHANGED rows
  /\ UNCHANGED <<provisioners, containers, creations, crashes>>

StopTerminate(t) ==
  /\ Request(t, "stop_terminate")
  /\ \/ Remove(requests[t].rid) /\ GoTo(t, "stop_final")
     \/ /\ "terminate" \in Faults
        /\ GoTo(t, "stop_fail")
        /\ UNCHANGED containers
  /\ UNCHANGED <<rows, provisioners, creations, crashes>>

\* The closing transition, to STOPPED or (terminate raised) to FAILED.  Nothing
\* catches ConcurrentRuntimeTransition here.
StopClose(t) ==
  /\ requests[t].pc \in {"stop_final", "stop_fail"}
  /\ LET r   == requests[t].rid
         rec == requests[t].rec
         to  == IF requests[t].pc = "stop_final" THEN "STOPPED" ELSE "FAILED" IN
       IF CanSwap(r, rec)
         THEN Store(r, Moved(rec, to)) /\ Answer(t)
         ELSE Hold(t, "stop_error", NoRuntime, NoRecord) /\ UNCHANGED rows
  /\ UNCHANGED <<provisioners, containers, creations, crashes>>

-----------------------------------------------------------------------------
(* The provisioning thread: _provision *)

ProvisionGetUnchecked(r) ==  \* wrong: provisions whatever state it reads
  /\ Provisioning(r, "get")
  /\ Continue(r, "claim", rows[r])
  /\ UNCHANGED <<rows, requests, containers, creations, crashes>>

ProvisionGet(r) ==
  /\ Provisioning(r, "get")
  /\ IF rows[r].state = "REQUESTED"
       THEN Continue(r, "claim", rows[r])
       ELSE Exit(r)
  /\ UNCHANGED <<rows, requests, containers, creations, crashes>>

ProvisionClaim(r) ==
  /\ Provisioning(r, "claim")
  /\ LET rec == provisioners[r].rec IN
       IF CanSwap(r, rec)
         THEN /\ Store(r, Moved(rec, "PROVISIONING"))
              /\ Continue(r, "create", Moved(rec, "PROVISIONING"))
         ELSE Exit(r) /\ UNCHANGED rows
  /\ UNCHANGED <<requests, containers, creations, crashes>>

\* docker run.  A raised error may leave a created container behind (the image
\* was instantiated but could not be started), whose id the thread never learns.
ProvisionCreate(r) ==
  /\ Provisioning(r, "create")
  /\ creations' = [creations EXCEPT ![r] = @ + 1]
  /\ \/ /\ containers' = [containers EXCEPT ![r] = "starting"]
        /\ Continue(r, "recheck", NoRecord)
     \/ /\ "create" \in Faults
        /\ \E left \in {"none", "exited"} : containers' = [containers EXCEPT ![r] = left]
        /\ Continue(r, "reget", NoRecord)
  /\ UNCHANGED <<rows, requests, crashes>>

\* The row is read again: a stop may have come while the provider was busy.
ProvisionRecheck(r) ==
  /\ Provisioning(r, "recheck")
  /\ IF rows[r].state = "PROVISIONING" /\ rows[r].desired = "RUNNING"
       THEN Continue(r, "start", rows[r])
       ELSE Continue(r, "cancel", rows[r])
  /\ UNCHANGED <<rows, requests, containers, creations, crashes>>

ProvisionCancel(r) ==
  /\ Provisioning(r, "cancel")
  /\ \/ /\ Remove(r)
        /\ IF provisioners[r].rec.state = "STOPPING"
             THEN Continue(r, "cancel_stop", provisioners[r].rec)
             ELSE Exit(r)
     \/ /\ "terminate" \in Faults
        /\ Continue(r, "cleanup", NoRecord)
        /\ UNCHANGED containers
  /\ UNCHANGED <<rows, requests, creations, crashes>>

ProvisionCancelStop(r) ==
  /\ Provisioning(r, "cancel_stop")
  /\ LET rec == provisioners[r].rec IN
       IF CanSwap(r, rec)
         THEN Store(r, Moved(rec, "STOPPED")) /\ Exit(r)
         ELSE Continue(r, "give_up", NoRecord) /\ UNCHANGED rows
  /\ UNCHANGED <<requests, containers, creations, crashes>>

ProvisionStart(r) ==
  /\ Provisioning(r, "start")
  /\ LET rec     == provisioners[r].rec
         started == [Moved(rec, "STARTING") EXCEPT !.ref = TRUE] IN
       IF CanSwap(r, rec)
         THEN Store(r, started) /\ Continue(r, "poll", started)
         ELSE Continue(r, "give_up", NoRecord) /\ UNCHANGED rows
  /\ UNCHANGED <<requests, containers, creations, crashes>>

\* One round of the polling loop that ends it: the container answers, it is
\* gone, or the deadline passes first.
ProvisionPoll(r) ==
  /\ Provisioning(r, "poll")
  /\ \/ /\ containers[r] = "ready"
        /\ Continue(r, "publish", provisioners[r].rec)
     \/ /\ containers[r] \in {"exited", "removed"}
        /\ Continue(r, "cleanup", NoRecord)
     \/ /\ containers[r] \in {"starting", "ready"}
        /\ Continue(r, "cleanup", NoRecord)
  /\ UNCHANGED <<rows, requests, containers, creations, crashes>>

ProvisionPublishBlind(r) ==  \* wrong: the state column is set whatever it is now
  /\ Provisioning(r, "publish")
  /\ rows' = [rows EXCEPT ![r].state = "READY"]
  /\ Exit(r)
  /\ UNCHANGED <<requests, containers, creations, crashes>>

ProvisionPublish(r) ==
  /\ Provisioning(r, "publish")
  /\ LET rec == provisioners[r].rec IN
       IF CanSwap(r, rec)
         THEN Store(r, Moved(rec, "READY")) /\ Exit(r)
         ELSE Continue(r, "give_up", NoRecord) /\ UNCHANGED rows
  /\ UNCHANGED <<requests, containers, creations, crashes>>

ProvisionGiveUpKeeping(r) ==  \* wrong: a lost race leaves the container running
  /\ Provisioning(r, "give_up")
  /\ Exit(r)
  /\ UNCHANGED <<rows, requests, containers, creations, crashes>>

\* except ConcurrentRuntimeTransition: what terminate raises here ends the thread.
ProvisionGiveUp(r) ==
  /\ Provisioning(r, "give_up")
  /\ \/ Remove(r)
     \/ "terminate" \in Faults /\ UNCHANGED containers
  /\ Exit(r)
  /\ UNCHANGED <<rows, requests, creations, crashes>>

\* except Exception: terminate, swallowing what it raises, then mark the row.
ProvisionCleanup(r) ==
  /\ Provisioning(r, "cleanup")
  /\ \/ Remove(r)
     \/ "terminate" \in Faults /\ UNCHANGED containers
  /\ Continue(r, "reget", NoRecord)
  /\ UNCHANGED <<rows, requests, creations, crashes>>

ProvisionRegetHasty(r) ==  \* wrong: a runtime that got as far as STARTING is left alone
  /\ Provisioning(r, "reget")
  /\ IF rows[r].state \in {"STARTING", "FAILED", "STOPPED"}
       THEN Exit(r)
       ELSE Continue(r, "fail", rows[r])
  /\ UNCHANGED <<rows, requests, containers, creations, crashes>>

ProvisionReget(r) ==
  /\ Provisioning(r, "reget")
  /\ IF rows[r].state \in {"FAILED", "STOPPED"}
       THEN Exit(r)
       ELSE Continue(r, "fail", rows[r])
  /\ UNCHANGED <<rows, requests, containers, creations, crashes>>

ProvisionFail(r) ==
  /\ Provisioning(r, "fail")
  /\ LET rec == provisioners[r].rec IN
       IF CanSwap(r, rec)
         THEN Store(r, Moved(rec, "FAILED"))
         ELSE UNCHANGED rows
  /\ Exit(r)
  /\ UNCHANGED <<requests, containers, creations, crashes>>

-----------------------------------------------------------------------------
(* The environment *)

ContainerReady(r) ==
  /\ containers[r] = "starting"
  /\ containers' = [containers EXCEPT ![r] = "ready"]
  /\ UNCHANGED <<rows, requests, provisioners, creations, crashes>>

ContainerExit(r) ==
  /\ "container" \in Faults
  /\ containers[r] \in {"starting", "ready"}
  /\ containers' = [containers EXCEPT ![r] = "exited"]
  /\ UNCHANGED <<rows, requests, provisioners, creations, crashes>>

\* The service process stops and starts again: table and containers remain,
\* every thread and _provisioning_ids are lost, nothing is recovered at start.
Crash ==
  /\ crashes < MaxCrashes
  /\ crashes' = crashes + 1
  /\ requests' = [t \in Threads |-> IdleRequest]
  /\ provisioners' = [r \in Runtimes |-> NoThread]
  /\ UNCHANGED <<rows, containers, creations>>

-----------------------------------------------------------------------------
Init ==
  /\ rows = [r \in Runtimes |-> NoRecord]
  /\ requests = [t \in Threads |-> IdleRequest]
  /\ provisioners = [r \in Runtimes |-> NoThread]
  /\ containers = [r \in Runtimes |-> "none"]
  /\ creations = [r \in Runtimes |-> 0]
  /\ crashes = 0

RequestStep(t) ==
  \/ EnsureReuse(t) \/ EnsureNew(t) \/ EnsureInsert(t) \/ EnsureRefind(t)
  \/ EnsureSchedule(t) \/ AnswerError(t)
  \/ StopFindAbsent(t) \/ StopFind(t) \/ StopSwap(t) \/ StopTerminate(t) \/ StopClose(t)

ProvisionStep(r) ==
  \/ ProvisionGet(r) \/ ProvisionClaim(r) \/ ProvisionCreate(r) \/ ProvisionRecheck(r)
  \/ ProvisionCancel(r) \/ ProvisionCancelStop(r) \/ ProvisionStart(r) \/ ProvisionPoll(r)
  \/ ProvisionPublish(r) \/ ProvisionGiveUp(r) \/ ProvisionCleanup(r)
  \/ ProvisionReget(r) \/ ProvisionFail(r)

Next ==
  \/ \E t \in Threads, u \in Users : Receive(t, u)
  \/ \E t \in Threads : RequestStep(t)
  \/ \E r \in Runtimes : ProvisionStep(r)
  \/ \E r \in Runtimes : ContainerReady(r) \/ ContainerExit(r)
  \/ Crash

Spec == Init /\ [][Next]_vars

\* A started thread runs on, and the polling deadline passes: LUMEN_RUNTIME_START_TIMEOUT.
Fairness ==
  /\ \A t \in Threads : WF_vars(RequestStep(t))
  /\ \A r \in Runtimes : WF_vars(ProvisionStep(r))

FairSpec == Spec /\ Fairness

-----------------------------------------------------------------------------
(* Properties *)

TypeOK ==
  /\ rows \in [Runtimes -> RuntimeRecord]
  /\ requests \in [Threads -> RequestRecord]
  /\ provisioners \in [Runtimes -> ProvisionRecord]
  /\ containers \in [Runtimes -> ContainerStates]
  /\ creations \in [Runtimes -> Nat]
  /\ crashes \in 0..MaxCrashes

\* A user has at most one active record, however PUT and DELETE requests of the
\* same user interleave (ensure_user_runtime's race on the unique index).
OneActivePerUser ==
  \A u \in Users : \A r1, r2 \in FindActive(u) : r1 = r2

\* The provider is asked at most once to create a runtime's container, even
\* when a provisioning thread is started again after a restart or by a request
\* that acts on a state it read long ago (_start_provision, _provision).
CreatedOnce ==
  \A r \in Runtimes : creations[r] <= 1

\* A runtime announced READY names a container that this service has not
\* removed: whichever of stop and provisioner loses a race cleans up only what
\* the table does not offer (_provision, request_stop).
ReadyIsKept ==
  \A r \in Runtimes :
    rows[r].state = "READY" =>
      rows[r].ref /\ containers[r] \in {"starting", "ready", "exited"}

Running(r) == containers[r] \in {"starting", "ready", "exited"}

\* The container's server process runs.  A container that exited is only litter:
\* docker run may leave one behind whose id the service never learns.
Serving(r) == containers[r] \in {"starting", "ready"}

\* Transitions written to the table are those ALLOWED_TRANSITIONS lists, so
\* InvalidRuntimeTransition is never raised, whatever the threads interleave.
LegalTransitions ==
  [][\A r \in Runtimes :
       rows'[r].state # rows[r].state =>
         rows'[r].state \in AllowedTransitions[rows[r].state]]_vars

\* The writers replace whole rows from copies they read earlier; none of them
\* ever takes back what another one recorded: the owner, a stop that was asked
\* for, or the reference to the container.
NothingTakenBack ==
  [][\A r \in Runtimes : rows[r].state # "ABSENT" =>
       /\ rows'[r].owner = rows[r].owner
       /\ rows[r].desired = "STOPPED" => rows'[r].desired = "STOPPED"
       /\ rows[r].ref => rows'[r].ref]_vars

\* A stop that was recorded is never followed by a READY announcement or by
\* another step of the provisioning (update_if_state's comparison).
StopIsFinal ==
  \A r \in Runtimes :
    rows[r].desired = "STOPPED" => rows[r].state \in {"STOPPING", "STOPPED", "FAILED"}

\* A runtime that was requested becomes ready, fails or is stopped.
RequestedIsSettled ==
  \A r \in Runtimes :
    rows[r].state = "REQUESTED" ~> rows[r].state \in {"READY", "FAILED", "STOPPED"}

\* A stop in progress ends, also when stop and provisioner compete for the row.
StoppingEnds ==
  \A r \in Runtimes :
    rows[r].state = "STOPPING" ~> rows[r].state \in {"STOPPED", "FAILED"}

\* Unless terminate itself fails, every server of a closed record is gone in the
\* end, though containers die and creations fail: whichever of stop and
\* provisioner loses a race, one of them is left to clean up (_provision's three
\* cleanup paths against request_stop).
ClosedIsRemoved ==
  \A r \in Runtimes :
    Serving(r) /\ rows[r].state \in {"STOPPED", "FAILED"} ~> ~Serving(r)

\* Every request is answered: request_stop's retry loop does not spin for ever.
RequestsAnswered ==
  \A t \in Threads : ~Request(t, "idle") ~> Request(t, "idle")

\* README.md: one Jupyter Server per user.
OneServerPerUser ==
  \A r1, r2 \in Runtimes :
    Running(r1) /\ Running(r2) /\ rows[r1].owner = rows[r2].owner => r1 = r2

\* backend-api-v1.md: DELETE /api/runtime returns 202.
StopReturnsAccepted ==
  \A t \in Threads : ~Request(t, "stop_error")

==============================================================================

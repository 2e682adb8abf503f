----------------------------- MODULE KernelSession -----------------------------
(***************************************************************************)
(* The session of one notebook in the frontend: SessionContext over          *)
(* RuntimeKernelAdapter (waits until the runtime is READY, one attempt at a  *)
(* time) over JupyterKernel (a kernel and a WebSocket, created on demand).   *)
(* Executions are started by the user and overlap.  The registry drops the   *)
(* session before it shuts it down, so nothing is started on it afterwards;  *)
(* what was started goes on.                                                 *)
(*                                                                           *)
(* The kernel is external: it runs the requests it received in order and     *)
(* publishes, for each, outputs and then "idle" on iopub and a reply on the  *)
(* shell channel; between the two channels any order is possible.            *)
(***************************************************************************)
EXTENDS Integers, Sequences, FiniteSets, SequencesExt

CONSTANTS Executions, \* executions the user may start
          Script,     \* what the code of an execution publishes, in order
          MaxFaults   \* bounds lost connections, failing requests, interrupts and restarts

\* A display may carry an id, under which a later "update" replaces it.
Outputs == [type: {"stream", "error"}, tag: Nat]
             \union [type: {"display", "update"}, id: Nat, tag: Nat]
Clears == [type: {"clear", "clearWait"}]
ASSUME ScriptAssumption == Script \in [Executions -> Seq(Outputs \union Clears)]
ASSUME FaultsAssumption == MaxFaults \in Nat

VARIABLES
  status,     \* SessionContext.status
  restarting, \* a restart awaits its answer
  registered, \* "yes"; "leaving" while the session is shut down; "no"
  delegate,   \* RuntimeKernelAdapter has a JupyterKernel
  connecting, \* it waits for the runtime, on behalf of all executions that wait
  attempts,   \* how many waits for the runtime are under way
  kernelId,   \* the JupyterKernel knows its kernel
  socket,     \* its current WebSocket
  sockets,    \* the state of every WebSocket it created
  exec,       \* the executions
  lingering,  \* history: executions were connecting when the session was shut down
  alive,      \* external: the notebook's kernel exists in its Jupyter Server
  requests,   \* external: the executions it has received and not finished
  left,       \* external: what it still has to publish for the first of them
  published,  \* external: the outputs it has published for each execution
  faults

shown  == <<status, restarting>>
wiring == <<registered, delegate, connecting, attempts, lingering>>
link   == <<kernelId, socket, sockets>>
queue  == <<requests, left>>
kernel == <<alive, queue, published>>
vars   == <<shown, wiring, link, exec, kernel, faults>>

NoSocket == 0
Idle == [type |-> "idle"]
Reply == [type |-> "reply"]
Interrupted == [type |-> "error", tag |-> 0]

NewExecution == [pc |-> "new", socket |-> NoSocket, outputs |-> <<>>, ids |-> <<>>,
                 clear |-> FALSE, reply |-> FALSE, idle |-> FALSE]

NothingLeft == [iopub |-> <<>>, reply |-> FALSE]

Init ==
  /\ status = "idle" /\ restarting = FALSE /\ registered = "yes"
  /\ delegate = FALSE /\ connecting = FALSE /\ attempts = 0 /\ lingering = FALSE
  /\ kernelId = FALSE /\ socket = NoSocket /\ sockets = <<>>
  /\ exec = [e \in Executions |-> NewExecution]
  /\ alive = FALSE /\ requests = <<>> /\ left = NothingLeft
  /\ published = [e \in Executions |-> <<>>]
  /\ faults = 0

Being(pcs) == {e \in Executions : exec[e].pc \in pcs}
Connecting == Being({"runtime", "post", "opening"})
InFlight == Connecting \union Being({"sent"})

Fault == faults < MaxFaults /\ faults' = faults + 1

-----------------------------------------------------------------------------
\* Wrong: a failure leaves the status to the next result.
FailedQuietly(e) == exec' = [exec EXCEPT ![e].pc = "failed"] /\ UNCHANGED status
\* SessionContext.execute: a failure always shows idle, a result only if the
\* session still shows busy.
Failed(e) == exec' = [exec EXCEPT ![e].pc = "failed"] /\ status' = "idle"

\* send() does nothing on a closed socket and throws on a connecting one.  "show"
\* is the status of the session if the execution goes on.
Send(e, k, show) ==
  IF sockets'[k] = "connecting"
  THEN Failed(e) /\ UNCHANGED requests
  ELSE /\ exec' = [exec EXCEPT ![e].pc = "sent", ![e].socket = k]
       /\ requests' = IF sockets'[k] = "open" /\ alive' THEN Append(requests, e) ELSE requests
       /\ status' = show
\* The part of ensureConnected after the kernel is known: use the open socket, or
\* replace the one there is by a new one and wait for it to open.
OpenSocket(e, show) ==
  IF socket # NoSocket /\ sockets[socket] = "open"
  THEN UNCHANGED <<socket, sockets>> /\ Send(e, socket, show)
  ELSE /\ sockets' = Append(sockets, "connecting") /\ socket' = Len(sockets')
       /\ exec' = [exec EXCEPT ![e].pc = "opening", ![e].socket = socket']
       /\ status' = show /\ UNCHANGED requests

\* execute() runs up to its first await: for the runtime, for a kernel, for an open
\* socket or for the result.
Begin(e) == exec[e].pc = "new" /\ registered = "yes"
Waits(e, pc) == exec' = [exec EXCEPT ![e].pc = pc] /\ status' = "busy"
ExecuteWithoutRuntime(e) ==
  /\ Begin(e) /\ ~delegate
  /\ Waits(e, "runtime")
  /\ connecting' = TRUE /\ attempts' = IF connecting THEN attempts ELSE attempts + 1
  /\ UNCHANGED <<restarting, registered, delegate, lingering, link, kernel, faults>>
ExecuteWithoutKernel(e) ==
  /\ Begin(e) /\ delegate /\ ~kernelId
  /\ Waits(e, "post")
  /\ UNCHANGED <<restarting, wiring, link, kernel, faults>>
ExecuteConnected(e) ==
  /\ Begin(e) /\ delegate /\ kernelId
  /\ UNCHANGED <<restarting, wiring, kernelId, alive, left, published, faults>>
  /\ OpenSocket(e, "busy")

\* ensureRuntimeReady polls until READY; it gives up when the runtime fails or
\* stops, a request fails, or the deadline of two minutes passes.
Resume(pc) == exec' = [e \in Executions |-> IF exec[e].pc = "runtime"
                                            THEN [exec[e] EXCEPT !.pc = pc] ELSE exec[e]]
RuntimeReady ==
  /\ attempts > 0 /\ attempts' = attempts - 1
  /\ delegate' = TRUE /\ connecting' = FALSE
  /\ Resume("post")
  /\ UNCHANGED <<shown, registered, lingering, link, kernel, faults>>
RuntimeFails ==
  /\ attempts > 0 /\ attempts' = attempts - 1 /\ Fault
  /\ connecting' = FALSE
  /\ Resume("failed") /\ status' = "idle"
  /\ UNCHANGED <<restarting, registered, delegate, lingering, link, kernel>>

\* POST /api/kernels: the gateway answers with the notebook's kernel, new or not.
KernelPosted(e) ==
  /\ exec[e].pc = "post"
  /\ kernelId' = TRUE /\ alive' = TRUE
  /\ OpenSocket(e, status)
  /\ UNCHANGED <<restarting, wiring, left, published, faults>>
PostFails(e) ==
  /\ exec[e].pc = "post" /\ Fault
  /\ Failed(e)
  /\ UNCHANGED <<restarting, wiring, link, kernel>>

\* "open" resumes the one execution that waits for this socket; it then takes the
\* adapter's current socket, which may be another one or none.
SocketOpens(e) ==
  /\ exec[e].pc = "opening" /\ sockets[exec[e].socket] = "connecting"
  /\ sockets' = [sockets EXCEPT ![exec[e].socket] = "open"]
  /\ UNCHANGED <<restarting, wiring, kernelId, socket, alive, left, published, faults>>
  /\ IF socket = NoSocket THEN Failed(e) /\ UNCHANGED requests ELSE Send(e, socket, status)
SocketFails(e) ==
  /\ exec[e].pc = "opening"
  /\ \/ sockets[exec[e].socket] = "closed" /\ UNCHANGED faults \* closed by shutdown
     \/ Fault
  /\ sockets' = [sockets EXCEPT ![exec[e].socket] = "closed"]
  /\ Failed(e)
  /\ UNCHANGED <<restarting, wiring, kernelId, socket, kernel>>
\* A connection is lost: nobody listens for "close".
SocketDrops(k) ==
  /\ sockets[k] = "open" /\ Fault
  /\ sockets' = [sockets EXCEPT ![k] = "closed"]
  /\ UNCHANGED <<shown, wiring, kernelId, socket, exec, kernel>>

-----------------------------------------------------------------------------
\* The listener of an execution.  A display with an id remembers its place (ids);
\* "clear with wait" empties the outputs when the next one comes.
IsClear(m) == m.type \in {"clear", "clearWait"}
Prepared(x) == IF x.clear THEN [x EXCEPT !.outputs = <<>>, !.ids = <<>>, !.clear = FALSE] ELSE x
PlaceOf(x, id) == SelectLastInSeq(x.ids, LAMBDA p : p = id)
\* ids runs along the outputs: the id under which each can be updated, 0 for none.
IdOf(m) == IF m.type \in {"display", "update"} THEN m.id ELSE 0
Pushed(x, m) == [x EXCEPT !.outputs = Append(@, m), !.ids = Append(@, IdOf(m))]
Received(x, m) ==
  CASE m.type = "idle"      -> [x EXCEPT !.idle = TRUE]
    [] m.type = "reply"     -> [x EXCEPT !.reply = TRUE]
    [] m.type = "clearWait" -> [x EXCEPT !.clear = TRUE]
    [] m.type = "clear"     -> [x EXCEPT !.outputs = <<>>, !.ids = <<>>]
    [] m.type = "update" /\ m.id # 0 /\ PlaceOf(Prepared(x), m.id) # 0 ->
         [Prepared(x) EXCEPT !.outputs[PlaceOf(Prepared(x), m.id)] = m]
    [] OTHER                -> Pushed(Prepared(x), m)

\* Wrong: the reply alone ends it.
DeliveredOnReply(e, m) ==
  IF exec[e].pc = "sent" /\ sockets[exec[e].socket] = "open"
  THEN LET x == Received(exec[e], m)
           done == x.reply
       IN /\ exec' = [exec EXCEPT ![e] = [x EXCEPT !.pc = IF done THEN "ok" ELSE "sent"]]
          /\ status' = IF done /\ status = "busy" THEN "idle" ELSE status
  ELSE UNCHANGED <<exec, status>>
\* A message reaches the listener if the execution still waits on an open socket;
\* it ends once it has seen both the reply and idle, in either order.
Delivered(e, m) ==
  IF exec[e].pc = "sent" /\ sockets[exec[e].socket] = "open"
  THEN LET x == Received(exec[e], m)
           done == x.reply /\ x.idle
       IN /\ exec' = [exec EXCEPT ![e] = [x EXCEPT !.pc = IF done THEN "ok" ELSE "sent"]]
          /\ status' = IF done /\ status = "busy" THEN "idle" ELSE status
  ELSE UNCHANGED <<exec, status>>

\* Wrong: only an open connection is timed.
TimeoutConnected(e) ==
  /\ exec[e].pc = "sent" /\ sockets[exec[e].socket] = "open"
  /\ Failed(e)
  /\ UNCHANGED <<restarting, wiring, link, kernel, faults>>
\* The execution gives up after its timeout, also when its connection is gone.
Timeout(e) ==
  /\ exec[e].pc = "sent"
  /\ Failed(e)
  /\ UNCHANGED <<restarting, wiring, link, kernel, faults>>

-----------------------------------------------------------------------------
\* The kernel takes the next request, then publishes on both channels.
KernelTakes ==
  /\ alive /\ requests # <<>> /\ left = NothingLeft
  /\ left' = [iopub |-> Append(Script[Head(requests)], Idle), reply |-> TRUE]
  /\ UNCHANGED <<shown, wiring, link, exec, alive, requests, published, faults>>
Publish(m, rest) ==
  LET e == Head(requests)
  IN /\ alive /\ left' = rest
     /\ published' = [published EXCEPT ![e] = IF m \in {Idle, Reply} THEN @ ELSE Append(@, m)]
     /\ requests' = IF rest = NothingLeft THEN Tail(requests) ELSE requests
     /\ Delivered(e, m)
     /\ UNCHANGED <<restarting, wiring, link, alive, faults>>
KernelPublishes ==
  left.iopub # <<>> /\ Publish(Head(left.iopub), [left EXCEPT !.iopub = Tail(@)])
KernelReplies == left.reply /\ Publish(Reply, [left EXCEPT !.reply = FALSE])

-----------------------------------------------------------------------------
\* interrupt(): the kernel stops the code it runs, which ends with an error.
Interrupt ==
  /\ registered = "yes" /\ delegate /\ kernelId /\ Fault
  /\ status' = "idle"
  /\ left' = IF left.iopub # <<>> THEN [left EXCEPT !.iopub = <<Interrupted, Idle>>] ELSE left
  /\ UNCHANGED <<restarting, wiring, link, exec, alive, requests, published>>
\* restart(): the kernel forgets its requests; nobody tells their executions.
RestartBegins ==
  /\ registered = "yes" /\ ~restarting /\ Fault
  /\ status' = "restarting" /\ restarting' = TRUE
  /\ UNCHANGED <<wiring, link, exec, kernel>>
RestartEnds ==
  /\ restarting /\ restarting' = FALSE
  /\ status' = "idle"
  /\ IF delegate /\ kernelId THEN requests' = <<>> /\ left' = NothingLeft ELSE UNCHANGED queue
  /\ UNCHANGED <<wiring, link, exec, alive, published, faults>>
RestartFails ==
  /\ restarting /\ restarting' = FALSE /\ Fault
  /\ status' = "dead"
  /\ UNCHANGED <<wiring, link, exec, kernel>>

\* The registry drops the session and shuts it down: delegate and connecting are
\* forgotten, the socket is closed; the kernel is deleted if it is known.
Shutdown ==
  /\ registered = "yes" /\ registered' = "leaving"
  /\ delegate' = FALSE /\ connecting' = FALSE
  /\ socket' = NoSocket
  /\ sockets' = IF socket # NoSocket THEN [sockets EXCEPT ![socket] = "closed"] ELSE sockets
  /\ lingering' = (Connecting # {})
  /\ UNCHANGED <<shown, attempts, kernelId, exec, kernel, faults>>
Left == /\ registered = "leaving" /\ registered' = "no"
        /\ status' = "dead" /\ kernelId' = FALSE
        /\ UNCHANGED <<restarting, delegate, connecting, attempts, lingering, socket, sockets, exec,
                       published, faults>>
\* Wrong: the kernel is left to itself.
KernelForgotten == Left /\ UNCHANGED <<alive, queue>>
KernelDeleted ==
  /\ Left
  /\ alive' = (alive /\ ~kernelId)
  /\ IF kernelId THEN requests' = <<>> /\ left' = NothingLeft ELSE UNCHANGED queue
KernelNotDeleted ==
  /\ registered = "leaving" /\ kernelId /\ Fault
  /\ registered' = "no" /\ lingering' = TRUE
  /\ UNCHANGED <<shown, delegate, connecting, attempts, link, exec, kernel>>

-----------------------------------------------------------------------------
Executing(e) ==
  \/ ExecuteWithoutRuntime(e) \/ ExecuteWithoutKernel(e) \/ ExecuteConnected(e)
  \/ KernelPosted(e) \/ PostFails(e) \/ SocketOpens(e) \/ SocketFails(e) \/ Timeout(e)
Next ==
  \/ \E e \in Executions : Executing(e)
  \/ RuntimeReady \/ RuntimeFails
  \/ \E k \in DOMAIN sockets : SocketDrops(k)
  \/ KernelTakes \/ KernelPublishes \/ KernelReplies
  \/ Interrupt \/ RestartBegins \/ RestartEnds \/ RestartFails
  \/ Shutdown \/ KernelDeleted \/ KernelNotDeleted

\* The runtime poll has a deadline, requests are answered, a socket opens or fails,
\* and timers fire.  Nothing is assumed of the user and of the kernel.
Fairness == /\ WF_vars(RuntimeReady \/ RuntimeFails)
            /\ \A e \in Executions :
                 /\ WF_vars(KernelPosted(e) \/ PostFails(e))
                 /\ WF_vars(SocketOpens(e) \/ SocketFails(e))
                 /\ WF_vars(Timeout(e))
Spec == Init /\ [][Next]_vars /\ Fairness

-----------------------------------------------------------------------------
\* The types of the variables; one wait for the runtime serves all executions.
TypeOK ==
  /\ status \in {"idle", "busy", "restarting", "dead"} /\ restarting \in BOOLEAN
  /\ registered \in {"yes", "leaving", "no"}
  /\ {delegate, connecting, lingering, kernelId, alive} \subseteq BOOLEAN /\ attempts \in 0..1
  /\ sockets \in Seq({"connecting", "open", "closed"}) /\ socket \in 0..Len(sockets)
  /\ \A e \in Executions :
       /\ exec[e].pc \in {"new", "runtime", "post", "opening", "sent", "ok", "failed"}
       /\ exec[e].socket \in 0..Len(sockets)
       /\ Len(exec[e].ids) = Len(exec[e].outputs)
  /\ requests \in Seq(Executions) /\ faults \in 0..MaxFaults

\* What a sequence of messages shows, said without processing it in order: outputs
\* after the last clearing (one with "wait" counts once an output follows it); an
\* update of something shown takes its place, the last update of it wins.
Outs(s) == {i \in DOMAIN s : ~IsClear(s[i])}
Cleared(s) == {i \in DOMAIN s : \/ s[i].type = "clear"
                                \/ s[i].type = "clearWait" /\ (\E j \in Outs(s) : j > i)}
Kept(s) == {i \in Outs(s) : \A c \in Cleared(s) : i > c}
Places(s) == {i \in Kept(s) : s[i].type = "update" =>
                \/ IdOf(s[i]) = 0
                \/ ~(\E j \in Kept(s) : j < i /\ IdOf(s[j]) = IdOf(s[i]))}
Updates(s, p) == {j \in Kept(s) \ Places(s) :
                    /\ j > p /\ IdOf(s[j]) = IdOf(s[p])
                    /\ ~(\E q \in Places(s) : p < q /\ q < j /\ IdOf(s[q]) = IdOf(s[p]))}
Content(s, p) == s[Max({p} \union Updates(s, p))]
Rendered(s) ==
  LET n     == Cardinality(Places(s))
      order == CHOOSE f \in [1..n -> Places(s)] : \A i, j \in 1..n : i < j => f[i] < f[j]
  IN [i \in 1..n |-> Content(s, order[i])]

\* An execution that ends well carries exactly what the kernel published for it,
\* whichever of reply and idle came first, whatever ran before it on the same
\* socket, and whatever was lost, interrupted or restarted.
ResultIsWhole ==
  \A e \in Executions : exec[e].pc = "ok" =>
    exec[e].outputs = Rendered(published[e]) /\ e \notin Range(requests)

\* The session never goes on showing busy when nothing is being executed.
BusyIsTrue == status = "busy" => InFlight # {}

\* A session that was shut down leaves no kernel and no current socket behind, unless
\* executions were still connecting then or the kernel could not be deleted.  (A
\* socket that was replaced before it opened is never closed by anyone.)
NothingLeftBehind ==
  registered = "no" /\ ~lingering => ~alive /\ ~delegate /\ socket = NoSocket

\* Every execution ends, with a result or an error: also when the connection drops,
\* the kernel restarts or the session is shut down under it.
ExecutionsEnd == \A e \in Executions : (e \in InFlight) ~> (exec[e].pc \in {"ok", "failed"})
=============================================================================

---------------------------- MODULE KernelGateway ----------------------------
(***************************************************************************)
(* How the runtime gateway (runtime-gateway/app/main.py) keeps one kernel  *)
(* per notebook: POST api/kernels under a per-notebook creation guard, the *)
(* table of known kernels, and DELETE api/kernels/<id>.                    *)
(*                                                                         *)
(* The gateway is one asyncio event loop: a step runs from one await that  *)
(* really waits to the next.  kernel_lock is held over no such await, so   *)
(* it is never contended and is left out.  One user and one runtime stand  *)
(* for all: they are part of every table's key.                            *)
(***************************************************************************)
EXTENDS Naturals, Sequences, FiniteSets, SequencesExt

CONSTANTS
  Notebooks,   \* values of x-lumen-notebook-id
  Kernels,     \* the kernel ids Jupyter may produce (bounds the run)
  Tasks,       \* request tasks of the event loop
  Guards,      \* KernelCreationGuard objects
  NoNotebook, NoKernel, NoGuard,
  Faults       \* which failures the environment may produce

ASSUME NotebookAssumption == NoNotebook \notin Notebooks
ASSUME KernelAssumption   == NoKernel \notin Kernels
ASSUME GuardAssumption    == NoGuard \notin Guards
ASSUME FaultsAssumption   == Faults \subseteq {"upstream", "cancel"}

VARIABLES
  table,    \* kernel_creation_guards
  guards,   \* the guard objects: reference count, asyncio.Lock and its waiters
  mapped,   \* kernel_by_notebook
  kernels,  \* Jupyter's kernels, and the notebook each was started for
  told,     \* history: kernel ids that clients were answered with
  astray,   \* history: kernels of which Jupyter's answer did not reach the gateway
  tasks     \* state of each task

vars == <<table, guards, mapped, kernels, told, astray, tasks>>

-----------------------------------------------------------------------------
(* Records and states *)

Guard == [references : Nat, locked : BOOLEAN, waiters : Seq(Tasks)]

FreshGuard == [references |-> 0, locked |-> FALSE, waiters |-> <<>>]

Kernel == [state : {"unborn", "live", "dead"}, notebook : Notebooks \cup {NoNotebook}]

Unborn == [state |-> "unborn", notebook |-> NoNotebook]

CreateSteps == {"post", "waiting", "upstream", "store", "release"}

Steps == {"idle", "delete", "drop"} \cup CreateSteps

Task ==
  [pc       : Steps,
   notebook : Notebooks \cup {NoNotebook},
   guard    : Guards \cup {NoGuard},
   kernel   : Kernels \cup {NoKernel}]

Idle == [pc |-> "idle", notebook |-> NoNotebook, guard |-> NoGuard, kernel |-> NoKernel]

At(t, step) == tasks[t].pc = step

GoTo(t, step) == tasks' = [tasks EXCEPT ![t].pc = step]

Finish(t) == tasks' = [tasks EXCEPT ![t] = Idle]

-----------------------------------------------------------------------------
(* The creation guard *)

InUse(g) == \/ \E n \in Notebooks : table[n] = g
            \/ \E t \in Tasks : tasks[t].guard = g

\* references -= 1, and the last user removes the guard from the table.
Drop(g, n, entry) ==
  /\ guards' = [guards EXCEPT ![g] = entry]
  /\ table' = [table EXCEPT ![n] = IF entry.references = 0 /\ @ = g THEN NoGuard ELSE @]

Less(g) == [guards[g] EXCEPT !.references = @ - 1]

\* asyncio.Lock: a free lock is taken at once unless others wait for it.
Free(g) == ~guards[g].locked /\ guards[g].waiters = <<>>

IsWoken(t) ==
  LET g == tasks[t].guard IN
  /\ At(t, "waiting")
  /\ ~guards[g].locked /\ Head(guards[g].waiters) = t

\* The guard after task t asked for it: t has the lock, or waits at the end.
Join(guard, t, free) ==
  [references |-> guard.references + 1,
   locked     |-> guard.locked \/ free,
   waiters    |-> IF free THEN <<>> ELSE Append(guard.waiters, t)]

-----------------------------------------------------------------------------
(* POST api/kernels *)

Post(t, n) ==
  /\ At(t, "idle")
  /\ tasks' = [tasks EXCEPT ![t] = [Idle EXCEPT !.pc = "post", !.notebook = n]]
  /\ UNCHANGED <<table, guards, mapped, kernels, told, astray>>

\* The runtime service refuses the connection: 404, 409 or 502.
Unconnected(t) ==
  /\ tasks[t].pc \in {"post", "delete"}
  /\ Finish(t)
  /\ UNCHANGED <<table, guards, mapped, kernels, told, astray>>

\* acquire_kernel_creation_guard, as far as the lock has to be waited for.
Acquire(t) ==
  /\ At(t, "post")
  /\ LET n == tasks[t].notebook IN
       \E g \in IF table[n] = NoGuard THEN {x \in Guards : ~InUse(x)} ELSE {table[n]} :
         LET guard == IF table[n] = NoGuard THEN FreshGuard ELSE guards[g]
             free  == ~guard.locked /\ guard.waiters = <<>> IN
         /\ ~(free /\ mapped[n] # NoKernel)
         /\ table' = [table EXCEPT ![n] = g]
         /\ guards' = [guards EXCEPT ![g] = Join(guard, t, free)]
         /\ tasks' = [tasks EXCEPT ![t].guard = g,
                                   ![t].pc = IF free THEN "upstream" ELSE "waiting"]
  /\ UNCHANGED <<mapped, kernels, told, astray>>

\* The lock is free and the notebook has a kernel: guard taken, kernel found,
\* guard released, without an await that waits.
Reuse(t) ==
  /\ At(t, "post")
  /\ LET n == tasks[t].notebook IN
       /\ mapped[n] # NoKernel
       /\ table[n] # NoGuard => Free(table[n])
       /\ told' = told \cup {mapped[n]}
  /\ Finish(t)
  /\ UNCHANGED <<table, guards, mapped, kernels, astray>>

WakeBlind(t) ==  \* wrong: the table is looked up before waiting only
  /\ IsWoken(t)
  /\ LET g == tasks[t].guard IN
       guards' = [guards EXCEPT ![g].locked = TRUE, ![g].waiters = Tail(@)]
  /\ GoTo(t, "upstream")
  /\ UNCHANGED <<table, mapped, kernels, told, astray>>

\* The lock was released and this task waited longest.
Wake(t) ==
  /\ IsWoken(t)
  /\ LET n == tasks[t].notebook
         g == tasks[t].guard IN
       IF mapped[n] = NoKernel
         THEN /\ guards' = [guards EXCEPT ![g].locked = TRUE, ![g].waiters = Tail(@)]
              /\ GoTo(t, "upstream")
              /\ UNCHANGED <<table, told>>
         ELSE /\ Drop(g, n, [Less(g) EXCEPT !.waiters = Tail(@)])
              /\ told' = told \cup {mapped[n]}
              /\ Finish(t)
  /\ UNCHANGED <<mapped, kernels, astray>>

Start(k, n) == kernels' = [kernels EXCEPT ![k] = [state |-> "live", notebook |-> n]]

Strays(k) == astray' = astray \cup {k}

\* Jupyter starts a kernel.  The request may fail, before or after it did, and so
\* may its answer; a kernel whose answer is lost is known to nobody.  An instance
\* out of ids (the bound Kernels) fails.
Upstream(t) ==
  /\ At(t, "upstream")
  /\ \/ \E k \in Kernels :
          /\ kernels[k] = Unborn
          /\ Start(k, tasks[t].notebook)
          /\ \/ /\ tasks' = [tasks EXCEPT ![t].pc = "store", ![t].kernel = k]
                /\ UNCHANGED astray
             \/ /\ "upstream" \in Faults
                /\ GoTo(t, "release")
                /\ Strays(k)
     \/ /\ "upstream" \in Faults \/ \A k \in Kernels : kernels[k] # Unborn
        /\ GoTo(t, "release")
        /\ UNCHANGED <<kernels, astray>>
  /\ UNCHANGED <<table, guards, mapped, told>>

StoreKernel(t) ==
  /\ At(t, "store")
  /\ mapped' = [mapped EXCEPT ![tasks[t].notebook] = tasks[t].kernel]
  /\ GoTo(t, "release")
  /\ UNCHANGED <<table, guards, kernels, told, astray>>

ReleaseHeld(t) ==  \* wrong: the lock is not released
  /\ At(t, "release")
  /\ Drop(tasks[t].guard, tasks[t].notebook, Less(tasks[t].guard))
  /\ told' = told \cup ({tasks[t].kernel} \ {NoKernel})
  /\ Finish(t)
  /\ UNCHANGED <<mapped, kernels, astray>>

\* The finally clause: release_kernel_creation_guard, and the answer.
Release(t) ==
  /\ At(t, "release")
  /\ LET g == tasks[t].guard IN
       Drop(g, tasks[t].notebook, [Less(g) EXCEPT !.locked = FALSE])
  /\ told' = told \cup ({tasks[t].kernel} \ {NoKernel})
  /\ Finish(t)
  /\ UNCHANGED <<mapped, kernels, astray>>

CancelForgetful(t) ==  \* wrong: a cancelled waiter keeps its reference
  /\ "cancel" \in Faults
  /\ tasks[t].pc \in {"waiting", "upstream", "store"}
  /\ LET g == tasks[t].guard IN
       IF At(t, "waiting")
         THEN /\ guards' = [guards EXCEPT ![g].waiters = RemoveFirst(@, t)]
              /\ Finish(t)
         ELSE /\ tasks' = [tasks EXCEPT ![t].pc = "release", ![t].kernel = NoKernel]
              /\ UNCHANGED guards
  /\ IF At(t, "store") THEN Strays(tasks[t].kernel) ELSE UNCHANGED astray
  /\ UNCHANGED <<table, mapped, kernels, told>>

\* The task is cancelled at an await.  A waiter gives its reference back; the
\* holder's finally clause still runs.
Cancel(t) ==
  /\ "cancel" \in Faults
  /\ tasks[t].pc \in {"waiting", "upstream", "store"}
  /\ LET g == tasks[t].guard IN
       IF At(t, "waiting")
         THEN /\ Drop(g, tasks[t].notebook,
                      [Less(g) EXCEPT !.waiters = RemoveFirst(@, t)])
              /\ Finish(t)
         ELSE /\ tasks' = [tasks EXCEPT ![t].pc = "release", ![t].kernel = NoKernel]
              /\ UNCHANGED <<table, guards>>
  /\ IF At(t, "store") THEN Strays(tasks[t].kernel) ELSE UNCHANGED astray
  /\ UNCHANGED <<mapped, kernels, told>>

-----------------------------------------------------------------------------
(* DELETE api/kernels/<id>: clients ask for ids they were answered with *)

Delete(t, k) ==
  /\ At(t, "idle")
  /\ k \in told
  /\ tasks' = [tasks EXCEPT ![t] = [Idle EXCEPT !.pc = "delete", !.kernel = k]]
  /\ UNCHANGED <<table, guards, mapped, kernels, told, astray>>

Stop(k) == kernels' = [kernels EXCEPT ![k].state = "dead"]

\* Whatever status Jupyter answers with, the mapping is dropped next; without an
\* answer it is not.
DeleteUpstream(t) ==
  /\ At(t, "delete")
  /\ \/ Stop(tasks[t].kernel) /\ GoTo(t, "drop") /\ UNCHANGED astray
     \/ "upstream" \in Faults /\ GoTo(t, "drop") /\ UNCHANGED kernels /\ Strays(tasks[t].kernel)
     \/ "upstream" \in Faults /\ Finish(t) /\ Stop(tasks[t].kernel) /\ Strays(tasks[t].kernel)
     \/ "upstream" \in Faults /\ Finish(t) /\ UNCHANGED <<kernels, astray>>
  /\ UNCHANGED <<table, guards, mapped, told>>

DropMappingNever(t) ==  \* wrong: the table is not told of the DELETE
  /\ At(t, "drop")
  /\ Finish(t)
  /\ UNCHANGED <<table, guards, mapped, kernels, told, astray>>

DropMapping(t) ==
  /\ At(t, "drop")
  /\ mapped' = [n \in Notebooks |-> IF mapped[n] = tasks[t].kernel THEN NoKernel ELSE mapped[n]]
  /\ Finish(t)
  /\ UNCHANGED <<table, guards, kernels, told, astray>>

-----------------------------------------------------------------------------
Init ==
  /\ table = [n \in Notebooks |-> NoGuard]
  /\ guards = [g \in Guards |-> FreshGuard]
  /\ mapped = [n \in Notebooks |-> NoKernel]
  /\ kernels = [k \in Kernels |-> Unborn]
  /\ told = {}
  /\ astray = {}
  /\ tasks = [t \in Tasks |-> Idle]

TaskStep(t) ==
  \/ Unconnected(t) \/ Acquire(t) \/ Reuse(t) \/ Wake(t) \/ Upstream(t)
  \/ StoreKernel(t) \/ Release(t) \/ DeleteUpstream(t) \/ DropMapping(t)

Next ==
  \E t \in Tasks :
    \/ \E n \in Notebooks : Post(t, n)
    \/ \E k \in Kernels : Delete(t, k)
    \/ TaskStep(t)
    \/ Cancel(t)

Spec == Init /\ [][Next]_vars

\* The event loop runs every task that is ready, and an upstream request ends:
\* aiohttp gives up after its default total timeout.
Fairness == \A t \in Tasks : WF_vars(TaskStep(t))

FairSpec == Spec /\ Fairness

-----------------------------------------------------------------------------
(* Properties *)

TypeOK ==
  /\ table \in [Notebooks -> Guards \cup {NoGuard}]
  /\ guards \in [Guards -> Guard]
  /\ mapped \in [Notebooks -> Kernels \cup {NoKernel}]
  /\ kernels \in [Kernels -> Kernel]
  /\ told \subseteq Kernels
  /\ astray \subseteq Kernels
  /\ tasks \in [Tasks -> Task]

Users(g) == {t \in Tasks : tasks[t].guard = g}

\* The reference count is the number of tasks that hold the guard or wait for
\* it, all of one notebook; and the guard is in the table exactly as long, so
\* two tasks of a notebook never meet at different guards.
GuardsAreCounted ==
  \A g \in Guards :
    /\ (\E n \in Notebooks : table[n] = g) \/ Users(g) # {} =>
         guards[g].references = Cardinality(Users(g))
    /\ \A t \in Users(g) : table[tasks[t].notebook] = g
    /\ (\E n \in Notebooks : table[n] = g) => Users(g) # {}

LiveKernels(n) == {k \in Kernels : kernels[k] = [state |-> "live", notebook |-> n]}

\* One kernel per notebook, whatever requests fail or are cancelled: only a kernel
\* that Jupyter started, or kept, without the gateway hearing of it is not counted.
OneKernelPerNotebook ==
  \A n \in Notebooks : Cardinality(LiveKernels(n) \ astray) <= 1

\* README.md: one kernel per notebook.
OneKernelAtAll ==
  \A n \in Notebooks : Cardinality(LiveKernels(n)) <= 1

\* A kernel the gateway offers for reuse was started for that notebook and is
\* alive, unless its DELETE is just being answered or the answer was lost.
MappedIsAlive ==
  \A n \in Notebooks : mapped[n] # NoKernel =>
    /\ kernels[mapped[n]].notebook = n
    /\ \/ kernels[mapped[n]].state = "live"
       \/ mapped[n] \in astray
       \/ \E t \in Tasks : At(t, "drop") /\ tasks[t].kernel = mapped[n]

\* No wake-up is lost: as long as a task waits for a guard, another one holds it
\* and will release it, or the one that waited longest has been woken, also when
\* that one is cancelled before it runs.
NoLostWakeUp ==
  \A t \in Tasks : At(t, "waiting") =>
    \E u \in Users(tasks[t].guard) : tasks[u].pc \in {"upstream", "store", "release"} \/ IsWoken(u)

\* Every task that waits for a guard gets it or gives up, also when holders fail
\* or are cancelled: the lock is never lost.
WaitersAreServed ==
  \A t \in Tasks : At(t, "waiting") ~> ~At(t, "waiting")

==============================================================================

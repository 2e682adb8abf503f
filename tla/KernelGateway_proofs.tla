------------------------- MODULE KernelGateway_proofs -------------------------
(***************************************************************************)
(* Proofs about KernelGateway for any notebooks, kernels, tasks and guards *)
(* and any faults.                                                         *)
(*                                                                         *)
(* The argument has two halves.  Guards: a task with a guard holds it or    *)
(* waits for it, the table has that guard for the task's notebook, and the  *)
(* count is the number of these tasks; a guard is locked exactly while one  *)
(* task, the holder, is between its look at the table and its release.      *)
(* Kernels: a live kernel the gateway has heard of is in the table or in    *)
(* the hands of the holder of its notebook's guard, who found the table     *)
(* empty; and a kernel leaves the table only when it is dead or astray.     *)
(***************************************************************************)
EXTENDS KernelGateway, FiniteSetTheorems, SequenceTheorems, WellFoundedInduction, TLAPS

HolderSteps == {"upstream", "store", "release"}
GuardSteps == HolderSteps \cup {"waiting"}

\* A guard object; what its queue of waiters holds does not matter here.
IsEntry(e) ==
  \E R, W : e \in [references: R, locked: BOOLEAN, waiters: W]

TypeInv ==
  /\ table \in [Notebooks -> Guards \cup {NoGuard}]
  /\ guards = [g \in Guards |-> guards[g]] /\ \A g \in Guards : IsEntry(guards[g])
  /\ mapped \in [Notebooks -> Kernels \cup {NoKernel}]
  /\ kernels \in [Kernels -> Kernel]
  /\ told \subseteq Kernels
  /\ tasks \in [Tasks -> Task]
  /\ \A t \in Tasks : tasks[t].pc \in CreateSteps => tasks[t].notebook \in Notebooks
  /\ \A t \in Tasks : tasks[t].pc \in GuardSteps <=> tasks[t].guard # NoGuard

IsHolder(t, g) == tasks[t].guard = g /\ tasks[t].pc \in HolderSteps

Count(g) == /\ IsFiniteSet(Users(g))
            /\ guards[g].references = Cardinality(Users(g))

GuardInv ==
  /\ \A t \in Tasks : tasks[t].guard # NoGuard => table[tasks[t].notebook] = tasks[t].guard
  /\ \A n \in Notebooks : table[n] # NoGuard => Users(table[n]) # {}
  /\ \A n, m \in Notebooks : table[n] = table[m] /\ table[n] # NoGuard => n = m
  /\ \A g \in Guards : Count(g)
  /\ \A g \in Guards : guards[g].locked <=> \E t \in Tasks : IsHolder(t, g)
  /\ \A g \in Guards : \A t, u \in Tasks : IsHolder(t, g) /\ IsHolder(u, g) => t = u

Born(k) == kernels[k] # Unborn

\* The kernel t was answered with is alive, and known to no table, client or task yet.
InHands(t) ==
  LET k == tasks[t].kernel IN
  /\ k \in Kernels /\ kernels[k] = [state |-> "live", notebook |-> tasks[t].notebook]
  /\ k \notin told
  /\ \A n \in Notebooks : mapped[n] # k
  /\ \A u \in Tasks : u # t => tasks[u].kernel # k

KernelInv ==
  /\ \A t \in Tasks : tasks[t].pc \in {"upstream", "store"} => mapped[tasks[t].notebook] = NoKernel
  /\ \A t \in Tasks : At(t, "store") => InHands(t)
  /\ \A k \in told : Born(k)
  /\ \A n \in Notebooks : mapped[n] # NoKernel => Born(mapped[n])
  /\ \A t \in Tasks : tasks[t].kernel # NoKernel => Born(tasks[t].kernel)
  /\ \A t \in Tasks : tasks[t].pc \in {"delete", "drop"} => tasks[t].kernel \in told
  /\ \A t \in Tasks : At(t, "drop") =>
       kernels[tasks[t].kernel].state = "dead" \/ tasks[t].kernel \in astray
  /\ \A k \in Kernels \ astray : kernels[k].state = "live" =>
       \/ kernels[k].notebook \in Notebooks /\ mapped[kernels[k].notebook] = k
       \/ \E t \in Tasks : At(t, "store") /\ tasks[t].kernel = k
  /\ MappedIsAlive

IInv == TypeInv /\ GuardInv /\ KernelInv

-----------------------------------------------------------------------------
(* Types                                                                    *)

\* The other tasks stay as they are.
Others(t) == \A u \in Tasks : u # t => tasks'[u] = tasks[u]

LEMMA Goes ==
  ASSUME TypeInv, NEW t \in Tasks, NEW step \in Steps, GoTo(t, step)
  PROVE  /\ tasks' \in [Tasks -> Task] /\ Others(t)
         /\ tasks'[t].pc = step /\ tasks'[t].guard = tasks[t].guard
         /\ tasks'[t].notebook = tasks[t].notebook /\ tasks'[t].kernel = tasks[t].kernel
BY DEF TypeInv, GoTo, Task, Others

LEMMA Finishes ==
  ASSUME TypeInv, NEW t \in Tasks, Finish(t)
  PROVE  /\ tasks' \in [Tasks -> Task] /\ Others(t) /\ tasks'[t] = Idle
BY DEF TypeInv, Finish, Task, Idle, Steps, Others

\* The rest of the type follows for the task that moved.
LEMMA TasksTyped ==
  ASSUME TypeInv, NEW t \in Tasks, Others(t),
         tasks'[t].pc \in CreateSteps => tasks'[t].notebook \in Notebooks,
         tasks'[t].pc \in GuardSteps <=> tasks'[t].guard # NoGuard
  PROVE  /\ \A u \in Tasks : tasks'[u].pc \in CreateSteps => tasks'[u].notebook \in Notebooks
         /\ \A u \in Tasks : tasks'[u].pc \in GuardSteps <=> tasks'[u].guard # NoGuard
BY DEF TypeInv, Others

\* What references -= 1, unlocking and the queue make of a guard.
LEMMA EntryLocked ==
  ASSUME NEW e, IsEntry(e)
  PROVE  e.locked \in BOOLEAN
BY DEF IsEntry

LEMMA LessIsEntry ==
  ASSUME NEW g, IsEntry(guards[g])
  PROVE  /\ IsEntry(Less(g)) /\ Less(g).references = guards[g].references - 1
         /\ Less(g).locked = guards[g].locked /\ Less(g).waiters = guards[g].waiters
<1>1. PICK R, W : guards[g] \in [references: R, locked: BOOLEAN, waiters: W]
  BY DEF IsEntry
<1>2. /\ Less(g) \in [references: R \cup {guards[g].references - 1}, locked: BOOLEAN, waiters: W]
      /\ Less(g).references = guards[g].references - 1
      /\ Less(g).locked = guards[g].locked /\ Less(g).waiters = guards[g].waiters
  BY <1>1 DEF Less
<1> QED BY <1>2, Zenon DEF IsEntry

LEMMA EntryUnlocked ==
  ASSUME NEW e, IsEntry(e)
  PROVE  LET f == [e EXCEPT !.locked = FALSE] IN
         /\ IsEntry(f) /\ f.references = e.references /\ f.locked = FALSE
         /\ f.waiters = e.waiters
<1>1. PICK R, W : e \in [references: R, locked: BOOLEAN, waiters: W]
  BY DEF IsEntry
<1>2. LET f == [e EXCEPT !.locked = FALSE] IN
        /\ f \in [references: R, locked: BOOLEAN, waiters: W]
        /\ f.references = e.references /\ f.locked = FALSE /\ f.waiters = e.waiters
  BY <1>1
<1> QED BY <1>2, Zenon DEF IsEntry

LEMMA EntryQueue ==
  ASSUME NEW e, IsEntry(e), NEW w
  PROVE  LET f == [e EXCEPT !.waiters = w] IN
         /\ IsEntry(f) /\ f.references = e.references /\ f.locked = e.locked
         /\ f.waiters = w
<1>1. PICK R, W : e \in [references: R, locked: BOOLEAN, waiters: W]
  BY DEF IsEntry
<1>2. LET f == [e EXCEPT !.waiters = w] IN
        /\ f \in [references: R, locked: BOOLEAN, waiters: W \cup {w}]
        /\ f.references = e.references /\ f.locked = e.locked /\ f.waiters = w
  BY <1>1
<1> QED BY <1>2, Zenon DEF IsEntry

LEMMA GuardOfTask ==
  ASSUME TypeInv, GuardInv, NEW t \in Tasks, tasks[t].pc \in GuardSteps
  PROVE  /\ tasks[t].guard \in Guards /\ tasks[t].notebook \in Notebooks
         /\ table[tasks[t].notebook] = tasks[t].guard
         /\ tasks[t].guard # NoGuard /\ t \in Users(tasks[t].guard)
<1>1. tasks[t] \in Task /\ tasks[t].guard # NoGuard /\ tasks[t].pc \in CreateSteps
  BY DEF TypeInv, GuardSteps, HolderSteps, CreateSteps
<1> QED BY <1>1 DEF TypeInv, Task, GuardInv, Users

-----------------------------------------------------------------------------
(* Guards                                                                   *)

\* No task takes, gives up, locks or unlocks a guard.
LEMMA GuardsStay ==
  ASSUME GuardInv, UNCHANGED <<table, guards>>,
         \A u \in Tasks :
           /\ tasks'[u].guard = tasks[u].guard
           /\ tasks[u].guard # NoGuard => /\ tasks'[u].notebook = tasks[u].notebook
                                          /\ tasks'[u].pc \in HolderSteps
                                             <=> tasks[u].pc \in HolderSteps
  PROVE  GuardInv'
<1>1. \A g : Users(g)' = Users(g)
  BY DEF Users
<1>2. \A g \in Guards, u \in Tasks : IsHolder(u, g)' <=> IsHolder(u, g)
  BY GuardAssumption DEF IsHolder
<1>3. \A g \in Guards : Count(g)'
  BY <1>1 DEF GuardInv, Count
<1>4. \A n \in Notebooks : table'[n] # NoGuard => Users(table[n])' # {}
  BY <1>1 DEF GuardInv
<1> QED BY <1>2, <1>3, <1>4 DEF GuardInv

\* Task t gives guard g up; entry is what becomes of the guard.
LEMMA GuardLeft ==
  ASSUME TypeInv, GuardInv, NEW t \in Tasks, tasks[t].pc \in GuardSteps,
         NEW g, g = tasks[t].guard, NEW n, n = tasks[t].notebook, NEW entry,
         entry.references = guards[g].references - 1,
         entry.locked <=> \E u \in Tasks : u # t /\ IsHolder(u, g),
         Drop(g, n, entry), Others(t), tasks'[t] = Idle
  PROVE  GuardInv' /\ table' \in [Notebooks -> Guards \cup {NoGuard}]
<1>1. g \in Guards /\ n \in Notebooks /\ table[n] = g /\ g # NoGuard /\ t \in Users(g)
  BY GuardOfTask
<1>2. /\ guards' = [guards EXCEPT ![g] = entry]
      /\ table' = [table EXCEPT ![n] = IF entry.references = 0 THEN NoGuard ELSE g]
  BY <1>1 DEF Drop
<1>3. /\ table \in [Notebooks -> Guards \cup {NoGuard}] /\ DOMAIN guards = Guards
  BY DEF TypeInv
<1>4. guards'[g] = entry /\ \A h \in Guards : h # g => guards'[h] = guards[h]
  BY <1>1, <1>2, <1>3
<1>5. tasks'[t].guard = NoGuard /\ tasks'[t].pc = "idle"
  BY DEF Idle
<1>6. Users(g)' = Users(g) \ {t} /\ \A h \in Guards : h # g => Users(h)' = Users(h)
  BY <1>1, <1>5, GuardAssumption DEF Users, Others
<1>7. \A h \in Guards : \A u \in Tasks : IsHolder(u, h)' <=> u # t /\ IsHolder(u, h)
  BY <1>5, GuardAssumption DEF IsHolder, Others
<1>8. IsFiniteSet(Users(g)') /\ entry.references = Cardinality(Users(g)')
  BY <1>1, <1>6, FS_RemoveElement DEF GuardInv, Count
<1>9. \A h \in Guards : Count(h)'
  BY <1>4, <1>6, <1>8 DEF Count, GuardInv
<1>10. entry.references = 0 <=> Users(g)' = {}
  BY <1>8, FS_EmptySet
<1>11. ASSUME NEW u \in Tasks, tasks'[u].guard # NoGuard
       PROVE  table'[tasks'[u].notebook] = tasks'[u].guard
  <2>1. u # t /\ tasks'[u] = tasks[u]
    BY <1>5, <1>11 DEF Others
  <2>2. tasks[u].notebook \in Notebooks /\ table[tasks[u].notebook] = tasks[u].guard
    BY <1>11, <2>1, GuardOfTask DEF TypeInv
  <2>3. tasks[u].guard = g => u \in Users(g)'
    BY <2>1, <1>6 DEF Users
  <2> QED BY <1>1, <1>2, <1>3, <1>10, <2>1, <2>2, <2>3
<1>12. ASSUME NEW m \in Notebooks, table'[m] # NoGuard
       PROVE  table'[m] = table[m] /\ \A h : h = table'[m] => Users(h)' # {}
  <2>1. CASE m = n
    <3>1. entry.references # 0 /\ table'[m] = g
      BY <1>2, <1>3, <1>12, <2>1
    <3> QED BY <1>1, <1>10, <2>1, <3>1
  <2>2. CASE m # n
    <3>1. table'[m] = table[m] /\ table[m] \in Guards
      BY <1>2, <1>3, <1>12, <2>2
    <3>2. table[m] # g
      BY <1>1, <2>2 DEF GuardInv
    <3>3. Users(table[m]) # {}
      BY <1>12, <3>1 DEF GuardInv
    <3> QED BY <1>6, <3>1, <3>2, <3>3
  <2> QED BY <2>1, <2>2
<1>13. table' \in [Notebooks -> Guards \cup {NoGuard}]
  BY <1>1, <1>2, <1>3
<1>14. \A h \in Guards : guards'[h].locked <=> \E u \in Tasks : IsHolder(u, h)'
  <2>1. ASSUME NEW h \in Guards, h # g
        PROVE  guards'[h].locked <=> \E u \in Tasks : IsHolder(u, h)'
    <3>1. ~IsHolder(t, h)
      BY <2>1 DEF IsHolder
    <3> QED BY <1>4, <1>7, <2>1, <3>1 DEF GuardInv
  <2>2. guards'[g].locked <=> \E u \in Tasks : IsHolder(u, g)'
    BY <1>1, <1>4, <1>7
  <2> QED BY <2>1, <2>2
<1>15. \A h \in Guards : \A u, w \in Tasks : IsHolder(u, h)' /\ IsHolder(w, h)' => u = w
  BY <1>7 DEF GuardInv
<1>16. \A m, o \in Notebooks : table'[m] = table'[o] /\ table'[m] # NoGuard => m = o
  BY <1>12 DEF GuardInv
<1> QED BY <1>9, <1>11, <1>12, <1>13, <1>14, <1>15, <1>16 DEF GuardInv

\* Acquire: a new user, who is the holder when the guard is free.
LEMMA AcquireKeepsGuards ==
  ASSUME TypeInv, GuardInv, NEW t \in Tasks, Acquire(t)
  PROVE  TypeInv' /\ GuardInv'
<1>1. /\ tasks[t].pc = "post" /\ tasks[t] \in Task /\ tasks[t].notebook \in Notebooks
      /\ tasks[t].guard = NoGuard
  BY DEF Acquire, At, TypeInv, CreateSteps, GuardSteps, HolderSteps
<1>2. PICK n : n = tasks[t].notebook
  OBVIOUS
<1>3. PICK g \in IF table[n] = NoGuard THEN {x \in Guards : ~InUse(x)} ELSE {table[n]} :
        LET guard == IF table[n] = NoGuard THEN FreshGuard ELSE guards[g]
            free  == ~guard.locked /\ guard.waiters = <<>> IN
        /\ table' = [table EXCEPT ![n] = g]
        /\ guards' = [guards EXCEPT ![g] = Join(guard, t, free)]
        /\ tasks' = [tasks EXCEPT ![t].guard = g,
                                  ![t].pc = IF free THEN "upstream" ELSE "waiting"]
  BY <1>2 DEF Acquire
<1>4. PICK guard : guard = IF table[n] = NoGuard THEN FreshGuard ELSE guards[g]
  OBVIOUS
<1>5. PICK free \in BOOLEAN : free <=> (~guard.locked /\ guard.waiters = <<>>)
  OBVIOUS
<1>6. /\ n \in Notebooks /\ g \in Guards /\ g # NoGuard
      /\ table[n] = NoGuard => ~InUse(g)
      /\ table[n] # NoGuard => table[n] = g
  BY <1>1, <1>2, <1>3, GuardAssumption DEF TypeInv
<1>7. /\ table' = [table EXCEPT ![n] = g]
      /\ guards' = [guards EXCEPT ![g] = Join(guard, t, free)]
      /\ tasks' = [tasks EXCEPT ![t].guard = g,
                                ![t].pc = IF free THEN "upstream" ELSE "waiting"]
  BY <1>3, <1>4, <1>5
<1>8. /\ tasks' \in [Tasks -> Task] /\ Others(t)
      /\ tasks'[t].guard = g /\ tasks'[t].notebook = n
      /\ tasks'[t].pc = IF free THEN "upstream" ELSE "waiting"
  BY <1>1, <1>2, <1>6, <1>7 DEF TypeInv, Task, Steps, CreateSteps, Others
<1>9. /\ guard.locked \in BOOLEAN /\ guard.references = Cardinality(Users(g))
      /\ guard.locked <=> \E u \in Tasks : IsHolder(u, g)
      /\ IsFiniteSet(Users(g))
  <2>1. CASE table[n] = NoGuard
    <3>1. Users(g) = {}
      BY <1>6, <2>1 DEF InUse, Users
    <3>2. ~ \E u \in Tasks : IsHolder(u, g)
      BY <3>1 DEF IsHolder, Users
    <3>3. guard.locked = FALSE /\ guard.references = 0
      BY <1>4, <2>1 DEF FreshGuard
    <3> QED BY <3>1, <3>2, <3>3, FS_EmptySet
  <2>2. CASE table[n] # NoGuard
    <3>1. guard = guards[g] /\ IsEntry(guards[g])
      BY <1>4, <1>6, <2>2 DEF TypeInv
    <3>2. guard.locked \in BOOLEAN
      BY <3>1, EntryLocked
    <3> QED BY <1>6, <3>1, <3>2 DEF GuardInv, Count
  <2> QED BY <2>1, <2>2
<1> DEFINE entry == Join(guard, t, free)
<1>10. /\ entry.references = guard.references + 1
       /\ entry.locked <=> guard.locked \/ free
       /\ IsEntry(entry)
  <2>1. (guard.locked \/ free) \in BOOLEAN
    BY <1>9
  <2> QED BY <2>1 DEF Join, IsEntry
<1> HIDE DEF entry
<1>11. guards'[g] = entry /\ \A h \in Guards : h # g => guards'[h] = guards[h]
  BY <1>6, <1>7 DEF TypeInv, entry
<1>12. TypeInv'
  <2>1. guards' = [h \in Guards |-> guards'[h]] /\ \A h \in Guards : IsEntry(guards'[h])
    BY <1>6, <1>7, <1>10, <1>11 DEF TypeInv, entry
  <2>2. table' \in [Notebooks -> Guards \cup {NoGuard}]
    BY <1>6, <1>7 DEF TypeInv
  <2>3. UNCHANGED <<mapped, kernels, told>>
    BY DEF Acquire
  <2>4. /\ tasks'[t].pc \in CreateSteps => tasks'[t].notebook \in Notebooks
        /\ tasks'[t].pc \in GuardSteps <=> tasks'[t].guard # NoGuard
    BY <1>6, <1>8 DEF GuardSteps, HolderSteps
  <2> QED BY <1>8, <2>1, <2>2, <2>3, <2>4, TasksTyped DEF TypeInv
<1>13. Users(g)' = Users(g) \cup {t} /\ \A h \in Guards : h # g => Users(h)' = Users(h)
  BY <1>1, <1>8, GuardAssumption DEF Users, Others
<1>14. \A h \in Guards : Count(h)'
  <2>1. IsFiniteSet(Users(g)') /\ Cardinality(Users(g)') = Cardinality(Users(g)) + 1
    <3>1. t \notin Users(g)
      BY <1>1, <1>6 DEF Users
    <3> QED BY <1>9, <1>13, <3>1, FS_AddElement
  <2> QED BY <1>9, <1>10, <1>11, <1>13, <2>1 DEF Count, GuardInv
<1>15. \A h \in Guards : \A u \in Tasks :
         IsHolder(u, h)' <=> IsHolder(u, h) \/ (h = g /\ u = t /\ free)
  BY <1>1, <1>8, GuardAssumption DEF IsHolder, Others, HolderSteps
<1>16. free => ~ \E u \in Tasks : IsHolder(u, g)
  BY <1>5, <1>9
<1>17. \A h \in Guards : guards'[h].locked <=> \E u \in Tasks : IsHolder(u, h)'
  <2>1. ASSUME NEW h \in Guards, h # g
        PROVE  guards'[h].locked <=> \E u \in Tasks : IsHolder(u, h)'
    BY <1>11, <1>15, <2>1 DEF GuardInv
  <2>2. guards'[g].locked <=> \E u \in Tasks : IsHolder(u, g)'
    BY <1>6, <1>9, <1>10, <1>11, <1>15
  <2> QED BY <2>1, <2>2
<1>18. \A h \in Guards : \A u, w \in Tasks : IsHolder(u, h)' /\ IsHolder(w, h)' => u = w
  BY <1>15, <1>16 DEF GuardInv
<1>19. \A m \in Notebooks : m # n => table'[m] = table[m] /\ table[m] # g
  <2>1. ASSUME NEW m \in Notebooks, m # n
        PROVE  table[m] # g
    <3>1. CASE table[n] = NoGuard
      BY <1>6, <2>1, <3>1 DEF InUse
    <3>2. CASE table[n] # NoGuard
      BY <1>6, <2>1, <3>2 DEF GuardInv
    <3> QED BY <3>1, <3>2
  <2> QED BY <1>7, <2>1 DEF TypeInv
<1>20. table'[n] = g
  BY <1>6, <1>7 DEF TypeInv
<1>21. \A u \in Tasks : tasks'[u].guard # NoGuard => table'[tasks'[u].notebook] = tasks'[u].guard
  <2>1. ASSUME NEW u \in Tasks, u # t, tasks'[u].guard # NoGuard
        PROVE  table'[tasks'[u].notebook] = tasks'[u].guard
    <3>1. tasks'[u] = tasks[u] /\ tasks[u].pc \in GuardSteps
      BY <1>8, <2>1 DEF Others, TypeInv
    <3>2. tasks[u].notebook \in Notebooks /\ table[tasks[u].notebook] = tasks[u].guard
      BY <3>1, GuardOfTask
    <3> QED BY <1>6, <1>19, <1>20, <2>1, <3>1, <3>2
  <2> QED BY <1>8, <1>20, <2>1
<1>22. ASSUME NEW m \in Notebooks, table'[m] # NoGuard, NEW h, h = table'[m]
       PROVE  Users(h)' # {}
  <2>1. CASE m = n
    BY <1>13, <1>20, <1>22, <2>1
  <2>2. CASE m # n
    <3>1. h = table[m] /\ h \in Guards /\ h # g /\ Users(h) # {}
      BY <1>19, <1>22, <2>2 DEF GuardInv, TypeInv
    <3> QED BY <1>13, <3>1
  <2> QED BY <2>1, <2>2
<1>23. \A m, o \in Notebooks : table'[m] = table'[o] /\ table'[m] # NoGuard => m = o
  BY <1>19, <1>20 DEF GuardInv
<1> QED BY <1>12, <1>14, <1>17, <1>18, <1>21, <1>22, <1>23 DEF GuardInv

\* The waiter that is woken up takes the lock, or gives the guard back.
LEMMA WakeKeepsGuards ==
  ASSUME TypeInv, GuardInv, NEW t \in Tasks, Wake(t)
  PROVE  TypeInv' /\ GuardInv'
<1>1. PICK g, n : g = tasks[t].guard /\ n = tasks[t].notebook
  OBVIOUS
<1>2. /\ tasks[t].pc = "waiting" /\ g \in Guards /\ n \in Notebooks /\ t \in Users(g)
      /\ ~guards[g].locked
  BY <1>1, GuardOfTask DEF Wake, IsWoken, At, GuardSteps
<1>3. ~ \E u \in Tasks : IsHolder(u, g)
  BY <1>2 DEF GuardInv
<1>4. IsEntry(guards[g]) /\ guards = [h \in Guards |-> guards[h]]
  BY <1>2 DEF TypeInv
<1>5. UNCHANGED <<mapped, kernels>>
  BY DEF Wake
<1>6. CASE mapped[n] = NoKernel
  <2> DEFINE entry == [guards[g] EXCEPT !.locked = TRUE, !.waiters = Tail(@)]
  <2>1. IsEntry(entry) /\ entry.references = guards[g].references /\ entry.locked = TRUE
    <3>1. PICK R, W : guards[g] \in [references: R, locked: BOOLEAN, waiters: W]
      BY <1>4 DEF IsEntry
    <3>2. /\ entry \in [references: R, locked: BOOLEAN,
                        waiters: W \cup {Tail(guards[g].waiters)}]
          /\ entry.references = guards[g].references /\ entry.locked = TRUE
      BY <3>1
    <3> QED BY <3>2, Zenon DEF IsEntry
  <2>2. GoTo(t, "upstream") /\ table' = table /\ told' = told
    BY <1>1, <1>6 DEF Wake
  <2>3. guards' = [guards EXCEPT ![g] = entry]
    BY <1>1, <1>2, <1>4, <1>6 DEF Wake
  <2> HIDE DEF entry
  <2>4. guards'[g] = entry /\ \A h \in Guards : h # g => guards'[h] = guards[h]
    BY <1>2, <1>4, <2>3
  <2>5. /\ tasks' \in [Tasks -> Task] /\ Others(t) /\ tasks'[t].pc = "upstream"
        /\ tasks'[t].guard = g /\ tasks'[t].notebook = n
    BY <1>1, <2>2, Goes DEF Steps, CreateSteps
  <2>6. TypeInv'
    <3>1. guards' = [h \in Guards |-> guards'[h]] /\ \A h \in Guards : IsEntry(guards'[h])
      BY <1>2, <1>4, <2>1, <2>3, <2>4 DEF TypeInv
    <3>2. g # NoGuard
      BY <1>2, GuardAssumption
    <3> QED BY <1>2, <1>5, <2>2, <2>5, <3>1, <3>2, TasksTyped DEF TypeInv, GuardSteps, HolderSteps
  <2>7. \A h : Users(h)' = Users(h)
    BY <1>1, <2>5 DEF Users, Others
  <2>8. \A h \in Guards : Count(h)'
    BY <2>1, <2>4, <2>7 DEF GuardInv, Count
  <2>9. \A h \in Guards : \A u \in Tasks : IsHolder(u, h)' <=> IsHolder(u, h) \/ (h = g /\ u = t)
    BY <1>1, <2>5 DEF IsHolder, Others, HolderSteps
  <2>10. \A h \in Guards : guards'[h].locked <=> \E u \in Tasks : IsHolder(u, h)'
    BY <1>2, <2>1, <2>4, <2>9 DEF GuardInv
  <2>11. \A h \in Guards : \A u, w \in Tasks : IsHolder(u, h)' /\ IsHolder(w, h)' => u = w
    BY <1>3, <2>9 DEF GuardInv
  <2>12. \A u \in Tasks : tasks'[u].guard # NoGuard => table'[tasks'[u].notebook] = tasks'[u].guard
    BY <1>1, <2>2, <2>5 DEF GuardInv, Others
  <2>13. \A m \in Notebooks : table'[m] # NoGuard => Users(table[m])' # {}
    BY <2>2, <2>7 DEF GuardInv
  <2> QED BY <2>2, <2>6, <2>8, <2>10, <2>11, <2>12, <2>13 DEF GuardInv
<1>7. CASE mapped[n] # NoKernel
  <2> DEFINE entry == [Less(g) EXCEPT !.waiters = Tail(@)]
  <2>1. /\ IsEntry(entry) /\ entry.references = guards[g].references - 1
        /\ entry.locked = guards[g].locked
    <3>1. /\ IsEntry(Less(g)) /\ Less(g).references = guards[g].references - 1
          /\ Less(g).locked = guards[g].locked
      BY <1>4, LessIsEntry
    <3>2. /\ IsEntry(entry) /\ entry.references = Less(g).references
          /\ entry.locked = Less(g).locked
      BY <3>1, EntryQueue, Zenon
    <3> QED BY <3>1, <3>2
  <2>2. Drop(g, n, entry) /\ Finish(t) /\ told' = told \cup {mapped[n]}
    BY <1>1, <1>7 DEF Wake
  <2> HIDE DEF entry
  <2>3. tasks' \in [Tasks -> Task] /\ Others(t) /\ tasks'[t] = Idle
    BY <2>2, Finishes
  <2>4. entry.locked <=> \E u \in Tasks : u # t /\ IsHolder(u, g)
    BY <1>2, <1>3, <2>1
  <2>5. GuardInv' /\ table' \in [Notebooks -> Guards \cup {NoGuard}]
    BY <1>1, <1>2, <2>1, <2>2, <2>3, <2>4, GuardLeft DEF GuardSteps
  <2>6. guards' = [h \in Guards |-> guards'[h]] /\ \A h \in Guards : IsEntry(guards'[h])
    BY <1>2, <1>4, <2>1, <2>2 DEF TypeInv, Drop
  <2>7. told' \subseteq Kernels
    BY <1>2, <1>7, <2>2 DEF TypeInv
  <2> QED BY <1>5, <2>3, <2>5, <2>6, <2>7, TasksTyped
          DEF TypeInv, Idle, GuardSteps, HolderSteps, CreateSteps
<1> QED BY <1>6, <1>7

\* A task that was answered or refused gives its guard back.
LEMMA GiveBackKeepsGuards ==
  ASSUME TypeInv, GuardInv, NEW t \in Tasks, Release(t) \/ (Cancel(t) /\ At(t, "waiting"))
  PROVE  TypeInv' /\ GuardInv'
<1>1. PICK g, n : g = tasks[t].guard /\ n = tasks[t].notebook
  OBVIOUS
<1>2. /\ tasks[t].pc \in {"waiting", "release"} /\ g \in Guards /\ n \in Notebooks
      /\ t \in Users(g)
  BY <1>1, GuardOfTask DEF Release, Cancel, At, GuardSteps, HolderSteps
<1>3. IsEntry(guards[g]) /\ guards = [h \in Guards |-> guards[h]]
  BY <1>2 DEF TypeInv
<1>4. \E entry : /\ Drop(g, n, entry) /\ IsEntry(entry)
                 /\ entry.references = guards[g].references - 1
                 /\ entry.locked <=> \E u \in Tasks : u # t /\ IsHolder(u, g)
  <2>1. CASE Release(t)
    <3> DEFINE entry == [Less(g) EXCEPT !.locked = FALSE]
    <3>1. Drop(g, n, entry)
      BY <1>1, <2>1 DEF Release
    <3>2. IsEntry(entry) /\ entry.references = guards[g].references - 1 /\ entry.locked = FALSE
      <4>1. /\ IsEntry(Less(g)) /\ Less(g).references = guards[g].references - 1
            /\ Less(g).locked = guards[g].locked
        BY <1>3, LessIsEntry
      <4>2. /\ IsEntry(entry) /\ entry.references = Less(g).references
            /\ entry.locked = FALSE
        BY <4>1, EntryUnlocked, Zenon
      <4> QED BY <4>1, <4>2
    <3>3. IsHolder(t, g)
      BY <1>1, <2>1 DEF Release, At, IsHolder, HolderSteps
    <3>4. ~ \E u \in Tasks : u # t /\ IsHolder(u, g)
      BY <1>2, <3>3 DEF GuardInv
    <3> QED BY <3>1, <3>2, <3>4
  <2>2. CASE Cancel(t) /\ At(t, "waiting")
    <3> DEFINE entry == [Less(g) EXCEPT !.waiters = RemoveFirst(@, t)]
    <3>1. Drop(g, n, entry)
      BY <1>1, <2>2 DEF Cancel
    <3>2. /\ IsEntry(entry) /\ entry.references = guards[g].references - 1
          /\ entry.locked = guards[g].locked
      <4>1. /\ IsEntry(Less(g)) /\ Less(g).references = guards[g].references - 1
            /\ Less(g).locked = guards[g].locked
        BY <1>3, LessIsEntry
      <4>2. /\ IsEntry(entry) /\ entry.references = Less(g).references
            /\ entry.locked = Less(g).locked
        BY <4>1, EntryQueue, Zenon
      <4> QED BY <4>1, <4>2
    <3>3. ~IsHolder(t, g)
      BY <2>2 DEF At, IsHolder, HolderSteps
    <3>4. entry.locked <=> \E u \in Tasks : u # t /\ IsHolder(u, g)
      BY <1>2, <3>2, <3>3 DEF GuardInv
    <3> QED BY <3>1, <3>2, <3>4
  <2> QED BY <2>1, <2>2
<1>5. PICK entry : /\ Drop(g, n, entry) /\ IsEntry(entry)
                   /\ entry.references = guards[g].references - 1
                   /\ entry.locked <=> \E u \in Tasks : u # t /\ IsHolder(u, g)
  BY <1>4
<1>6. Finish(t)
  BY DEF Release, Cancel
<1>7. tasks' \in [Tasks -> Task] /\ Others(t) /\ tasks'[t] = Idle
  BY <1>6, Finishes
<1>8. GuardInv' /\ table' \in [Notebooks -> Guards \cup {NoGuard}]
  BY <1>1, <1>2, <1>5, <1>7, GuardLeft DEF GuardSteps, HolderSteps
<1>9. guards' = [h \in Guards |-> guards'[h]] /\ \A h \in Guards : IsEntry(guards'[h])
  BY <1>2, <1>3, <1>5 DEF TypeInv, Drop
<1>10. UNCHANGED <<mapped, kernels>> /\ told' \subseteq Kernels
  BY DEF Release, Cancel, TypeInv, Task
<1> QED BY <1>7, <1>8, <1>9, <1>10, TasksTyped
        DEF TypeInv, Idle, GuardSteps, HolderSteps, CreateSteps

\* The steps that neither take nor give a guard back.
Unguarded(t) ==
  \/ \E n \in Notebooks : Post(t, n)
  \/ \E k \in Kernels : Delete(t, k)
  \/ Unconnected(t) \/ Reuse(t) \/ DeleteUpstream(t) \/ DropMapping(t)

HolderMoves(t) == Upstream(t) \/ StoreKernel(t) \/ (Cancel(t) /\ ~At(t, "waiting"))

LEMMA UnguardedKeepsGuards ==
  ASSUME TypeInv, GuardInv, NEW t \in Tasks, Unguarded(t)
  PROVE  TypeInv' /\ GuardInv'
<1>1. UNCHANGED <<table, guards>>
  BY DEF Unguarded, Post, Delete, Unconnected, Reuse, DeleteUpstream, DropMapping
<1>2. /\ tasks[t].pc \in {"idle", "post", "delete", "drop"} /\ tasks[t] \in Task
      /\ tasks[t].guard = NoGuard
  BY DEF Unguarded, Post, Delete, Unconnected, Reuse, DeleteUpstream, DropMapping, At, TypeInv,
         GuardSteps, HolderSteps
<1>3. /\ tasks' \in [Tasks -> Task] /\ Others(t) /\ tasks'[t].guard = NoGuard
      /\ tasks'[t].pc \notin GuardSteps
      /\ tasks'[t].pc \in CreateSteps => tasks'[t].notebook \in Notebooks
  <2>1. CASE \E n \in Notebooks : Post(t, n)
    <3>1. PICK n \in Notebooks :
            tasks' = [tasks EXCEPT ![t] = [pc |-> "post", notebook |-> n, guard |-> NoGuard,
                                           kernel |-> NoKernel]]
      BY <2>1 DEF Post, Idle
    <3> QED BY <3>1 DEF TypeInv, Task, Steps, CreateSteps, GuardSteps, HolderSteps, Others
  <2>2. CASE \E k \in Kernels : Delete(t, k)
    <3>1. PICK k \in Kernels :
            tasks' = [tasks EXCEPT ![t] = [pc |-> "delete", notebook |-> NoNotebook,
                                           guard |-> NoGuard, kernel |-> k]]
      BY <2>2 DEF Delete, Idle
    <3> QED BY <3>1 DEF TypeInv, Task, Steps, CreateSteps, GuardSteps, HolderSteps, Others
  <2>3. CASE Finish(t)
    BY <2>3, Finishes DEF Idle, CreateSteps, GuardSteps, HolderSteps
  <2>4. CASE GoTo(t, "drop")
    BY <1>2, <2>4, Goes DEF Steps, CreateSteps, GuardSteps, HolderSteps
  <2> QED BY <2>1, <2>2, <2>3, <2>4 DEF Unguarded, Unconnected, Reuse, DeleteUpstream, DropMapping
<1>4. mapped' \in [Notebooks -> Kernels \cup {NoKernel}]
  BY DEF TypeInv, Unguarded, Post, Delete, Unconnected, Reuse, DeleteUpstream, DropMapping
<1>5. kernels' \in [Kernels -> Kernel]
  <2>1. CASE \E k : Stop(k)
    BY <2>1, ZenonT(40) DEF TypeInv, Stop, Kernel
  <2>2. CASE UNCHANGED kernels
    BY <2>2 DEF TypeInv
  <2> QED BY <2>1, <2>2
          DEF Unguarded, Post, Delete, Unconnected, Reuse, DeleteUpstream, DropMapping
<1>6. told' \subseteq Kernels
  <2>1. CASE Reuse(t)
    <3>1. tasks[t].notebook \in Notebooks
      BY <2>1 DEF Reuse, At, TypeInv, CreateSteps
    <3> QED BY <2>1, <3>1 DEF Reuse, TypeInv
  <2>2. CASE told' = told
    BY <2>2 DEF TypeInv
  <2> QED BY <2>1, <2>2
          DEF Unguarded, Post, Delete, Unconnected, DeleteUpstream, DropMapping
<1>7. TypeInv'
  BY <1>1, <1>3, <1>4, <1>5, <1>6, TasksTyped DEF TypeInv
<1>8. GuardInv'
  BY <1>1, <1>2, <1>3, GuardsStay DEF Others
<1> QED BY <1>7, <1>8

LEMMA HolderKeepsGuards ==
  ASSUME TypeInv, GuardInv, NEW t \in Tasks, HolderMoves(t)
  PROVE  TypeInv' /\ GuardInv'
<1>1. UNCHANGED <<table, guards>>
  BY DEF HolderMoves, Upstream, StoreKernel, Cancel
<1>2. /\ tasks[t].pc \in {"upstream", "store"} /\ tasks[t] \in Task
      /\ tasks[t].guard # NoGuard /\ tasks[t].notebook \in Notebooks
  BY DEF HolderMoves, Upstream, StoreKernel, Cancel, At, TypeInv, GuardSteps, HolderSteps,
         CreateSteps
<1>3. /\ tasks' \in [Tasks -> Task] /\ Others(t) /\ tasks'[t].guard = tasks[t].guard
      /\ tasks'[t].pc \in {"store", "release"} /\ tasks'[t].notebook = tasks[t].notebook
  <2>1. CASE GoTo(t, "release")
    BY <2>1, Goes DEF Steps, CreateSteps
  <2>2. CASE \E k \in Kernels : tasks' = [tasks EXCEPT ![t].pc = "store", ![t].kernel = k]
    <3>1. PICK k \in Kernels : tasks' = [tasks EXCEPT ![t].pc = "store", ![t].kernel = k]
      BY <2>2
    <3> QED BY <1>2, <3>1 DEF TypeInv, Task, Steps, CreateSteps, Others
  <2>3. CASE tasks' = [tasks EXCEPT ![t].pc = "release", ![t].kernel = NoKernel]
    BY <1>2, <2>3 DEF TypeInv, Task, Steps, CreateSteps, Others
  <2> QED BY <2>1, <2>2, <2>3 DEF HolderMoves, Upstream, StoreKernel, Cancel
<1>4. mapped' \in [Notebooks -> Kernels \cup {NoKernel}]
  <2>1. CASE StoreKernel(t)
    BY <1>2, <2>1 DEF StoreKernel, TypeInv, Task
  <2> QED BY <2>1 DEF HolderMoves, Upstream, Cancel, TypeInv
<1>5. kernels' \in [Kernels -> Kernel] /\ told' = told
  <2>1. CASE \E k \in Kernels : Start(k, tasks[t].notebook)
    BY <1>2, <2>1 DEF TypeInv, Start, Kernel, HolderMoves, Upstream, StoreKernel, Cancel
  <2> QED BY <2>1 DEF HolderMoves, Upstream, StoreKernel, Cancel, TypeInv
<1>6. TypeInv'
  BY <1>1, <1>2, <1>3, <1>4, <1>5, TasksTyped DEF TypeInv, GuardSteps, HolderSteps
<1>7. GuardInv'
  BY <1>1, <1>2, <1>3, GuardsStay DEF Others, HolderSteps
<1> QED BY <1>6, <1>7

-----------------------------------------------------------------------------
(* Kernels                                                                  *)

\* Nothing about kernels that task u knows or says changes.
Quiet(u) ==
  /\ tasks'[u].pc \in {"upstream", "store"} => mapped[tasks'[u].notebook] = NoKernel
  /\ At(u, "store")' <=> At(u, "store")
  /\ At(u, "store") => /\ tasks'[u].kernel = tasks[u].kernel
                       /\ tasks'[u].notebook = tasks[u].notebook
  /\ tasks'[u].kernel \in {tasks[u].kernel, NoKernel} \cup told
  /\ tasks'[u].pc \in {"delete", "drop"} => tasks'[u].kernel \in told
  /\ At(u, "drop")' <=> At(u, "drop")
  /\ At(u, "drop") => tasks'[u].kernel = tasks[u].kernel

LEMMA OthersQuiet ==
  ASSUME KernelInv, NEW t \in Tasks, Others(t), Quiet(t), NEW u \in Tasks
  PROVE  Quiet(u)
BY DEF KernelInv, Others, Quiet, At

\* No kernel starts or stops and no mapping changes; clients may learn of kernels.
LEMMA KernelsStay ==
  ASSUME TypeInv, KernelInv, UNCHANGED <<mapped, kernels, astray>>,
         NEW X \in SUBSET Kernels, told' = told \cup X,
         \A k \in X : Born(k) /\ \A u \in Tasks : At(u, "store") => tasks[u].kernel # k,
         \A u \in Tasks : Quiet(u)
  PROVE  KernelInv'
<1>1. \A k : Born(k)' <=> Born(k)
  BY DEF Born
<1>2. ASSUME NEW t \in Tasks, At(t, "store")'
      PROVE  InHands(t)'
  <2>1. At(t, "store") /\ InHands(t) /\ tasks[t].kernel # NoKernel
        /\ tasks'[t].kernel = tasks[t].kernel /\ tasks'[t].notebook = tasks[t].notebook
    BY <1>2, KernelAssumption DEF KernelInv, InHands, Quiet
  <2> QED BY <2>1 DEF InHands, Quiet
<1>3. \A k \in Kernels \ astray : kernels[k].state = "live" =>
        \/ kernels[k].notebook \in Notebooks /\ mapped[kernels[k].notebook] = k
        \/ \E t \in Tasks : At(t, "store")' /\ tasks'[t].kernel = k
  BY DEF KernelInv, Quiet
<1>4. MappedIsAlive'
  <2>1. ASSUME NEW n \in Notebooks, mapped[n] # NoKernel
        PROVE  /\ kernels[mapped[n]].notebook = n
               /\ \/ kernels[mapped[n]].state = "live" \/ mapped[n] \in astray
                  \/ \E t \in Tasks : At(t, "drop")' /\ tasks'[t].kernel = mapped[n]
    BY <2>1 DEF KernelInv, MappedIsAlive, Quiet
  <2> QED BY <2>1 DEF MappedIsAlive
<1>5. \A t \in Tasks : At(t, "drop")' =>
        kernels[tasks'[t].kernel].state = "dead" \/ tasks'[t].kernel \in astray
  BY DEF KernelInv, Quiet
<1>6. \A t \in Tasks : tasks'[t].kernel # NoKernel => Born(tasks'[t].kernel)
  BY DEF KernelInv, Quiet
<1>7. \A k \in told' : Born(k)
  BY DEF KernelInv, Quiet
<1>8. \A n \in Notebooks : mapped[n] # NoKernel => Born(mapped[n])
  BY DEF KernelInv, Quiet
<1> QED BY <1>2, <1>3, <1>4, <1>5, <1>6, <1>7, <1>8 DEF KernelInv, Born, At, Quiet

LEMMA NothingNewKeepsKernels ==
  ASSUME TypeInv, KernelInv, NEW t \in Tasks,
         \/ Unconnected(t) \/ \E n \in Notebooks : Post(t, n)
         \/ \E k \in Kernels : Delete(t, k)
         \/ Cancel(t) /\ At(t, "waiting")
  PROVE  KernelInv'
<1>1. UNCHANGED <<mapped, kernels, astray, told>>
  BY DEF Unconnected, Post, Delete, Cancel, At
<1>2. tasks[t].pc \in {"idle", "post", "delete", "waiting"}
  BY DEF Unconnected, Post, Delete, Cancel, At
<1>3. /\ Others(t) /\ tasks'[t].pc \in {"idle", "post", "delete"}
      /\ tasks'[t].kernel \in {NoKernel} \cup told
      /\ tasks'[t].pc = "delete" => tasks'[t].kernel \in told
  <2>1. CASE Finish(t)
    BY <2>1, Finishes DEF Idle
  <2>2. CASE \E n \in Notebooks : Post(t, n)
    <3>1. PICK n \in Notebooks :
            tasks' = [tasks EXCEPT ![t] = [pc |-> "post", notebook |-> n, guard |-> NoGuard,
                                           kernel |-> NoKernel]]
      BY <2>2 DEF Post, Idle
    <3> QED BY <3>1 DEF TypeInv, Others
  <2>3. CASE \E k \in Kernels : Delete(t, k)
    <3>1. PICK k \in told :
            tasks' = [tasks EXCEPT ![t] = [pc |-> "delete", notebook |-> NoNotebook,
                                           guard |-> NoGuard, kernel |-> k]]
      BY <2>3 DEF Delete, Idle
    <3> QED BY <3>1 DEF TypeInv, Others
  <2> QED BY <2>1, <2>2, <2>3 DEF Unconnected, Cancel
<1>4. PICK X \in SUBSET Kernels : X = {}
  OBVIOUS
<1>5. told' = told \cup X
  BY <1>1, <1>4
<1>6. Quiet(t)
  BY <1>2, <1>3 DEF At, Quiet
<1>7. \A u \in Tasks : Quiet(u)
  BY <1>3, <1>6, OthersQuiet
<1> QED BY <1>1, <1>4, <1>5, <1>7, KernelsStay

LEMMA AcquireKeepsKernels ==
  ASSUME TypeInv, KernelInv, NEW t \in Tasks, Acquire(t)
  PROVE  KernelInv'
<1>1. UNCHANGED <<mapped, kernels, astray, told>> /\ tasks[t].pc = "post"
  BY DEF Acquire, At
<1>2. PICK g, free : tasks' = [tasks EXCEPT ![t].guard = g,
                                           ![t].pc = IF free THEN "upstream" ELSE "waiting"]
                     /\ (free => mapped[tasks[t].notebook] = NoKernel)
  BY DEF Acquire
<1>3. /\ Others(t) /\ tasks'[t].kernel = tasks[t].kernel /\ tasks'[t].notebook = tasks[t].notebook
      /\ tasks'[t].pc = IF free THEN "upstream" ELSE "waiting"
  BY <1>2 DEF TypeInv, Task, Others
<1>4. PICK X \in SUBSET Kernels : X = {}
  OBVIOUS
<1>5. told' = told \cup X
  BY <1>1, <1>4
<1>6. Quiet(t)
  BY <1>1, <1>2, <1>3 DEF At, Quiet
<1>7. \A u \in Tasks : Quiet(u)
  BY <1>3, <1>6, OthersQuiet
<1> QED BY <1>1, <1>4, <1>5, <1>7, KernelsStay

\* A kernel that is in the table, or was, may be told.
LEMMA TellKeepsKernels ==
  ASSUME TypeInv, KernelInv, NEW t \in Tasks, Reuse(t) \/ Wake(t) \/ Release(t)
  PROVE  KernelInv'
<1>1. /\ UNCHANGED <<mapped, kernels, astray>>
      /\ tasks[t].pc \in {"post", "waiting", "release"} /\ tasks[t].notebook \in Notebooks
  BY DEF Reuse, Wake, IsWoken, Release, At, TypeInv, CreateSteps
<1>2. Others(t) /\ Quiet(t)
  <2>1. CASE Finish(t)
    <3>1. Others(t) /\ tasks'[t] = Idle
      BY <2>1, Finishes
    <3> QED BY <1>1, <3>1 DEF Quiet, At, Idle
  <2>2. CASE GoTo(t, "upstream") /\ mapped[tasks[t].notebook] = NoKernel
    <3>1. /\ Others(t) /\ tasks'[t].pc = "upstream" /\ tasks'[t].kernel = tasks[t].kernel
          /\ tasks'[t].notebook = tasks[t].notebook
      BY <2>2, Goes DEF Steps, CreateSteps
    <3> QED BY <1>1, <2>2, <3>1 DEF Quiet, At
  <2> QED BY <2>1, <2>2 DEF Reuse, Wake, Release
<1>3. \E X \in SUBSET Kernels :
        /\ told' = told \cup X
        /\ \A k \in X : Born(k) /\ \A u \in Tasks : At(u, "store") => tasks[u].kernel # k
  <2>1. CASE Release(t)
    <3>1. told' = told \cup ({tasks[t].kernel} \ {NoKernel}) /\ tasks[t].pc = "release"
      BY <2>1 DEF Release, At
    <3>2. {tasks[t].kernel} \ {NoKernel} \in SUBSET Kernels
      BY DEF TypeInv, Task
    <3>3. \A u \in Tasks : At(u, "store") => tasks[u].kernel # tasks[t].kernel
      BY <3>1 DEF KernelInv, InHands, At
    <3>4. tasks[t].kernel # NoKernel => Born(tasks[t].kernel)
      BY DEF KernelInv
    <3> QED BY <3>1, <3>2, <3>3, <3>4
  <2>2. CASE mapped[tasks[t].notebook] # NoKernel /\ told' = told \cup {mapped[tasks[t].notebook]}
    <3>1. {mapped[tasks[t].notebook]} \in SUBSET Kernels
      BY <1>1, <2>2 DEF TypeInv
    <3>2. Born(mapped[tasks[t].notebook])
      BY <1>1, <2>2 DEF KernelInv
    <3>3. \A u \in Tasks : At(u, "store") => tasks[u].kernel # mapped[tasks[t].notebook]
      BY <1>1 DEF KernelInv, InHands
    <3> QED BY <2>2, <3>1, <3>2, <3>3
  <2>3. CASE told' = told
    <3>1. PICK X \in SUBSET Kernels : X = {}
      OBVIOUS
    <3> QED BY <2>3, <3>1
  <2> QED BY <2>1, <2>2, <2>3 DEF Reuse, Wake
<1>4. \A u \in Tasks : Quiet(u)
  BY <1>2, OthersQuiet
<1> QED BY <1>1, <1>3, <1>4, KernelsStay

\* The holder gives up before it has a kernel.
LEMMA GiveUpKeepsKernels ==
  ASSUME TypeInv, KernelInv, NEW t \in Tasks, At(t, "upstream"),
         UNCHANGED <<mapped, kernels, astray, told>>,
         \/ GoTo(t, "release")
         \/ tasks' = [tasks EXCEPT ![t].pc = "release", ![t].kernel = NoKernel]
  PROVE  KernelInv'
<1>1. Others(t) /\ tasks'[t].pc = "release" /\ tasks'[t].kernel \in {tasks[t].kernel, NoKernel}
  <2>1. CASE GoTo(t, "release")
    BY <2>1, Goes DEF Steps, CreateSteps
  <2>2. CASE tasks' = [tasks EXCEPT ![t].pc = "release", ![t].kernel = NoKernel]
    BY <2>2 DEF TypeInv, Task, Others
  <2> QED BY <2>1, <2>2
<1>2. PICK X \in SUBSET Kernels : X = {}
  OBVIOUS
<1>3. told' = told \cup X
  BY <1>2
<1>4. Quiet(t)
  BY <1>1 DEF At, Quiet
<1>5. \A u \in Tasks : Quiet(u)
  BY <1>1, <1>4, OthersQuiet
<1> QED BY <1>2, <1>3, <1>5, KernelsStay

\* Jupyter starts a kernel: it is in the hands of the holder, or astray.
LEMMA StartKeepsKernels ==
  ASSUME TypeInv, KernelInv, NEW t \in Tasks, At(t, "upstream"), NEW k \in Kernels,
         kernels[k] = Unborn, Start(k, tasks[t].notebook), UNCHANGED <<mapped, told>>,
         \/ /\ tasks' = [tasks EXCEPT ![t].pc = "store", ![t].kernel = k]
            /\ UNCHANGED astray
         \/ GoTo(t, "release") /\ Strays(k)
  PROVE  KernelInv'
<1>1. tasks[t].notebook \in Notebooks /\ mapped[tasks[t].notebook] = NoKernel
  BY DEF At, TypeInv, CreateSteps, KernelInv
<1>2. /\ kernels'[k] = [state |-> "live", notebook |-> tasks[t].notebook]
      /\ \A j : j # k => kernels'[j] = kernels[j]
  BY DEF Start, TypeInv
<1>3. /\ Others(t) /\ tasks'[t].notebook = tasks[t].notebook
      /\ \/ tasks'[t].pc = "store" /\ tasks'[t].kernel = k /\ astray' = astray
         \/ /\ tasks'[t].pc = "release" /\ tasks'[t].kernel = tasks[t].kernel
            /\ astray' = astray \cup {k}
  <2>1. CASE GoTo(t, "release") /\ Strays(k)
    BY <2>1, Goes DEF Steps, CreateSteps, Strays
  <2>2. CASE tasks' = [tasks EXCEPT ![t].pc = "store", ![t].kernel = k] /\ UNCHANGED astray
    BY <2>2 DEF TypeInv, Task, Others
  <2> QED BY <2>1, <2>2
<1>4. /\ k # NoKernel /\ ~Born(k) /\ Born(k)'
      /\ \A j : Born(j) => Born(j)' /\ j # k
  BY <1>2, KernelAssumption DEF Born, Unborn
<1>5. /\ k \notin told /\ \A n \in Notebooks : mapped[n] # k
      /\ \A u \in Tasks : tasks[u].kernel # k
  BY <1>4 DEF KernelInv
<1>6. ASSUME NEW u \in Tasks, At(u, "store")'
      PROVE  InHands(u)'
  <2>1. CASE u = t
    <3>1. tasks'[t].kernel = k
      BY <1>3, <1>6, <2>1 DEF At
    <3> QED BY <1>2, <1>3, <1>5, <2>1, <3>1 DEF InHands, Others
  <2>2. CASE u # t
    <3>1. tasks'[u] = tasks[u] /\ InHands(u) /\ tasks[u].kernel # k
      BY <1>3, <1>5, <1>6, <2>2 DEF Others, At, KernelInv
    <3>2. tasks'[t].kernel # tasks[u].kernel
      BY <1>3, <2>2, <3>1 DEF InHands
    <3> QED BY <1>2, <1>3, <3>1, <3>2 DEF InHands, Others
  <2> QED BY <2>1, <2>2
<1>7. \A u \in Tasks : tasks'[u].pc \in {"upstream", "store"} =>
        mapped[tasks'[u].notebook] = NoKernel
  BY <1>1, <1>3 DEF KernelInv, Others
<1>8. \A u \in Tasks : tasks'[u].kernel # NoKernel => Born(tasks[u].kernel) \/ tasks'[u].kernel = k
  BY <1>3 DEF KernelInv, Others
<1>9. \A u \in Tasks : tasks'[u].pc \in {"delete", "drop"} => u # t /\ tasks'[u] = tasks[u]
  BY <1>3 DEF Others
<1>10. ASSUME NEW j \in Kernels \ astray', kernels'[j].state = "live"
       PROVE  \/ kernels'[j].notebook \in Notebooks /\ mapped[kernels'[j].notebook] = j
              \/ \E u \in Tasks : At(u, "store")' /\ tasks'[u].kernel = j
  <2>1. CASE j = k
    BY <1>3, <1>10, <2>1 DEF At
  <2>2. CASE j # k
    <3>1. kernels'[j] = kernels[j] /\ j \in Kernels \ astray
      BY <1>2, <1>3, <1>10, <2>2
    <3>2. \/ kernels[j].notebook \in Notebooks /\ mapped[kernels[j].notebook] = j
          \/ \E u \in Tasks : u # t /\ At(u, "store") /\ tasks[u].kernel = j
      BY <1>10, <3>1 DEF KernelInv, At
    <3> QED BY <1>3, <3>1, <3>2 DEF At, Others
  <2> QED BY <2>1, <2>2
<1>11. MappedIsAlive'
  <2>1. ASSUME NEW n \in Notebooks, mapped[n] # NoKernel
        PROVE  /\ kernels'[mapped[n]].notebook = n
               /\ \/ kernels'[mapped[n]].state = "live" \/ mapped[n] \in astray'
                  \/ \E u \in Tasks : At(u, "drop")' /\ tasks'[u].kernel = mapped[n]
    <3>1. kernels'[mapped[n]] = kernels[mapped[n]]
      BY <1>2, <1>5
    <3>2. \A u \in Tasks : At(u, "drop") => At(u, "drop")' /\ tasks'[u] = tasks[u]
      BY <1>3 DEF At, Others
    <3> QED BY <1>3, <2>1, <3>1, <3>2 DEF KernelInv, MappedIsAlive
  <2> QED BY <2>1 DEF MappedIsAlive
<1>12. \A u \in Tasks : At(u, "drop")' =>
         kernels'[tasks'[u].kernel].state = "dead" \/ tasks'[u].kernel \in astray'
  BY <1>2, <1>3, <1>5, <1>9 DEF At, KernelInv
<1>13. ASSUME NEW u \in Tasks, tasks'[u].kernel # NoKernel
       PROVE  kernels'[tasks'[u].kernel] # Unborn
  <2>1. PICK j : j = tasks'[u].kernel
    OBVIOUS
  <2>2. j = k \/ Born(j)
    BY <1>3, <1>13, <2>1 DEF KernelInv, Others
  <2>3. kernels'[j] # Unborn
    BY <1>4, <2>2 DEF Born
  <2> QED BY <2>1, <2>3
<1>14. \A j \in told : kernels'[j] # Unborn
  BY <1>4 DEF KernelInv, Born
<1>15. \A n \in Notebooks : mapped[n] # NoKernel => kernels'[mapped[n]] # Unborn
  BY <1>2, <1>5 DEF KernelInv, Born
<1> QED BY <1>6, <1>7, <1>9, <1>10, <1>11, <1>12, <1>13, <1>14, <1>15 DEF KernelInv, Born

\* The kernel goes from the hands of the holder into the table: nobody else is
\* between the look at the table and this step for the same notebook.
LEMMA StoreKeepsKernels ==
  ASSUME TypeInv, GuardInv, KernelInv, NEW t \in Tasks, StoreKernel(t)
  PROVE  KernelInv'
<1>1. PICK n, k : n = tasks[t].notebook /\ k = tasks[t].kernel
  OBVIOUS
<1>2. InHands(t) /\ tasks[t].pc = "store"
  BY DEF StoreKernel, KernelInv, At
<1>3. /\ n \in Notebooks /\ k \in Kernels /\ k # NoKernel /\ mapped[n] = NoKernel
      /\ kernels[k] = [state |-> "live", notebook |-> n]
      /\ k \notin told /\ \A m \in Notebooks : mapped[m] # k
      /\ \A u \in Tasks : u # t => tasks[u].kernel # k
  BY <1>1, <1>2, KernelAssumption DEF InHands, TypeInv, KernelInv, CreateSteps
<1>4. /\ mapped'[n] = k /\ \A m \in Notebooks : m # n => mapped'[m] = mapped[m]
      /\ UNCHANGED <<kernels, told, astray>>
  BY <1>1, <1>3 DEF StoreKernel, TypeInv
<1>5. /\ Others(t) /\ tasks'[t].pc = "release" /\ tasks'[t].kernel = k
      /\ tasks'[t].notebook = n
  BY <1>1, Goes DEF StoreKernel, Steps, CreateSteps
<1>6. ASSUME NEW u \in Tasks, tasks'[u].pc \in {"upstream", "store"}
      PROVE  u # t /\ tasks'[u] = tasks[u] /\ tasks[u].notebook # n
  <2>1. u # t /\ tasks'[u] = tasks[u] /\ tasks[u].pc \in GuardSteps
    BY <1>5, <1>6 DEF Others, GuardSteps, HolderSteps
  <2>2. /\ table[tasks[u].notebook] = tasks[u].guard /\ tasks[u].guard \in Guards
        /\ table[n] = tasks[t].guard
    BY <1>1, <1>2, <2>1, GuardOfTask DEF GuardSteps, HolderSteps
  <2>3. tasks[u].notebook = n => IsHolder(u, tasks[u].guard) /\ IsHolder(t, tasks[u].guard)
    BY <1>2, <1>6, <2>1, <2>2 DEF IsHolder, HolderSteps
  <2> QED BY <2>1, <2>2, <2>3 DEF GuardInv
<1>7. \A u \in Tasks : tasks'[u].pc \in {"upstream", "store"} =>
        mapped'[tasks'[u].notebook] = NoKernel
  <2>1. \A u \in Tasks : tasks[u].pc \in {"upstream", "store"} => tasks[u].notebook \in Notebooks
    BY DEF TypeInv, CreateSteps
  <2> QED BY <1>4, <1>6, <2>1 DEF KernelInv
<1>8. ASSUME NEW u \in Tasks, At(u, "store")'
      PROVE  InHands(u)'
  <2>1. u # t /\ tasks'[u] = tasks[u] /\ InHands(u) /\ tasks[u].kernel # k
    BY <1>3, <1>6, <1>8 DEF At, KernelInv
  <2>2. \A m \in Notebooks : mapped'[m] # tasks[u].kernel
    BY <1>4, <2>1 DEF InHands
  <2>3. \A w \in Tasks : w # u => tasks'[w].kernel # tasks[u].kernel
    BY <1>5, <2>1 DEF InHands, Others
  <2> QED BY <1>4, <2>1, <2>2, <2>3 DEF InHands
<1>9. \A m \in Notebooks : mapped'[m] # NoKernel => kernels[mapped'[m]] # Unborn
  BY <1>3, <1>4 DEF KernelInv, Born, Unborn
<1>10. \A u \in Tasks : tasks'[u].kernel # NoKernel => kernels[tasks'[u].kernel] # Unborn
  BY <1>3, <1>5 DEF KernelInv, Born, Unborn, Others
<1>11. \A u \in Tasks : tasks'[u].pc \in {"delete", "drop"} => u # t /\ tasks'[u] = tasks[u]
  BY <1>5 DEF Others
<1>12. ASSUME NEW j \in Kernels \ astray, kernels[j].state = "live"
       PROVE  \/ kernels[j].notebook \in Notebooks /\ mapped'[kernels[j].notebook] = j
              \/ \E u \in Tasks : At(u, "store")' /\ tasks'[u].kernel = j
  <2>1. CASE j = k
    BY <1>3, <1>4, <2>1
  <2>2. CASE kernels[j].notebook \in Notebooks /\ mapped[kernels[j].notebook] = j
    <3>1. kernels[j].notebook # n
      BY <1>3, <2>2, KernelAssumption
    <3> QED BY <1>4, <2>2, <3>1
  <2>3. CASE j # k /\ \E u \in Tasks : At(u, "store") /\ tasks[u].kernel = j
    <3>1. PICK u \in Tasks : At(u, "store") /\ tasks[u].kernel = j
      BY <2>3
    <3>2. u # t
      BY <1>1, <2>3, <3>1
    <3> QED BY <1>5, <3>1, <3>2 DEF At, Others
  <2> QED BY <1>12, <2>1, <2>2, <2>3 DEF KernelInv
<1>13. MappedIsAlive'
  <2>1. ASSUME NEW m \in Notebooks, mapped'[m] # NoKernel
        PROVE  /\ kernels[mapped'[m]].notebook = m
               /\ \/ kernels[mapped'[m]].state = "live" \/ mapped'[m] \in astray
                  \/ \E u \in Tasks : At(u, "drop")' /\ tasks'[u].kernel = mapped'[m]
    <3>1. CASE m = n
      BY <1>3, <1>4, <3>1
    <3>2. CASE m # n
      <4>1. \A u \in Tasks : At(u, "drop") => At(u, "drop")' /\ tasks'[u] = tasks[u]
        BY <1>2, <1>5 DEF At, Others
      <4>2. mapped'[m] = mapped[m]
        BY <1>4, <3>2
      <4> QED BY <2>1, <4>1, <4>2 DEF KernelInv, MappedIsAlive
    <3> QED BY <3>1, <3>2
  <2> QED BY <1>4, <2>1 DEF MappedIsAlive
<1>14. \A u \in Tasks : At(u, "drop")' =>
         kernels[tasks'[u].kernel].state = "dead" \/ tasks'[u].kernel \in astray
  BY <1>11 DEF At, KernelInv
<1> QED BY <1>4, <1>7, <1>8, <1>9, <1>10, <1>11, <1>12, <1>13, <1>14 DEF KernelInv, Born

\* The holder is cancelled with a kernel in its hands: the kernel is astray.
LEMMA LoseKeepsKernels ==
  ASSUME TypeInv, KernelInv, NEW t \in Tasks, Cancel(t), At(t, "store")
  PROVE  KernelInv'
<1>1. /\ UNCHANGED <<mapped, kernels, told>> /\ astray' = astray \cup {tasks[t].kernel}
      /\ tasks[t].pc = "store"
  BY DEF Cancel, At, Strays
<1>2. Others(t) /\ tasks'[t].pc = "release" /\ tasks'[t].kernel = NoKernel
  <2>1. tasks' = [tasks EXCEPT ![t].pc = "release", ![t].kernel = NoKernel]
    BY DEF Cancel, At
  <2> QED BY <2>1 DEF TypeInv, Task, Others
<1>3. \A u \in Tasks : u # t => tasks'[u] = tasks[u]
  BY <1>2 DEF Others
<1>4. ASSUME NEW u \in Tasks, At(u, "store")'
      PROVE  InHands(u)'
  <2>1. u # t /\ tasks'[u] = tasks[u] /\ InHands(u) /\ tasks[u].kernel # NoKernel
    BY <1>2, <1>3, <1>4, KernelAssumption DEF At, KernelInv, InHands
  <2>2. \A w \in Tasks : w # u => tasks'[w].kernel # tasks[u].kernel
    BY <1>2, <1>3, <2>1 DEF InHands
  <2>3. mapped' = mapped /\ kernels' = kernels /\ told' = told
    BY <1>1
  <2> QED BY <2>1, <2>2, <2>3 DEF InHands
<1>5. \A u \in Tasks : At(u, "drop")' => u # t /\ tasks'[u] = tasks[u] /\ At(u, "drop")
  BY <1>2, <1>3 DEF At
<1>6. \A u \in Tasks : At(u, "drop") => At(u, "drop")' /\ tasks'[u] = tasks[u]
  BY <1>1, <1>3 DEF At
<1>7. MappedIsAlive'
  <2>1. ASSUME NEW m \in Notebooks, mapped[m] # NoKernel
        PROVE  /\ kernels[mapped[m]].notebook = m
               /\ \/ kernels[mapped[m]].state = "live" \/ mapped[m] \in astray'
                  \/ \E u \in Tasks : At(u, "drop")' /\ tasks'[u].kernel = mapped[m]
    <3>1. astray \subseteq astray'
      BY <1>1
    <3> QED BY <1>6, <2>1, <3>1 DEF KernelInv, MappedIsAlive
  <2> QED BY <1>1, <2>1 DEF MappedIsAlive
<1>8. ASSUME NEW j \in Kernels \ astray', kernels[j].state = "live"
      PROVE  \/ kernels[j].notebook \in Notebooks /\ mapped[kernels[j].notebook] = j
             \/ \E u \in Tasks : At(u, "store")' /\ tasks'[u].kernel = j
  <2>1. j # tasks[t].kernel /\ j \in Kernels \ astray
    BY <1>1, <1>8
  <2> QED BY <1>3, <1>8, <2>1 DEF KernelInv, At
<1>9. \A u \in Tasks : tasks'[u].pc \in {"upstream", "store"} =>
        mapped[tasks'[u].notebook] = NoKernel
  BY <1>2, <1>3 DEF KernelInv
<1>10. \A u \in Tasks : tasks'[u].pc \in {"delete", "drop"} => tasks'[u].kernel \in told
  BY <1>2, <1>3 DEF KernelInv
<1>11. \A u \in Tasks : At(u, "drop")' =>
         kernels[tasks'[u].kernel].state = "dead" \/ tasks'[u].kernel \in astray'
  <2>1. astray \subseteq astray'
    BY <1>1
  <2> QED BY <1>5, <2>1 DEF KernelInv
<1>12. \A u \in Tasks : tasks'[u].kernel # NoKernel => Born(tasks'[u].kernel)
  BY <1>2, <1>3 DEF KernelInv
<1> QED BY <1>1, <1>4, <1>7, <1>8, <1>9, <1>10, <1>11, <1>12 DEF KernelInv, Born

\* DELETE: the kernel is dead or astray before its mapping is dropped.
LEMMA DeleteKeepsKernels ==
  ASSUME TypeInv, KernelInv, NEW t \in Tasks, DeleteUpstream(t)
  PROVE  KernelInv'
<1>1. PICK k : k = tasks[t].kernel
  OBVIOUS
<1>2. UNCHANGED <<mapped, told>> /\ tasks[t].pc = "delete" /\ k \in told /\ k \in Kernels
  BY <1>1 DEF DeleteUpstream, At, KernelInv, TypeInv
<1>3. /\ Others(t)
      /\ \/ tasks'[t].pc = "drop" /\ tasks'[t].kernel = k
         \/ tasks'[t].pc = "idle" /\ tasks'[t].kernel = NoKernel
  <2>1. CASE GoTo(t, "drop")
    BY <1>1, <2>1, Goes DEF Steps
  <2>2. CASE Finish(t)
    BY <2>2, Finishes DEF Idle
  <2> QED BY <2>1, <2>2 DEF DeleteUpstream
<1>4. /\ \A j : j # k => kernels'[j] = kernels[j]
      /\ \/ kernels'[k] = kernels[k]
         \/ kernels'[k].state = "dead" /\ kernels'[k].notebook = kernels[k].notebook
  <2>1. CASE Stop(k)
    <3>1. kernels[k] \in Kernel
      BY <1>2 DEF TypeInv
    <3> QED BY <1>2, <2>1, <3>1 DEF Stop, TypeInv, Kernel
  <2>2. CASE UNCHANGED kernels
    BY <2>2
  <2> QED BY <1>1, <2>1, <2>2 DEF DeleteUpstream
<1>5. astray' = astray \/ astray' = astray \cup {k}
  BY <1>1 DEF DeleteUpstream, Strays
<1>6. \/ kernels'[k] = kernels[k] /\ astray' = astray /\ tasks'[t].pc = "idle"
      \/ kernels'[k].state = "dead" /\ tasks'[t].pc = "drop"
      \/ k \in astray'
  <2>1. CASE Stop(k) /\ GoTo(t, "drop")
    <3>1. kernels'[k].state = "dead"
      BY <1>2, <2>1 DEF Stop, TypeInv, Kernel
    <3>2. tasks'[t].pc = "drop"
      BY <2>1, Goes DEF Steps
    <3> QED BY <3>1, <3>2
  <2>2. CASE Strays(k)
    BY <2>2 DEF Strays
  <2>3. CASE Finish(t) /\ UNCHANGED <<kernels, astray>>
    BY <2>3, Finishes DEF Idle
  <2> QED BY <1>1, <2>1, <2>2, <2>3 DEF DeleteUpstream
<1>7. \A u \in Tasks : u # t => tasks'[u] = tasks[u]
  BY <1>3 DEF Others
<1>8. \A j : kernels[j] # Unborn => kernels'[j] # Unborn
  BY <1>4 DEF Unborn
<1>9. ASSUME NEW u \in Tasks, At(u, "store")'
      PROVE  InHands(u)'
  <2>1. /\ u # t /\ tasks'[u] = tasks[u] /\ InHands(u) /\ tasks[u].kernel # k
        /\ tasks[u].kernel # NoKernel
    BY <1>2, <1>3, <1>7, <1>9, KernelAssumption DEF At, KernelInv, InHands
  <2>2. \A w \in Tasks : w # u => tasks'[w].kernel # tasks[u].kernel
    BY <1>3, <1>7, <2>1 DEF InHands
  <2> QED BY <1>2, <1>4, <2>1, <2>2 DEF InHands
<1>10. \A u \in Tasks : At(u, "drop") => u # t /\ At(u, "drop")' /\ tasks'[u] = tasks[u]
  BY <1>2, <1>7 DEF At
<1>11. ASSUME NEW u \in Tasks, At(u, "drop")'
       PROVE  kernels'[tasks'[u].kernel].state = "dead" \/ tasks'[u].kernel \in astray'
  <2>1. CASE u = t
    BY <1>3, <1>6, <1>11, <2>1 DEF At
  <2>2. CASE u # t
    <3>1. PICK j : j = tasks[u].kernel
      OBVIOUS
    <3>2. tasks'[u] = tasks[u] /\ (kernels[j].state = "dead" \/ j \in astray)
      BY <1>7, <1>11, <2>2, <3>1 DEF At, KernelInv
    <3>3. kernels'[j].state = "dead" \/ j \in astray'
      BY <1>4, <1>5, <3>2
    <3> QED BY <3>1, <3>2, <3>3
  <2> QED BY <2>1, <2>2
<1>12. MappedIsAlive'
  <2>1. ASSUME NEW m \in Notebooks, mapped[m] # NoKernel
        PROVE  /\ kernels'[mapped[m]].notebook = m
               /\ \/ kernels'[mapped[m]].state = "live" \/ mapped[m] \in astray'
                  \/ \E u \in Tasks : At(u, "drop")' /\ tasks'[u].kernel = mapped[m]
    <3>1. PICK j : j = mapped[m]
      OBVIOUS
    <3>2. /\ kernels[j].notebook = m
          /\ \/ kernels[j].state = "live" \/ j \in astray
             \/ \E u \in Tasks : At(u, "drop") /\ tasks[u].kernel = j
      BY <2>1, <3>1 DEF KernelInv, MappedIsAlive
    <3>3. kernels'[j].notebook = m
      BY <1>4, <3>2
    <3>4. (\E u \in Tasks : At(u, "drop") /\ tasks[u].kernel = j) =>
            \E u \in Tasks : At(u, "drop")' /\ tasks'[u].kernel = j
      BY <1>10
    <3>5. \/ kernels'[j].state = "live" \/ j \in astray'
          \/ \E u \in Tasks : At(u, "drop")' /\ tasks'[u].kernel = j
      <4>1. CASE j # k
        BY <1>4, <1>5, <3>2, <3>4, <4>1
      <4>2. CASE j = k /\ tasks'[t].pc = "drop"
        BY <1>3, <4>2 DEF At
      <4>3. CASE j = k /\ k \in astray'
        BY <4>3
      <4>4. CASE j = k /\ kernels'[k] = kernels[k] /\ astray' = astray
        BY <3>2, <3>4, <4>4
      <4> QED BY <1>6, <4>1, <4>2, <4>3, <4>4
    <3> QED BY <3>1, <3>3, <3>5
  <2> QED BY <1>2, <2>1 DEF MappedIsAlive
<1>13. ASSUME NEW j \in Kernels \ astray', kernels'[j].state = "live"
       PROVE  \/ kernels'[j].notebook \in Notebooks /\ mapped[kernels'[j].notebook] = j
              \/ \E u \in Tasks : At(u, "store")' /\ tasks'[u].kernel = j
  <2>1. kernels'[j] = kernels[j] /\ j \in Kernels \ astray
    BY <1>4, <1>5, <1>13
  <2>2. \A u \in Tasks : At(u, "store") => At(u, "store")' /\ tasks'[u] = tasks[u]
    BY <1>2, <1>7 DEF At
  <2> QED BY <1>13, <2>1, <2>2 DEF KernelInv
<1>14. \A u \in Tasks : tasks'[u].pc \in {"upstream", "store"} =>
         mapped[tasks'[u].notebook] = NoKernel
  BY <1>3, <1>7 DEF KernelInv
<1>15. \A u \in Tasks : tasks'[u].pc \in {"delete", "drop"} => tasks'[u].kernel \in told
  BY <1>2, <1>3, <1>7 DEF KernelInv
<1>16. ASSUME NEW u \in Tasks, tasks'[u].kernel # NoKernel
       PROVE  kernels'[tasks'[u].kernel] # Unborn
  <2>1. PICK j : j = tasks'[u].kernel
    OBVIOUS
  <2>2. kernels[j] # Unborn
    BY <1>2, <1>3, <1>7, <1>16, <2>1 DEF KernelInv, Born
  <2>3. kernels'[j] # Unborn
    BY <1>8, <2>2
  <2> QED BY <2>1, <2>3
<1>17. \A j \in told : kernels'[j] # Unborn
  BY <1>8 DEF KernelInv, Born
<1>18. \A n \in Notebooks : mapped[n] # NoKernel => kernels'[mapped[n]] # Unborn
  BY <1>8 DEF KernelInv, Born
<1> QED BY <1>2, <1>9, <1>11, <1>12, <1>13, <1>14, <1>15, <1>16, <1>17, <1>18
        DEF KernelInv, Born

LEMMA DropKeepsKernels ==
  ASSUME TypeInv, KernelInv, NEW t \in Tasks, DropMapping(t)
  PROVE  KernelInv'
<1>1. PICK k : k = tasks[t].kernel
  OBVIOUS
<1>2. /\ UNCHANGED <<kernels, told, astray>> /\ tasks[t].pc = "drop" /\ k \in told
      /\ kernels[k].state = "dead" \/ k \in astray
  BY <1>1 DEF DropMapping, At, KernelInv
<1>3. \A m \in Notebooks : mapped'[m] = IF mapped[m] = k THEN NoKernel ELSE mapped[m]
  BY <1>1 DEF DropMapping
<1>4. Others(t) /\ tasks'[t].pc = "idle" /\ tasks'[t].kernel = NoKernel
  BY Finishes DEF DropMapping, Idle
<1>5. \A u \in Tasks : u # t => tasks'[u] = tasks[u]
  BY <1>4 DEF Others
<1>6. \A u \in Tasks : tasks'[u].pc \in {"upstream", "store"} =>
        mapped'[tasks'[u].notebook] = NoKernel
  <2>1. \A u \in Tasks : tasks[u].pc \in {"upstream", "store"} => tasks[u].notebook \in Notebooks
    BY DEF TypeInv, CreateSteps
  <2> QED BY <1>3, <1>4, <1>5, <2>1 DEF KernelInv
<1>7. ASSUME NEW u \in Tasks, At(u, "store")'
      PROVE  InHands(u)'
  <2>1. u # t /\ tasks'[u] = tasks[u] /\ InHands(u) /\ tasks[u].kernel # NoKernel
    BY <1>4, <1>5, <1>7, KernelAssumption DEF At, KernelInv, InHands
  <2>2. \A w \in Tasks : w # u => tasks'[w].kernel # tasks[u].kernel
    BY <1>4, <1>5, <2>1 DEF InHands
  <2>3. \A m \in Notebooks : mapped'[m] # tasks[u].kernel
    BY <1>3, <2>1 DEF InHands
  <2> QED BY <1>2, <2>1, <2>2, <2>3 DEF InHands
<1>8. ASSUME NEW j \in Kernels \ astray, kernels[j].state = "live"
      PROVE  \/ kernels[j].notebook \in Notebooks /\ mapped'[kernels[j].notebook] = j
             \/ \E u \in Tasks : At(u, "store")' /\ tasks'[u].kernel = j
  <2>1. \A u \in Tasks : At(u, "store") => At(u, "store")' /\ tasks'[u] = tasks[u]
    BY <1>2, <1>5 DEF At
  <2>2. j # k /\ j # NoKernel
    BY <1>2, <1>8, KernelAssumption
  <2>3. ASSUME kernels[j].notebook \in Notebooks, mapped[kernels[j].notebook] = j
        PROVE  mapped'[kernels[j].notebook] = j
    BY <1>3, <2>2, <2>3
  <2> QED BY <1>8, <2>1, <2>3 DEF KernelInv
<1>9. MappedIsAlive'
  <2>1. ASSUME NEW m \in Notebooks, mapped'[m] # NoKernel
        PROVE  /\ kernels[mapped'[m]].notebook = m
               /\ \/ kernels[mapped'[m]].state = "live" \/ mapped'[m] \in astray
                  \/ \E u \in Tasks : At(u, "drop")' /\ tasks'[u].kernel = mapped'[m]
    <3>1. mapped'[m] = mapped[m] /\ mapped[m] # k
      BY <1>3, <2>1
    <3>2. \A u \in Tasks : At(u, "drop") /\ tasks[u].kernel = mapped[m] =>
            At(u, "drop")' /\ tasks'[u] = tasks[u]
      BY <1>1, <1>5, <3>1 DEF At
    <3> QED BY <2>1, <3>1, <3>2 DEF KernelInv, MappedIsAlive
  <2> QED BY <1>2, <2>1 DEF MappedIsAlive
<1>10. \A u \in Tasks : At(u, "drop")' =>
         kernels[tasks'[u].kernel].state = "dead" \/ tasks'[u].kernel \in astray
  BY <1>4, <1>5 DEF At, KernelInv
<1>11. \A u \in Tasks : tasks'[u].pc \in {"delete", "drop"} => tasks'[u].kernel \in told
  BY <1>4, <1>5 DEF KernelInv
<1>12. \A u \in Tasks : tasks'[u].kernel # NoKernel => Born(tasks'[u].kernel)
  BY <1>4, <1>5 DEF KernelInv
<1>13. \A n \in Notebooks : mapped'[n] # NoKernel => Born(mapped'[n])
  BY <1>3 DEF KernelInv
<1> QED BY <1>2, <1>6, <1>7, <1>8, <1>9, <1>10, <1>11, <1>12, <1>13 DEF KernelInv, Born

-----------------------------------------------------------------------------
(* The theorems                                                             *)

LEMMA InitIInv == Init => IInv
<1> SUFFICES ASSUME Init PROVE IInv
  OBVIOUS
<1>1. TypeInv
  <2>1. \A t \in Tasks : tasks[t] = Idle
    BY DEF Init
  <2>2. Idle \in Task
    BY DEF Idle, Task, Steps
  <2>3. tasks \in [Tasks -> Task]
    BY <2>1, <2>2 DEF Init
  <2>4. \A g \in Guards : IsEntry(guards[g])
    <3>1. FreshGuard \in [references: {0}, locked: BOOLEAN, waiters: {<<>>}]
      BY DEF FreshGuard
    <3>2. IsEntry(FreshGuard)
      BY <3>1, Zenon DEF IsEntry
    <3> QED BY <3>2 DEF Init
  <2>5. kernels \in [Kernels -> Kernel]
    BY DEF Init, Unborn, Kernel
  <2>6. \A t \in Tasks : tasks[t].pc = "idle" /\ tasks[t].guard = NoGuard
    BY <2>1 DEF Idle
  <2>7. /\ table \in [Notebooks -> Guards \cup {NoGuard}]
        /\ mapped \in [Notebooks -> Kernels \cup {NoKernel}]
        /\ told \subseteq Kernels /\ guards = [g \in Guards |-> guards[g]]
    BY DEF Init
  <2> QED BY <2>3, <2>4, <2>5, <2>6, <2>7 DEF TypeInv, CreateSteps, GuardSteps, HolderSteps
<1>2. \A t \in Tasks : /\ tasks[t].pc = "idle" /\ tasks[t].guard = NoGuard
                       /\ tasks[t].kernel = NoKernel
  BY DEF Init, Idle
<1>3. GuardInv
  <2>1. \A g \in Guards : Users(g) = {}
    BY <1>2, GuardAssumption DEF Users
  <2>2. \A g \in Guards : guards[g].references = 0 /\ guards[g].locked = FALSE
    BY DEF Init, FreshGuard
  <2>3. \A g \in Guards : Count(g)
    BY <2>1, <2>2, FS_EmptySet DEF Count
  <2>4. \A n \in Notebooks : table[n] = NoGuard
    BY DEF Init
  <2>5. \A g \in Guards : \A t \in Tasks : ~IsHolder(t, g)
    BY <1>2 DEF IsHolder, HolderSteps
  <2> QED BY <1>2, <2>2, <2>3, <2>4, <2>5 DEF GuardInv
<1>4. KernelInv
  <2>1. /\ \A n \in Notebooks : mapped[n] = NoKernel
        /\ \A k \in Kernels : kernels[k].state = "unborn"
        /\ told = {}
    BY DEF Init, Unborn
  <2> QED BY <1>2, <2>1 DEF KernelInv, At, MappedIsAlive
<1> QED BY <1>1, <1>3, <1>4 DEF IInv

LEMMA NextIInv == IInv /\ [Next]_vars => IInv'
<1> SUFFICES ASSUME TypeInv, GuardInv, KernelInv, [Next]_vars
             PROVE  IInv'
  BY DEF IInv
<1>1. CASE UNCHANGED vars
  <2>1. \A g : (Users(g)' = Users(g)) /\ (Count(g)' <=> Count(g))
    BY <1>1 DEF Users, Count, vars
  <2>2. TypeInv'
    BY <1>1 DEF TypeInv, vars
  <2>3. GuardInv'
    BY <1>1, <2>1 DEF GuardInv, IsHolder, vars
  <2>4. KernelInv'
    BY <1>1 DEF KernelInv, InHands, Born, At, MappedIsAlive, vars
  <2> QED BY <2>2, <2>3, <2>4 DEF IInv
<1>2. ASSUME NEW t \in Tasks,
             \/ \E n \in Notebooks : Post(t, n)
             \/ \E k \in Kernels : Delete(t, k)
             \/ TaskStep(t) \/ Cancel(t)
      PROVE  IInv'
  <2>1. CASE Acquire(t)
    BY <2>1, AcquireKeepsGuards, AcquireKeepsKernels DEF IInv
  <2>2. CASE Wake(t)
    BY <2>2, WakeKeepsGuards, TellKeepsKernels DEF IInv
  <2>3. CASE Release(t)
    BY <2>3, GiveBackKeepsGuards, TellKeepsKernels DEF IInv
  <2>4. CASE Reuse(t)
    BY <2>4, UnguardedKeepsGuards, TellKeepsKernels DEF IInv, Unguarded
  <2>5. CASE \/ Unconnected(t) \/ \E n \in Notebooks : Post(t, n)
             \/ \E k \in Kernels : Delete(t, k)
    BY <2>5, UnguardedKeepsGuards, NothingNewKeepsKernels DEF IInv, Unguarded
  <2>6. CASE DeleteUpstream(t)
    BY <2>6, UnguardedKeepsGuards, DeleteKeepsKernels DEF IInv, Unguarded
  <2>7. CASE DropMapping(t)
    BY <2>7, UnguardedKeepsGuards, DropKeepsKernels DEF IInv, Unguarded
  <2>8. CASE StoreKernel(t)
    BY <2>8, HolderKeepsGuards, StoreKeepsKernels DEF IInv, HolderMoves
  <2>9. CASE Upstream(t)
    <3>1. TypeInv' /\ GuardInv'
      BY <2>9, HolderKeepsGuards DEF HolderMoves
    <3>2. At(t, "upstream") /\ UNCHANGED <<mapped, told>>
      BY <2>9 DEF Upstream
    <3>3. CASE GoTo(t, "release") /\ UNCHANGED <<kernels, astray>>
      BY <3>1, <3>2, <3>3, GiveUpKeepsKernels DEF IInv
    <3>4. ASSUME NEW k \in Kernels, kernels[k] = Unborn, Start(k, tasks[t].notebook),
                 \/ /\ tasks' = [tasks EXCEPT ![t].pc = "store", ![t].kernel = k]
                    /\ UNCHANGED astray
                 \/ GoTo(t, "release") /\ Strays(k)
          PROVE  IInv'
      BY <3>1, <3>2, <3>4, StartKeepsKernels DEF IInv
    <3> QED BY <2>9, <3>3, <3>4 DEF Upstream
  <2>10. CASE Cancel(t)
    <3>1. CASE At(t, "waiting")
      BY <2>10, <3>1, GiveBackKeepsGuards, NothingNewKeepsKernels DEF IInv
    <3>2. CASE At(t, "store")
      <4>1. ~At(t, "waiting")
        BY <3>2 DEF At
      <4> QED BY <2>10, <3>2, <4>1, HolderKeepsGuards, LoseKeepsKernels DEF IInv, HolderMoves
    <3>3. CASE At(t, "upstream")
      <4>1. ~At(t, "waiting") /\ ~At(t, "store")
        BY <3>3 DEF At
      <4>2. /\ UNCHANGED <<mapped, kernels, astray, told>>
            /\ tasks' = [tasks EXCEPT ![t].pc = "release", ![t].kernel = NoKernel]
        BY <2>10, <4>1 DEF Cancel
      <4>3. KernelInv'
        BY <3>3, <4>2, GiveUpKeepsKernels
      <4> QED BY <2>10, <4>1, <4>3, HolderKeepsGuards DEF IInv, HolderMoves
    <3> QED BY <2>10, <3>1, <3>2, <3>3 DEF Cancel, At
  <2> QED BY <1>2, <2>1, <2>2, <2>3, <2>4, <2>5, <2>6, <2>7, <2>8, <2>9, <2>10 DEF TaskStep
<1> QED BY <1>1, <1>2 DEF Next

\* The inductive invariant holds of every behaviour.
THEOREM Invariance == Spec => []IInv
BY InitIInv, NextIInv, PTL DEF Spec

\* Whatever fails or is cancelled, the reference count of a guard is the number of
\* tasks that hold it or wait for it, they are of the notebook the table has it
\* for, and the table keeps no guard that nobody uses (acquire_ and
\* release_kernel_creation_guard).
THEOREM GuardsAreCountedHolds == Spec => []GuardsAreCounted
<1>1. IInv => GuardsAreCounted
  <2> SUFFICES ASSUME IInv, NEW g \in Guards
               PROVE  /\ guards[g].references = Cardinality(Users(g))
                      /\ \A t \in Users(g) : table[tasks[t].notebook] = g
                      /\ (\E n \in Notebooks : table[n] = g) => Users(g) # {}
    BY DEF GuardsAreCounted
  <2>1. g # NoGuard
    BY GuardAssumption
  <2> QED BY <2>1 DEF IInv, GuardInv, Count, Users
<1> QED BY <1>1, Invariance, PTL

\* For any number of requests, notebooks and kernels: at most one kernel per
\* notebook is alive that the gateway can know of.
THEOREM OneKernelPerNotebookHolds == Spec => []OneKernelPerNotebook
<1>1. IInv => OneKernelPerNotebook
  <2> SUFFICES ASSUME IInv, NEW n \in Notebooks
               PROVE  Cardinality(LiveKernels(n) \ astray) <= 1
    BY DEF OneKernelPerNotebook
  <2>1. TypeInv /\ GuardInv /\ KernelInv
    BY DEF IInv
  <2>2. ASSUME NEW j \in LiveKernels(n) \ astray, NEW k \in LiveKernels(n) \ astray
        PROVE  j = k
    <3>1. /\ j \in Kernels \ astray /\ kernels[j].state = "live" /\ kernels[j].notebook = n
          /\ k \in Kernels \ astray /\ kernels[k].state = "live" /\ kernels[k].notebook = n
      BY <2>2 DEF LiveKernels
    <3>2. \A x \in {j, k} : mapped[n] = x \/ \E t \in Tasks : At(t, "store") /\ tasks[t].kernel = x
      BY <2>1, <3>1 DEF KernelInv
    <3>3. ASSUME NEW x \in {j, k}, NEW t \in Tasks, At(t, "store"), tasks[t].kernel = x
          PROVE  tasks[t].notebook = n /\ mapped[n] = NoKernel
      <4>1. InHands(t) /\ mapped[tasks[t].notebook] = NoKernel
        BY <2>1, <3>3 DEF KernelInv, At
      <4>2. kernels[x].notebook = tasks[t].notebook /\ kernels[x].notebook = n
        BY <3>1, <3>3, <4>1 DEF InHands
      <4> QED BY <4>1, <4>2
    <3>4. CASE mapped[n] = j /\ mapped[n] = k
      BY <3>4
    <3>5. CASE mapped[n] = j \/ mapped[n] = k
      BY <3>1, <3>2, <3>3, <3>5, KernelAssumption
    <3>6. CASE mapped[n] # j /\ mapped[n] # k
      <4>1. PICK t \in Tasks : At(t, "store") /\ tasks[t].kernel = j
        BY <3>2, <3>6
      <4>2. PICK u \in Tasks : At(u, "store") /\ tasks[u].kernel = k
        BY <3>2, <3>6
      <4>3. tasks[t].notebook = n /\ tasks[u].notebook = n
        BY <3>3, <4>1, <4>2
      <4>4. /\ tasks[t].guard = table[n] /\ tasks[u].guard = table[n]
            /\ table[n] \in Guards
        BY <2>1, <4>1, <4>2, <4>3, GuardOfTask DEF At, GuardSteps, HolderSteps
      <4>5. IsHolder(t, table[n]) /\ IsHolder(u, table[n])
        BY <4>1, <4>2, <4>4 DEF IsHolder, HolderSteps, At
      <4>6. t = u
        BY <2>1, <4>4, <4>5 DEF GuardInv
      <4> QED BY <4>1, <4>2, <4>6
    <3> QED BY <3>4, <3>5, <3>6
  <2>3. CASE LiveKernels(n) \ astray = {}
    BY <2>3, FS_EmptySet
  <2>4. CASE LiveKernels(n) \ astray # {}
    <3>1. PICK j : j \in LiveKernels(n) \ astray
      BY <2>4
    <3>2. LiveKernels(n) \ astray = {j}
      BY <2>2, <3>1
    <3>3. Cardinality({j}) = 1
      BY FS_Singleton
    <3> QED BY <3>2, <3>3
  <2> QED BY <2>3, <2>4
<1> QED BY <1>1, Invariance, PTL

\* A kernel the gateway offers for reuse is the notebook's and alive, but for a
\* DELETE that is being answered or an answer that was lost.
THEOREM MappedIsAliveHolds == Spec => []MappedIsAlive
<1>1. IInv => MappedIsAlive
  BY DEF IInv, KernelInv
<1> QED BY <1>1, Invariance, PTL

-----------------------------------------------------------------------------
(* The queue of a guard.                                                    *)

\* A set of natural numbers that is not empty has a least element.
LEMMA LeastNatural ==
  ASSUME NEW T \in SUBSET Nat, T # {}
  PROVE  Min(T) \in T /\ \A m \in T : Min(T) <= m
<1> DEFINE R == OpToRel(<, Nat)
<1>1. \A x, y \in Nat : <<x, y>> \in R <=> x < y
  BY DEF OpToRel
<1>2. IsWellFoundedOn(R, Nat)
  BY NatLessThanWellFounded
<1> HIDE DEF R
<1>3. PICK x \in T : \A y \in T : ~(<<y, x>> \in R)
   BY <1>2, WFMin
<1>4. \A y \in T : ~(y < x)
  BY <1>1, <1>3
<1>5. \A y \in T : x <= y
  BY <1>4
<1> QED
  BY <1>5 DEF Min

\* The elements of a concatenation.
LEMMA ConcatIs ==
  ASSUME NEW S, NEW s \in Seq(S), NEW t \in Seq(S)
  PROVE  /\ s \o t \in Seq(S)
         /\ Len(s \o t) = Len(s) + Len(t)
         /\ \A i \in 1..Len(s) : (s \o t)[i] = s[i]
         /\ \A i \in 1..Len(t) : (s \o t)[Len(s) + i] = t[i]
<1>1. Len(s) \in Nat /\ Len(t) \in Nat
  BY LenProperties
<1>2. /\ s \o t \in Seq(S) /\ Len(s \o t) = Len(s) + Len(t)
      /\ \A i \in 1..Len(s) + Len(t) : (s \o t)[i] = IF i <= Len(s) THEN s[i] ELSE t[i - Len(s)]
  BY ConcatProperties
<1>3. ASSUME NEW i \in 1..Len(s) PROVE (s \o t)[i] = s[i]
  BY <1>1, <1>2
<1>4. ASSUME NEW i \in 1..Len(t) PROVE (s \o t)[Len(s) + i] = t[i]
  <2>1. Len(s) + i \in 1..Len(s) + Len(t) /\ ~(Len(s) + i <= Len(s)) /\ Len(s) + i - Len(s) = i
    BY <1>1
  <2> QED
    BY <1>2, <2>1
<1> QED
  BY <1>2, <1>3, <1>4

\* A part of a sequence.
LEMMA SubSeqIs ==
  ASSUME NEW S, NEW s \in Seq(S), NEW m \in 1..Len(s) + 1, NEW n \in 0..Len(s), m <= n + 1
  PROVE  /\ SubSeq(s, m, n) \in Seq(S)
         /\ Len(SubSeq(s, m, n)) = n + 1 - m
         /\ \A i \in 1..n + 1 - m : SubSeq(s, m, n)[i] = s[m + i - 1]
<1>1. Len(s) \in Nat /\ m \in Int /\ n \in Int
  BY LenProperties
<1>2. \A i \in m..n : i \in 1..Len(s)
  BY <1>1
<1>3. \A i \in m..n : s[i] \in S
  BY <1>2, ElementOfSeq
<1>4. /\ SubSeq(s, m, n) \in Seq(S)
      /\ Len(SubSeq(s, m, n)) = IF m <= n THEN n - m + 1 ELSE 0
      /\ \A i \in 1..n - m + 1 : SubSeq(s, m, n)[i] = s[m + i - 1]
  BY <1>1, <1>3, SubSeqProperties
<1> QED
  BY <1>1, <1>4

\* An element is removed: those before it stay, the others move down.
LEMMA RemoveAtIs ==
  ASSUME NEW S, NEW s \in Seq(S), NEW i \in 1..Len(s)
  PROVE  /\ RemoveAt(s, i) \in Seq(S)
         /\ Len(RemoveAt(s, i)) = Len(s) - 1
         /\ \A j \in 1..i - 1 : RemoveAt(s, i)[j] = s[j]
         /\ \A j \in i..Len(s) - 1 : RemoveAt(s, i)[j] = s[j + 1]
<1> DEFINE a == SubSeq(s, 1, i - 1)
           b == SubSeq(s, i + 1, Len(s))
<1>1. Len(s) \in Nat /\ i \in Nat
  BY LenProperties
<1>2. /\ a \in Seq(S) /\ Len(a) = i - 1
      /\ \A j \in 1..i - 1 : a[j] = s[j]
  BY <1>1, SubSeqIs
<1>3. /\ b \in Seq(S) /\ Len(b) = Len(s) - i
      /\ \A j \in 1..Len(s) - i : b[j] = s[i + j]
  BY <1>1, SubSeqIs
<1>4. RemoveAt(s, i) = a \o b
  BY DEF RemoveAt
<1> HIDE DEF a, b
<1>5. /\ a \o b \in Seq(S) /\ Len(a \o b) = Len(a) + Len(b)
      /\ \A j \in 1..Len(a) : (a \o b)[j] = a[j]
      /\ \A j \in 1..Len(b) : (a \o b)[Len(a) + j] = b[j]
  <2>1. a \in Seq(S) /\ b \in Seq(S)
    BY <1>2, <1>3
  <2> QED
    BY <2>1, ConcatIs
<1>6. ASSUME NEW j \in i..Len(s) - 1 PROVE (a \o b)[j] = s[j + 1]
  <2>1. j - (i - 1) \in 1..Len(b) /\ Len(a) + (j - (i - 1)) = j /\ i + (j - (i - 1)) = j + 1
    BY <1>1, <1>2, <1>3
  <2>2. (a \o b)[Len(a) + (j - (i - 1))] = b[j - (i - 1)]
    BY <1>5, <2>1
  <2>3. b[j - (i - 1)] = s[i + (j - (i - 1))]
    BY <1>3, <2>1
  <2> QED
    BY <2>1, <2>2, <2>3
<1>7. Len(a \o b) = Len(s) - 1
  BY <1>1, <1>2, <1>3, <1>5
<1>8. \A j \in 1..i - 1 : (a \o b)[j] = s[j]
  BY <1>2, <1>5
<1> QED
  BY <1>4, <1>5, <1>6, <1>7, <1>8

\* The tasks that wait for a guard, and a queue that holds each of a set once.
Waiting(g) == {t \in Tasks : At(t, "waiting") /\ tasks[t].guard = g}
Queued(q, S) ==
  /\ q \in Seq(Tasks)
  /\ \A i, j \in 1..Len(q) : i # j => q[i] # q[j]
  /\ S = {q[i] : i \in 1..Len(q)}

\* A task that begins to wait.
LEMMA AppendQueued ==
  ASSUME NEW q, NEW S, Queued(q, S), NEW t \in Tasks, t \notin S
  PROVE  Queued(Append(q, t), S \cup {t})
<1>1. PICK r : r = Append(q, t)
  OBVIOUS
<1>2. PICK n \in Nat : n = Len(q)
  BY LenProperties DEF Queued
<1>3. /\ r \in Seq(Tasks) /\ Len(r) = n + 1 /\ r[n + 1] = t
      /\ \A i \in 1..n : r[i] = q[i] /\ q[i] \in S
  BY <1>1, <1>2, AppendProperties DEF Queued
<1>4. \A i \in 1..n + 1 : i \in 1..n \/ i = n + 1
  OBVIOUS
<1>5. \A i, j \in 1..Len(r) : i # j => r[i] # r[j]
  BY <1>2, <1>3, <1>4 DEF Queued
<1>6. S \cup {t} = {r[i] : i \in 1..Len(r)}
  <2>1. \A i \in 1..n : i \in 1..n + 1
    OBVIOUS
  <2>2. n + 1 \in 1..n + 1
    OBVIOUS
  <2> QED
    BY <1>2, <1>3, <1>4, <2>1, <2>2 DEF Queued
<1> QED
  BY <1>1, <1>3, <1>5, <1>6 DEF Queued

\* A task leaves the queue.
LEMMA RemovedQueued ==
  ASSUME NEW q, NEW S, Queued(q, S), NEW i \in 1..Len(q)
  PROVE  Queued(RemoveAt(q, i), S \ {q[i]})
<1>1. PICK r : r = RemoveAt(q, i)
  OBVIOUS
<1>2. PICK n \in Nat : n = Len(q)
  BY LenProperties DEF Queued
<1>3. /\ r \in Seq(Tasks) /\ Len(r) = n - 1 /\ i \in 1..n
      /\ \A j \in 1..i - 1 : r[j] = q[j]
      /\ \A j \in i..n - 1 : r[j] = q[j + 1]
  BY <1>1, <1>2, RemoveAtIs DEF Queued
<1>4. ASSUME NEW j \in 1..n - 1
      PROVE  \E k \in 1..n : k # i /\ r[j] = q[k] /\ k = IF j < i THEN j ELSE j + 1
  <2>1. CASE j < i
    <3>1. j \in 1..i - 1 /\ j \in 1..n /\ j # i
      BY <1>3, <2>1
    <3> QED
      BY <1>3, <2>1, <3>1
  <2>2. CASE ~(j < i)
    <3>1. j \in i..n - 1 /\ j + 1 \in 1..n /\ j + 1 # i
      BY <1>3, <2>2
    <3> QED
      BY <1>3, <2>2, <3>1
  <2> QED
    BY <2>1, <2>2
<1>5. ASSUME NEW k \in 1..n, k # i
      PROVE  \E j \in 1..n - 1 : r[j] = q[k]
  <2>1. CASE k < i
    <3>1. k \in 1..i - 1 /\ k \in 1..n - 1
      BY <1>3, <2>1
    <3> QED
      BY <1>3, <3>1
  <2>2. CASE ~(k < i)
    <3>1. k - 1 \in i..n - 1 /\ k - 1 \in 1..n - 1 /\ k - 1 + 1 = k
      BY <1>3, <1>5, <2>2
    <3> QED
      BY <1>3, <3>1
  <2> QED
    BY <2>1, <2>2
<1>6. ASSUME NEW a \in 1..n - 1, NEW b \in 1..n - 1, a # b
      PROVE  r[a] # r[b]
  <2>1. PICK k \in 1..n : r[a] = q[k] /\ k = IF a < i THEN a ELSE a + 1
    BY <1>4
  <2>2. PICK l \in 1..n : r[b] = q[l] /\ l = IF b < i THEN b ELSE b + 1
    BY <1>4
  <2>3. k # l
    BY <1>3, <1>6, <2>1, <2>2
  <2> QED
    BY <1>2, <2>1, <2>2, <2>3 DEF Queued
<1>7. S \ {q[i]} = {r[j] : j \in 1..Len(r)}
  <2>1. S = {q[k] : k \in 1..n} /\ \A k \in 1..n : k # i => q[k] # q[i]
    BY <1>2, <1>3 DEF Queued
  <2>2. ASSUME NEW x \in S \ {q[i]} PROVE \E j \in 1..n - 1 : x = r[j]
    <3>1. PICK k \in 1..n : x = q[k]
      BY <2>1
    <3>2. k # i
      BY <2>2, <3>1
    <3> QED
      BY <1>5, <3>1, <3>2
  <2>3. ASSUME NEW j \in 1..n - 1 PROVE r[j] \in S \ {q[i]}
    <3>1. PICK k \in 1..n : k # i /\ r[j] = q[k]
      BY <1>4
    <3> QED
      BY <2>1, <3>1
  <2>4. S \ {q[i]} = {r[j] : j \in 1..n - 1}
    BY <2>2, <2>3
  <2> QED
    BY <1>3, <2>4
<1>8. \A a, b \in 1..Len(r) : a # b => r[a] # r[b]
  BY <1>3, <1>6
<1>9. Queued(r, S \ {q[i]})
  BY <1>3, <1>7, <1>8 DEF Queued
<1> QED
  BY <1>1, <1>9

\* The one that waited longest leaves.
LEMMA TailQueued ==
  ASSUME NEW q, NEW S, Queued(q, S), S # {}
  PROVE  Queued(Tail(q), S \ {Head(q)}) /\ Head(q) \in S
<1>1. q \in Seq(Tasks) /\ q # <<>> /\ Len(q) \in Nat
  <2>1. q \in Seq(Tasks) /\ 1..Len(q) # {}
    BY DEF Queued
  <2> QED
    BY <2>1, LenProperties
<1>2. Len(q) >= 1 /\ Head(q) = q[1] /\ 1 \in 1..Len(q)
  BY <1>1, EmptySeq, HeadTailProperties
<1>3. PICK r : r = RemoveAt(q, 1)
  OBVIOUS
<1>4. /\ r \in Seq(Tasks) /\ Len(r) = Len(q) - 1
      /\ \A j \in 1..Len(q) - 1 : r[j] = q[j + 1]
  BY <1>1, <1>2, <1>3, RemoveAtIs
<1>5. /\ Tail(q) \in Seq(Tasks) /\ Len(Tail(q)) = Len(q) - 1
      /\ \A j \in 1..Len(q) - 1 : Tail(q)[j] = q[j + 1]
  BY <1>1, HeadTailProperties
<1>6. Tail(q) = r
  BY <1>4, <1>5, SeqEqual
<1>7. Queued(r, S \ {q[1]})
  BY <1>2, <1>3, RemovedQueued
<1>8. Head(q) \in S
  BY <1>2 DEF Queued
<1> QED
  BY <1>2, <1>6, <1>7, <1>8

\* A cancelled waiter is found and leaves.
LEMMA FirstRemovedQueued ==
  ASSUME NEW q, NEW S, Queued(q, S), NEW t \in S
  PROVE  Queued(RemoveFirst(q, t), S \ {t})
<1> DEFINE I == {i \in 1..Len(q) : q[i] = t}
<1>1. I # {} /\ I \in SUBSET Nat /\ \E i \in 1..Len(q) : q[i] = t
  BY DEF Queued
<1>2. RemoveFirst(q, t) = RemoveAt(q, SelectInSeq(q, LAMBDA v : v = t))
  BY <1>1 DEF RemoveFirst
<1>3. SelectInSeq(q, LAMBDA v : v = t) = IF I # {} THEN Min(I) ELSE 0
  BY DEF SelectInSeq
<1> HIDE DEF I
<1>4. Min(I) \in I
  BY <1>1, LeastNatural
<1>5. PICK i : i = Min(I)
  OBVIOUS
<1>6. i \in 1..Len(q) /\ q[i] = t
  BY <1>4, <1>5 DEF I
<1>7. RemoveFirst(q, t) = RemoveAt(q, i)
  BY <1>1, <1>2, <1>3, <1>5
<1> QED
  BY <1>6, <1>7, RemovedQueued

\* Every guard's queue is that of the tasks that wait for it, each once.
QueueInv == \A g \in Guards : Queued(guards[g].waiters, Waiting(g))

\* Only the task that moves begins or ends to wait.
LEMMA WaitingAfter ==
  ASSUME NEW t \in Tasks, Others(t), NEW g
  PROVE  Waiting(g)' = (Waiting(g) \ {t})
                       \cup {u \in {t} : At(t, "waiting")' /\ tasks'[t].guard = g}
<1>1. ASSUME NEW u \in Waiting(g)'
      PROVE  \/ u \in Waiting(g) /\ u # t
             \/ u = t /\ At(t, "waiting")' /\ tasks'[t].guard = g
  BY <1>1 DEF Waiting, At, Others
<1>2. ASSUME NEW u \in Waiting(g), u # t
      PROVE  u \in Waiting(g)'
  BY <1>2 DEF Waiting, At, Others
<1>3. At(t, "waiting")' /\ tasks'[t].guard = g => t \in Waiting(g)'
  BY DEF Waiting, At
<1> QED
  BY <1>1, <1>2, <1>3

\* No queue changes, and the task that moves waits neither before nor after.
LEMMA QueuesStay ==
  ASSUME QueueInv, NEW t \in Tasks, Others(t), ~At(t, "waiting"), ~At(t, "waiting")',
         \A g \in Guards : guards'[g].waiters = guards[g].waiters
  PROVE  QueueInv'
<1>1. \A g \in Guards : Waiting(g)' = Waiting(g)
  <2> TAKE g \in Guards
  <2>1. t \notin Waiting(g)
    BY DEF Waiting
  <2> QED
    BY <2>1, WaitingAfter
<1> QED
  BY <1>1 DEF QueueInv

\* One queue changes, and the task that moves waits there or nowhere.
LEMMA QueueChanges ==
  ASSUME QueueInv, NEW t \in Tasks, Others(t), NEW g \in Guards,
         At(t, "waiting") => tasks[t].guard = g,
         At(t, "waiting")' => tasks'[t].guard = g,
         \A h \in Guards : h # g => guards'[h].waiters = guards[h].waiters,
         Queued(guards'[g].waiters, Waiting(g)')
  PROVE  QueueInv'
<1>1. ASSUME NEW h \in Guards, h # g
      PROVE  Waiting(h)' = Waiting(h)
  <2>1. t \notin Waiting(h) /\ ~(At(t, "waiting")' /\ tasks'[t].guard = h)
    BY <1>1 DEF Waiting
  <2> QED
    BY <2>1, WaitingAfter
<1> QED
  BY <1>1 DEF QueueInv

\* A task that finds the guard taken waits at the end.
LEMMA AcquireKeepsQueues ==
  ASSUME TypeInv, GuardInv, QueueInv, NEW t \in Tasks, Acquire(t)
  PROVE  QueueInv'
<1>1. PICK n : n = tasks[t].notebook
  OBVIOUS
<1>2. PICK g \in IF table[n] = NoGuard THEN {x \in Guards : ~InUse(x)} ELSE {table[n]} :
        LET guard == IF table[n] = NoGuard THEN FreshGuard ELSE guards[g]
            free  == ~guard.locked /\ guard.waiters = <<>> IN
        /\ guards' = [guards EXCEPT ![g] = Join(guard, t, free)]
        /\ tasks' = [tasks EXCEPT ![t].guard = g,
                                  ![t].pc = IF free THEN "upstream" ELSE "waiting"]
  BY <1>1 DEF Acquire
<1>3. PICK guard : guard = IF table[n] = NoGuard THEN FreshGuard ELSE guards[g]
  OBVIOUS
<1>4. PICK free \in BOOLEAN : free <=> (~guard.locked /\ guard.waiters = <<>>)
  OBVIOUS
<1>5. /\ guards' = [guards EXCEPT ![g] = Join(guard, t, free)]
      /\ tasks' = [tasks EXCEPT ![t].guard = g,
                                ![t].pc = IF free THEN "upstream" ELSE "waiting"]
  BY <1>2, <1>3, <1>4
<1>6. tasks[t].pc = "post" /\ tasks[t] \in Task /\ n \in Notebooks
  BY <1>1 DEF Acquire, At, TypeInv, CreateSteps
<1>7. /\ g \in Guards
      /\ table[n] = NoGuard => ~InUse(g)
  BY <1>2, <1>6 DEF TypeInv
<1>8. /\ Others(t) /\ tasks'[t].guard = g
      /\ tasks'[t].pc = IF free THEN "upstream" ELSE "waiting"
  BY <1>5, <1>6 DEF TypeInv, Task, Others
<1>9. PICK w : w = guard.waiters
  OBVIOUS
<1>10. /\ guards'[g].waiters = IF free THEN <<>> ELSE Append(w, t)
       /\ \A h \in Guards : h # g => guards'[h] = guards[h]
  BY <1>5, <1>7, <1>9 DEF TypeInv, Join
<1>11. Queued(w, Waiting(g))
  <2>1. CASE table[n] = NoGuard
    <3>1. Waiting(g) = {} /\ w = <<>>
      BY <1>3, <1>7, <1>9, <2>1 DEF InUse, Waiting, FreshGuard
    <3> QED
      BY <3>1, EmptySeq DEF Queued
  <2>2. CASE table[n] # NoGuard
    BY <1>3, <1>7, <1>9, <2>2 DEF QueueInv
  <2> QED
    BY <2>1, <2>2
<1>12. t \notin Waiting(g)
  BY <1>6 DEF Waiting, At
<1>13. Queued(guards'[g].waiters, Waiting(g)')
  <2>1. CASE free
    <3>1. guards'[g].waiters = w /\ ~At(t, "waiting")'
      BY <1>4, <1>8, <1>9, <1>10, <2>1 DEF At
    <3>2. Waiting(g)' = Waiting(g)
      BY <1>8, <1>12, <3>1, WaitingAfter
    <3> QED
      BY <1>11, <3>1, <3>2
  <2>2. CASE ~free
    <3>1. guards'[g].waiters = Append(w, t) /\ At(t, "waiting")'
      BY <1>8, <1>10, <2>2 DEF At
    <3>2. Waiting(g)' = Waiting(g) \cup {t}
      BY <1>8, <1>12, <3>1, WaitingAfter
    <3> QED
      BY <1>11, <1>12, <3>1, <3>2, AppendQueued
  <2> QED
    BY <2>1, <2>2
<1>14. ~At(t, "waiting")
  BY <1>6 DEF At
<1> QED
  BY <1>7, <1>8, <1>10, <1>13, <1>14, QueueChanges

\* The waiter that is woken up leaves the queue.
LEMMA WakeKeepsQueues ==
  ASSUME TypeInv, GuardInv, QueueInv, NEW t \in Tasks, Wake(t)
  PROVE  QueueInv'
<1>1. PICK g : g = tasks[t].guard
  OBVIOUS
<1>2. PICK w : w = guards[g].waiters
  OBVIOUS
<1>3. /\ tasks[t].pc = "waiting" /\ g \in Guards /\ t \in Waiting(g)
      /\ Head(w) = t
  BY <1>1, <1>2, GuardOfTask DEF Wake, IsWoken, At, GuardSteps, Waiting
<1>4. IsEntry(guards[g]) /\ DOMAIN guards = Guards
  BY <1>3 DEF TypeInv
<1>5. Queued(Tail(w), Waiting(g) \ {t})
  <2>1. Queued(w, Waiting(g))
    BY <1>2, <1>3 DEF QueueInv
  <2> QED
    BY <1>3, <2>1, TailQueued
<1>6. /\ guards'[g].waiters = Tail(w)
      /\ \A h \in Guards : h # g => guards'[h] = guards[h]
  <2>1. CASE mapped[tasks[t].notebook] = NoKernel
    <3>1. guards' = [guards EXCEPT ![g].locked = TRUE, ![g].waiters = Tail(@)]
      BY <1>1, <2>1 DEF Wake
    <3>2. PICK R, W : guards[g] \in [references: R, locked: BOOLEAN, waiters: W]
      BY <1>4 DEF IsEntry
    <3> QED
      BY <1>2, <1>3, <1>4, <3>1, <3>2
  <2>2. CASE mapped[tasks[t].notebook] # NoKernel
    <3> DEFINE entry == [Less(g) EXCEPT !.waiters = Tail(@)]
    <3>1. IsEntry(Less(g)) /\ Less(g).waiters = w
      BY <1>2, <1>4, LessIsEntry
    <3>2. entry.waiters = Tail(Less(g).waiters)
      BY <3>1, EntryQueue, Zenon
    <3>3. guards' = [guards EXCEPT ![g] = entry]
      BY <1>1, <2>2 DEF Wake, Drop
    <3> HIDE DEF entry
    <3> QED
      BY <1>3, <1>4, <3>1, <3>2, <3>3
  <2> QED
    BY <2>1, <2>2
<1>7. Others(t) /\ ~At(t, "waiting")'
  <2>1. CASE GoTo(t, "upstream")
    BY <2>1, Goes DEF Steps, CreateSteps, At
  <2>2. CASE Finish(t)
    BY <2>2, Finishes DEF Idle, At
  <2> QED
    BY <2>1, <2>2 DEF Wake
<1>8. Waiting(g)' = Waiting(g) \ {t}
  BY <1>7, WaitingAfter
<1> QED
  BY <1>1, <1>3, <1>5, <1>6, <1>7, <1>8, QueueChanges

\* The holder unlocks the guard and leaves its queue as it is.
LEMMA ReleaseKeepsQueues ==
  ASSUME TypeInv, GuardInv, QueueInv, NEW t \in Tasks, Release(t)
  PROVE  QueueInv'
<1>1. PICK g : g = tasks[t].guard
  OBVIOUS
<1>2. tasks[t].pc = "release" /\ g \in Guards
  BY <1>1, GuardOfTask DEF Release, At, GuardSteps, HolderSteps
<1>3. IsEntry(guards[g]) /\ DOMAIN guards = Guards
  BY <1>2 DEF TypeInv
<1> DEFINE entry == [Less(g) EXCEPT !.locked = FALSE]
<1>4. IsEntry(Less(g)) /\ Less(g).waiters = guards[g].waiters
  BY <1>3, LessIsEntry
<1>5. entry.waiters = Less(g).waiters
  BY <1>4, EntryUnlocked, Zenon
<1>6. guards' = [guards EXCEPT ![g] = entry]
  BY <1>1 DEF Release, Drop
<1> HIDE DEF entry
<1>7. \A h \in Guards : guards'[h].waiters = guards[h].waiters
  BY <1>2, <1>3, <1>4, <1>5, <1>6
<1>8. Others(t) /\ ~At(t, "waiting") /\ ~At(t, "waiting")'
  BY <1>2, Finishes DEF Release, Idle, At
<1> QED
  BY <1>7, <1>8, QueuesStay

\* A waiter that is cancelled leaves the queue, wherever it stood.
LEMMA CancelKeepsQueues ==
  ASSUME TypeInv, GuardInv, QueueInv, NEW t \in Tasks, Cancel(t), At(t, "waiting")
  PROVE  QueueInv'
<1>1. PICK g : g = tasks[t].guard
  OBVIOUS
<1>2. PICK w : w = guards[g].waiters
  OBVIOUS
<1>3. tasks[t].pc = "waiting" /\ g \in Guards /\ t \in Waiting(g)
  BY <1>1, GuardOfTask DEF At, GuardSteps, Waiting
<1>4. IsEntry(guards[g]) /\ DOMAIN guards = Guards
  BY <1>3 DEF TypeInv
<1>5. Queued(RemoveFirst(w, t), Waiting(g) \ {t})
  BY <1>2, <1>3, FirstRemovedQueued DEF QueueInv
<1> DEFINE entry == [Less(g) EXCEPT !.waiters = RemoveFirst(@, t)]
<1>6. IsEntry(Less(g)) /\ Less(g).waiters = w
  BY <1>2, <1>4, LessIsEntry
<1>7. entry.waiters = RemoveFirst(Less(g).waiters, t)
  BY <1>6, EntryQueue, Zenon
<1>8. guards' = [guards EXCEPT ![g] = entry]
  BY <1>1 DEF Cancel, Drop
<1> HIDE DEF entry
<1>9. /\ guards'[g].waiters = RemoveFirst(w, t)
      /\ \A h \in Guards : h # g => guards'[h] = guards[h]
  BY <1>3, <1>4, <1>6, <1>7, <1>8
<1>10. Others(t) /\ ~At(t, "waiting")'
  BY Finishes DEF Cancel, Idle, At
<1>11. Waiting(g)' = Waiting(g) \ {t}
  BY <1>10, WaitingAfter
<1> QED
  BY <1>1, <1>3, <1>5, <1>9, <1>10, <1>11, QueueChanges

\* The other steps are those of tasks that neither wait nor begin to.
LEMMA OtherStepsKeepQueues ==
  ASSUME TypeInv, GuardInv, QueueInv, NEW t \in Tasks, Unguarded(t) \/ HolderMoves(t)
  PROVE  QueueInv'
<1>1. UNCHANGED guards /\ ~At(t, "waiting")
  BY DEF Unguarded, Post, Delete, Unconnected, Reuse, DeleteUpstream, DropMapping,
         HolderMoves, Upstream, StoreKernel, Cancel, At
<1>2. Others(t) /\ ~At(t, "waiting")'
  <2>1. CASE Finish(t)
    BY <2>1, Finishes DEF Idle, At
  <2>2. CASE GoTo(t, "drop") \/ GoTo(t, "release")
    BY <2>2, Goes DEF Steps, CreateSteps, At
  <2>3. CASE \E k : \/ tasks' = [tasks EXCEPT ![t].pc = "store", ![t].kernel = k]
                    \/ tasks' = [tasks EXCEPT ![t].pc = "release", ![t].kernel = k]
    BY <2>3 DEF TypeInv, Task, Others, At
  <2>4. CASE \E n \in Notebooks : Post(t, n)
    BY <2>4 DEF Post, Idle, TypeInv, Others, At
  <2>5. CASE \E k \in Kernels : Delete(t, k)
    BY <2>5 DEF Delete, Idle, TypeInv, Others, At
  <2> QED
    BY <1>1, <2>1, <2>2, <2>3, <2>4, <2>5
       DEF Unguarded, Unconnected, Reuse, DeleteUpstream, DropMapping,
           HolderMoves, Upstream, StoreKernel, Cancel
<1> QED
  BY <1>1, <1>2, QueuesStay

\* Only kernels go astray.
LEMMA OnlyKernelsStray ==
  ASSUME IInv, astray \subseteq Kernels, NEW t \in Tasks,
         \/ \E n \in Notebooks : Post(t, n)
         \/ \E k \in Kernels : Delete(t, k)
         \/ TaskStep(t) \/ Cancel(t)
  PROVE  astray' \subseteq Kernels
<1>1. CASE UNCHANGED astray
  BY <1>1
<1>2. ASSUME Upstream(t), NEW k \in Kernels, Strays(k)
      PROVE  astray' \subseteq Kernels
  BY <1>2 DEF Strays
<1>3. CASE At(t, "store") /\ Strays(tasks[t].kernel)
  <2>1. InHands(t)
    BY <1>3 DEF IInv, KernelInv
  <2> QED
    BY <1>3, <2>1 DEF Strays, InHands
<1>4. CASE At(t, "delete") /\ Strays(tasks[t].kernel)
  BY <1>4 DEF Strays, IInv, KernelInv, TypeInv, At
<1> QED
  BY <1>1, <1>2, <1>3, <1>4
     DEF Post, Delete, TaskStep, Unconnected, Acquire, Reuse, Wake, Upstream, StoreKernel,
         Release, DeleteUpstream, DropMapping, Cancel

LEMMA NextQueueInv ==
  ASSUME IInv, QueueInv, astray \subseteq Kernels, [Next]_vars
  PROVE  QueueInv' /\ astray' \subseteq Kernels
<1>1. TypeInv /\ GuardInv
  BY DEF IInv
<1>2. CASE UNCHANGED vars
  <2>1. \A g : Waiting(g)' = Waiting(g)
    BY <1>2 DEF Waiting, At, vars
  <2> QED
    BY <1>2, <2>1 DEF QueueInv, vars
<1>3. ASSUME NEW t \in Tasks,
             \/ \E n \in Notebooks : Post(t, n)
             \/ \E k \in Kernels : Delete(t, k)
             \/ TaskStep(t) \/ Cancel(t)
      PROVE  QueueInv' /\ astray' \subseteq Kernels
  <2>1. astray' \subseteq Kernels
    BY <1>3, OnlyKernelsStray
  <2>2. CASE Acquire(t)
    BY <1>1, <2>1, <2>2, AcquireKeepsQueues
  <2>3. CASE Wake(t)
    BY <1>1, <2>1, <2>3, WakeKeepsQueues
  <2>4. CASE Release(t)
    BY <1>1, <2>1, <2>4, ReleaseKeepsQueues
  <2>5. CASE Cancel(t) /\ At(t, "waiting")
    BY <1>1, <2>1, <2>5, CancelKeepsQueues
  <2>6. CASE Unguarded(t) \/ HolderMoves(t)
    BY <1>1, <2>1, <2>6, OtherStepsKeepQueues
  <2>7. Acquire(t) \/ Wake(t) \/ Release(t) \/ (Cancel(t) /\ At(t, "waiting"))
        \/ Unguarded(t) \/ HolderMoves(t)
    BY <1>3 DEF TaskStep, Unguarded, HolderMoves
  <2> QED
    BY <2>1, <2>2, <2>3, <2>4, <2>5, <2>6, <2>7
<1> QED
  BY <1>2, <1>3 DEF Next

\* The queues, for the theorems below.
THEOREM QueuesHold == Spec => [](QueueInv /\ astray \subseteq Kernels)
<1>1. Init => QueueInv /\ astray \subseteq Kernels
  <2> SUFFICES ASSUME Init PROVE QueueInv /\ astray \subseteq Kernels
    OBVIOUS
  <2>1. \A g \in Guards : Waiting(g) = {} /\ guards[g].waiters = <<>>
    BY DEF Init, Idle, Waiting, At, FreshGuard
  <2>2. Queued(<<>>, {})
    BY EmptySeq DEF Queued
  <2> QED
    BY <2>1, <2>2 DEF QueueInv, Init
<1>2. IInv /\ (QueueInv /\ astray \subseteq Kernels) /\ [Next]_vars
        => (QueueInv /\ astray \subseteq Kernels)'
  BY NextQueueInv
<1> QED
  BY <1>1, <1>2, Invariance, PTL DEF Spec

\* Type correctness, with the count and the queue of every guard.
THEOREM TypeCorrect == Spec => []TypeOK
<1>1. IInv /\ (QueueInv /\ astray \subseteq Kernels) => TypeOK
  <2> SUFFICES ASSUME TypeInv, GuardInv, QueueInv, astray \subseteq Kernels
               PROVE  TypeOK
    BY DEF IInv
  <2>1. ASSUME NEW g \in Guards PROVE guards[g] \in Guard
    <3>1. guards[g].references \in Nat
      BY FS_CardinalityType DEF GuardInv, Count
    <3>2. guards[g].waiters \in Seq(Tasks)
      BY DEF QueueInv, Queued
    <3>3. PICK R, W : guards[g] \in [references: R, locked: BOOLEAN, waiters: W]
      BY DEF TypeInv, IsEntry
    <3> QED
      BY <3>1, <3>2, <3>3 DEF Guard
  <2>2. guards \in [Guards -> Guard]
    BY <2>1 DEF TypeInv
  <2> QED
    BY <2>2 DEF TypeInv, TypeOK
<1> QED
  BY <1>1, Invariance, QueuesHold, PTL

\* Whoever fails or is cancelled, and when: as long as a task waits for the lock of
\* a guard, another holds it or the first of the queue has been woken.
THEOREM NoLostWakeUpHolds == Spec => []NoLostWakeUp
<1>1. IInv /\ (QueueInv /\ astray \subseteq Kernels) => NoLostWakeUp
  <2> SUFFICES ASSUME TypeInv, GuardInv, QueueInv, NEW t \in Tasks, At(t, "waiting")
               PROVE  \E u \in Users(tasks[t].guard) :
                        tasks[u].pc \in HolderSteps \/ IsWoken(u)
    BY DEF IInv, NoLostWakeUp, HolderSteps
  <2>1. PICK g : g = tasks[t].guard
    OBVIOUS
  <2>2. g \in Guards /\ t \in Waiting(g)
    BY <2>1, GuardOfTask DEF At, GuardSteps, Waiting
  <2>3. CASE guards[g].locked
    <3>1. PICK u \in Tasks : IsHolder(u, g)
      BY <2>2, <2>3 DEF GuardInv
    <3> QED
      BY <2>1, <3>1 DEF IsHolder, Users
  <2>4. CASE ~guards[g].locked
    <3>1. PICK u : u = Head(guards[g].waiters)
      OBVIOUS
    <3>2. u \in Waiting(g)
      BY <2>2, <3>1, TailQueued DEF QueueInv
    <3> QED
      BY <2>1, <2>4, <3>1, <3>2 DEF Waiting, IsWoken, Users
  <2> QED
    BY <2>3, <2>4
<1> QED
  BY <1>1, Invariance, QueuesHold, PTL
=============================================================================

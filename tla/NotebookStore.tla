---------------------------- MODULE NotebookStore ----------------------------
(***************************************************************************)
(* What the notebook service promises (notebook-service, API v1): every    *)
(* notebook is a list of revisions that only ever grows at its end, a save *)
(* takes effect only if it was based on the last revision, and a write     *)
(* that carries an idempotency key takes effect at most once.              *)
(*                                                                         *)
(* A write is one step here.  How the service splits it over a file store, *)
(* a database transaction and an answer is the module NotebookService.     *)
(***************************************************************************)
EXTENDS Naturals, Sequences

CONSTANTS
  Notebooks,    \* the notebook ids uuid4 may produce
  Contents,     \* notebook documents
  Keys,         \* values of the Idempotency-Key header
  Default,      \* body of a create request that leaves content to the service
  NoWrite,      \* what done holds for a key that was never used
  MaxRevision   \* bound: revisions of a notebook

VARIABLES
  history,  \* the contents of each notebook's revisions; empty: not created
  done      \* what each key was used for, per method

storeVars == <<history, done>>

Methods == {"POST", "PUT"}

\* A write request, as its hash tells it from others: the path is not part of it.
Requests == [base : 0..MaxRevision, body : Contents \cup {Default}]

Writes ==
  [request : Requests, notebook : Notebooks, revision : 1..MaxRevision, changed : BOOLEAN]

\* The contents a create request may yield: cell ids are made up by the service.
Yields(body) == IF body = Default THEN Contents ELSE {body}

Record(method, k, q, n, revision, changed) ==
  done' = [done EXCEPT ![<<method, k>>] =
             [request |-> q, notebook |-> n, revision |-> revision, changed |-> changed]]

Init ==
  /\ history = [n \in Notebooks |-> <<>>]
  /\ done = [m \in Methods \X Keys |-> NoWrite]

Create(k, q, n, c) ==
  /\ done[<<"POST", k>>] = NoWrite
  /\ q.base = 0 /\ c \in Yields(q.body)
  /\ history[n] = <<>>
  /\ history' = [history EXCEPT ![n] = <<c>>]
  /\ Record("POST", k, q, n, 1, TRUE)

Save(k, q, n) ==
  LET head == Len(history[n]) IN
  /\ done[<<"PUT", k>>] = NoWrite
  /\ head > 0 /\ q.base = head
  /\ IF history[n][head] = q.body
       THEN /\ UNCHANGED history
            /\ Record("PUT", k, q, n, head, FALSE)
       ELSE /\ head < MaxRevision
            /\ history' = [history EXCEPT ![n] = Append(@, q.body)]
            /\ Record("PUT", k, q, n, head + 1, TRUE)

Next ==
  \E k \in Keys, n \in Notebooks, q \in Requests :
    \/ \E c \in Contents : Create(k, q, n, c)
    \/ q.body \in Contents /\ Save(k, q, n)

Spec == Init /\ [][Next]_storeVars

-----------------------------------------------------------------------------
(* Properties *)

Changed(m) == done[m] # NoWrite /\ done[m].changed

\* Every revision was made by exactly one keyed request: none appears by itself,
\* and no two requests share one (save_notebook's CAS and its idempotency record
\* are one transaction).
OneRequestPerRevision ==
  \A n \in Notebooks : \A i \in 1..Len(history[n]) :
    \E m \in Methods \X Keys :
      /\ Changed(m) /\ done[m].notebook = n /\ done[m].revision = i
      /\ \A o \in Methods \X Keys :
           Changed(o) /\ done[o].notebook = n /\ done[o].revision = i => o = m

\* Revisions are immutable and a key, once used, keeps its result.
NothingIsRewritten ==
  [][/\ \A n \in Notebooks : \A i \in 1..Len(history[n]) :
          i <= Len(history'[n]) /\ history'[n][i] = history[n][i]
     /\ \A m \in Methods \X Keys : done[m] # NoWrite => done'[m] = done[m]]_storeVars

==============================================================================

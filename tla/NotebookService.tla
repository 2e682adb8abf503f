--------------------------- MODULE NotebookService ---------------------------
(***************************************************************************)
(* The notebook service, API v1 (notebook-service/app): request threads    *)
(* that publish a content-addressed blob, then run one database            *)
(* transaction, then answer; and the restarts and power losses between     *)
(* these steps.                                                            *)
(*                                                                         *)
(* Every database transaction starts with BEGIN IMMEDIATE (database.py),   *)
(* so transactions are serial and each method of the repository is one     *)
(* step.  A content stands for a document, for its canonical bytes and for *)
(* the SHA-256 that names its blob.  Titles, sizes and times do not        *)
(* influence control and are left out, as is the validation of documents,  *)
(* which rejects a request before it reaches any state.                    *)
(***************************************************************************)
EXTENDS Naturals, Sequences, FiniteSets

CONSTANTS
  Notebooks,   \* the notebook ids uuid4 may produce
  Contents,    \* notebook documents
  Keys,        \* values of the Idempotency-Key header
  Default,     \* body of a create request that leaves content to the service
  Threads,     \* request threads of the service's thread pool
  NoNotebook,  \* the notebook a call does not name
  NoContent,   \* no document, no revision row
  NoKey,       \* key of a call that carries none
  NoWrite,     \* no idempotency record
  MaxRevision, \* bound: revisions of a notebook
  MaxCrashes,  \* bound: restarts of the service
  Faults       \* which failures the environment may produce

ASSUME DefaultAssumption  == Default \notin Contents
ASSUME NotebookAssumption == NoNotebook \notin Notebooks
ASSUME ContentAssumption  == NoContent \notin Contents \cup {Default}
ASSUME KeyAssumption      == NoKey \notin Keys
ASSUME RevisionAssumption == MaxRevision \in Nat \ {0}
ASSUME CrashAssumption    == MaxCrashes \in Nat
ASSUME FaultsAssumption   == Faults \subseteq {"blob", "sync", "database", "power"}

VARIABLES
  notebooks,    \* table notebooks: current_revision, current_content_hash
  revisions,    \* table notebook_revisions, keyed by notebook and number
  idempotency,  \* table idempotency_records, keyed by scope and key
  blobs,        \* the blob files
  calls,        \* state of each request thread
  answers,      \* history: the successful answers given to writes
  crashes       \* history: restarts so far

tables == <<notebooks, revisions, idempotency>>

vars == <<notebooks, revisions, idempotency, blobs, calls, answers, crashes>>

-----------------------------------------------------------------------------
(* Records and states *)

\* scope = caller, method and path template: the template of PUT is the same
\* text for every notebook, and there is one caller, so the method is the scope.
Scopes == {"POST", "PUT"}

Methods == Scopes \cup {"GET", "REVISION"}

\* The envelope that request_hash is computed from; the path is not part of it.
\* The reading methods use base for the revision they ask for.
Requests == [base : 0..MaxRevision, body : Contents \cup {Default}]

NoRequest == [base |-> 0, body |-> Default]

NotebookHead == [revision : 0..MaxRevision, content : Contents \cup {NoContent}]

NoHead == [revision |-> 0, content |-> NoContent]

\* What a request is answered with.
Result ==
  [notebook : Notebooks \cup {NoNotebook},
   revision : 0..MaxRevision,
   content  : Contents \cup {NoContent},
   changed  : BOOLEAN]

NoResult ==
  [notebook |-> NoNotebook, revision |-> 0, content |-> NoContent, changed |-> FALSE]

Writes == [request : Requests, result : Result]

ASSUME NoWriteAssumption == NoWrite \notin Writes

BlobStates == {"absent", "published", "durable"}

Steps ==
  {"idle", "exists", "put", "sync", "commit", "head", "revision", "read", "reply", "broken"}

CallRecord ==
  [pc       : Steps,
   method   : Methods,
   key      : Keys \cup {NoKey},
   request  : Requests,
   target   : Notebooks \cup {NoNotebook},
   document : Contents \cup {NoContent},
   result   : Result]

NoCall ==
  [pc |-> "idle", method |-> "GET", key |-> NoKey, request |-> NoRequest,
   target |-> NoNotebook, document |-> NoContent, result |-> NoResult]

\* The contents a create request may yield: cell ids are made up by the service.
Yields(body) == IF body = Default THEN Contents ELSE {body}

-----------------------------------------------------------------------------
(* Thread bookkeeping *)

At(t, step) == calls[t].pc = step

GoTo(t, step) == calls' = [calls EXCEPT ![t].pc = step]

Found(t, step, result) == calls' = [calls EXCEPT ![t].pc = step, ![t].result = result]

\* An answer that reports a failure: 404, 409, 500 or 503.
Refuse(t) == calls' = [calls EXCEPT ![t] = NoCall]

-----------------------------------------------------------------------------
(* Requests arrive *)

Receive(t, call) ==
  /\ At(t, "idle")
  /\ calls' = [calls EXCEPT ![t] = call]
  /\ UNCHANGED <<tables, blobs, answers, crashes>>

\* NotebookService.create fixes the document before anything else.
ReceiveCreate(t, k) ==
  \E body \in Contents \cup {Default} : \E c \in Yields(body) :
    Receive(t, [NoCall EXCEPT !.pc = "put", !.method = "POST", !.key = k,
                              !.request = [base |-> 0, body |-> body], !.document = c])

ReceiveSave(t, k, n) ==
  \E base \in 1..MaxRevision, c \in Contents :
    Receive(t, [NoCall EXCEPT !.pc = "exists", !.method = "PUT", !.key = k, !.target = n,
                              !.request = [base |-> base, body |-> c], !.document = c])

ReceiveGet(t, n) == Receive(t, [NoCall EXCEPT !.pc = "head", !.target = n])

ReceiveRevision(t, n) ==
  \E i \in 1..MaxRevision :
    Receive(t, [NoCall EXCEPT !.pc = "head", !.method = "REVISION", !.target = n,
                              !.request.base = i])

-----------------------------------------------------------------------------
(* The blob store *)

BlobExistsAssumed(t) ==  \* wrong: the transaction does not wait for the blob
  /\ At(t, "exists")
  /\ GoTo(t, "commit")
  /\ UNCHANGED <<tables, blobs, answers, crashes>>

\* save skips the put when the file is there already.
BlobExists(t) ==
  /\ At(t, "exists")
  /\ GoTo(t, IF blobs[calls[t].document] = "absent" THEN "put" ELSE "commit")
  /\ UNCHANGED <<tables, blobs, answers, crashes>>

\* The temporary file is written, synced and renamed: readers see all of it or
\* nothing.  Its directory entry may still be lost with the power.
PutBlob(t) ==
  /\ At(t, "put")
  /\ \/ /\ blobs' = [blobs EXCEPT ![calls[t].document] = IF @ = "absent" THEN "published" ELSE @]
        /\ GoTo(t, "sync")
     \/ /\ "blob" \in Faults
        /\ Refuse(t)
        /\ UNCHANGED blobs
  /\ UNCHANGED <<tables, answers, crashes>>

\* fsync of the directory; an error is swallowed.
SyncBlob(t) ==
  /\ At(t, "sync")
  /\ \/ blobs' = [blobs EXCEPT ![calls[t].document] = "durable"]
     \/ "sync" \in Faults /\ UNCHANGED blobs
  /\ GoTo(t, "commit")
  /\ UNCHANGED <<tables, answers, crashes>>

-----------------------------------------------------------------------------
(* Transactions of the repository *)

Record(method, k, q, result) ==
  idempotency' = [idempotency EXCEPT ![<<method, k>>] = [request |-> q, result |-> result]]

InsertRevision(n, i, c) == revisions' = [revisions EXCEPT ![n][i] = c]

\* _resolve_idempotency: the key was used before.
Resolve(t) ==
  LET call == calls[t]
      done == idempotency[<<call.method, call.key>>]
      lost == \/ notebooks[done.result.notebook] = NoHead
              \/ revisions[done.result.notebook][done.result.revision] = NoContent IN
  /\ IF done.request # call.request THEN Refuse(t)
     ELSE IF lost THEN GoTo(t, "broken")
     ELSE Found(t, IF call.method = "POST" THEN "read" ELSE "reply", done.result)
  /\ UNCHANGED tables

Unused == {n \in Notebooks : notebooks[n] = NoHead}

\* create_notebook with a fresh id.
InsertNotebook(t) ==
  LET call == calls[t]
      c    == call.document IN
  \E n \in Unused :
    LET result == [notebook |-> n, revision |-> 1, content |-> c, changed |-> TRUE] IN
    /\ notebooks' = [notebooks EXCEPT ![n] = [revision |-> 1, content |-> c]]
    /\ InsertRevision(n, 1, c)
    /\ Record("POST", call.key, call.request, result)
    /\ Found(t, "reply", result)

CommitCreateUnkeyed(t) ==  \* wrong: a create does not look its key up
  /\ At(t, "commit") /\ calls[t].method = "POST"
  /\ InsertNotebook(t)
  /\ UNCHANGED <<blobs, answers, crashes>>

\* A create that finds no id unused (the bound Notebooks) is dropped.
CommitCreate(t) ==
  /\ At(t, "commit") /\ calls[t].method = "POST"
  /\ IF idempotency[<<"POST", calls[t].key>>] # NoWrite THEN Resolve(t)
     ELSE \/ InsertNotebook(t)
          \/ Unused = {} /\ Refuse(t) /\ UNCHANGED tables
  /\ UNCHANGED <<blobs, answers, crashes>>

BaseIgnored(t) ==  \* wrong: the last writer wins
  notebooks[calls[t].target].revision > 0

\* current_revision = base_revision, checked and compared and set in one transaction.
BaseIsHead(t) ==
  notebooks[calls[t].target].revision = calls[t].request.base

AdvanceInPlace(t) ==  \* wrong: the new content replaces the head revision
  LET call   == calls[t]
      n      == call.target
      result == [notebook |-> n, revision |-> notebooks[n].revision, content |-> call.document,
                 changed |-> TRUE] IN
  /\ notebooks' = [notebooks EXCEPT ![n].content = call.document]
  /\ InsertRevision(n, result.revision, call.document)
  /\ Record("PUT", call.key, call.request, result)
  /\ Found(t, "reply", result)

\* A save that exceeds the bound MaxRevision is dropped.
Advance(t) ==
  LET call   == calls[t]
      n      == call.target
      next   == notebooks[n].revision + 1
      result == [notebook |-> n, revision |-> next, content |-> call.document,
                 changed |-> TRUE] IN
  \/ /\ next <= MaxRevision
     /\ notebooks' = [notebooks EXCEPT ![n] = [revision |-> next, content |-> call.document]]
     /\ InsertRevision(n, next, call.document)
     /\ Record("PUT", call.key, call.request, result)
     /\ Found(t, "reply", result)
  \/ next > MaxRevision /\ Refuse(t) /\ UNCHANGED tables

\* The content is the head's already: the head stays, the key is used up.
KeepHead(t) ==
  LET call   == calls[t]
      head   == notebooks[call.target]
      result == [notebook |-> call.target, revision |-> head.revision, content |-> head.content,
                 changed |-> FALSE] IN
  /\ Record("PUT", call.key, call.request, result)
  /\ Found(t, "reply", result)
  /\ UNCHANGED <<notebooks, revisions>>

CommitSave(t) ==
  /\ At(t, "commit") /\ calls[t].method = "PUT"
  /\ LET head == notebooks[calls[t].target] IN
       IF idempotency[<<"PUT", calls[t].key>>] # NoWrite THEN Resolve(t)
       ELSE IF head = NoHead \/ ~BaseIsHead(t) THEN Refuse(t) /\ UNCHANGED tables
       ELSE IF revisions[calls[t].target][head.revision] = NoContent
              THEN GoTo(t, "broken") /\ UNCHANGED tables
       ELSE IF head.content = calls[t].document THEN KeepHead(t)
       ELSE Advance(t)
  /\ UNCHANGED <<blobs, answers, crashes>>

-----------------------------------------------------------------------------
(* Reading: two transactions and a file *)

FindHead(t) ==
  /\ At(t, "head")
  /\ LET head   == notebooks[calls[t].target]
         number == IF calls[t].method = "GET" THEN head.revision ELSE calls[t].request.base IN
       IF head = NoHead THEN Refuse(t)
       ELSE Found(t, "revision",
                  [NoResult EXCEPT !.notebook = calls[t].target, !.revision = number])
  /\ UNCHANGED <<tables, blobs, answers, crashes>>

\* The head's row cannot be missing; another row is answered with 404.  The
\* client may hold the etag already, then (304) no content is read.
FindRevision(t) ==
  /\ At(t, "revision")
  /\ LET result == calls[t].result
         row    == revisions[result.notebook][result.revision] IN
       IF row = NoContent
         THEN IF calls[t].method = "GET" THEN GoTo(t, "broken") ELSE Refuse(t)
         ELSE \E step \in {"read", "reply"} :
                Found(t, step, [result EXCEPT !.content = row])
  /\ UNCHANGED <<tables, blobs, answers, crashes>>

ReadBlob(t) ==
  /\ At(t, "read")
  /\ GoTo(t, IF blobs[calls[t].result.content] = "absent" THEN "broken" ELSE "reply")
  /\ UNCHANGED <<tables, blobs, answers, crashes>>

-----------------------------------------------------------------------------
(* Answers *)

Reply(t) ==
  /\ At(t, "reply")
  /\ answers' = IF calls[t].method \in Scopes
                  THEN answers \cup
                         {[method |-> calls[t].method, key |-> calls[t].key,
                           request |-> calls[t].request, target |-> calls[t].target,
                           result |-> calls[t].result]}
                  ELSE answers
  /\ Refuse(t)
  /\ UNCHANGED <<tables, blobs, crashes>>

\* InternalError is answered with 500.  A database that cannot be reached (the
\* transaction is rolled back) and a file that cannot be read give 503.
ReplyFailure(t) ==
  /\ calls[t].pc \in {"broken"} \cup
       (IF "database" \in Faults THEN {"commit", "head", "revision", "read"} ELSE {})
  /\ Refuse(t)
  /\ UNCHANGED <<tables, blobs, answers, crashes>>

-----------------------------------------------------------------------------
(* Restarts *)

\* Every thread is lost.  With the power, files may go whose directory entry was
\* not synced; the database (synchronous = FULL) keeps what it committed.
Crash ==
  /\ crashes < MaxCrashes
  /\ crashes' = crashes + 1
  /\ calls' = [t \in Threads |-> NoCall]
  /\ \E lost \in SUBSET {c \in Contents : "power" \in Faults /\ blobs[c] = "published"} :
       blobs' = [c \in Contents |-> IF c \in lost THEN "absent" ELSE blobs[c]]
  /\ UNCHANGED <<tables, answers>>

-----------------------------------------------------------------------------
Init ==
  /\ notebooks = [n \in Notebooks |-> NoHead]
  /\ revisions = [n \in Notebooks |-> [i \in 1..MaxRevision |-> NoContent]]
  /\ idempotency = [m \in Scopes \X Keys |-> NoWrite]
  /\ blobs = [c \in Contents |-> "absent"]
  /\ calls = [t \in Threads |-> NoCall]
  /\ answers = {}
  /\ crashes = 0

CallStep(t) ==
  \/ BlobExists(t) \/ PutBlob(t) \/ SyncBlob(t)
  \/ CommitCreate(t) \/ CommitSave(t)
  \/ FindHead(t) \/ FindRevision(t) \/ ReadBlob(t)
  \/ Reply(t) \/ ReplyFailure(t)

Arrive(t) ==
  \/ \E k \in Keys : ReceiveCreate(t, k)
  \/ \E k \in Keys, n \in Notebooks : ReceiveSave(t, k, n)
  \/ \E n \in Notebooks : ReceiveGet(t, n) \/ ReceiveRevision(t, n)

Next ==
  \/ \E t \in Threads : Arrive(t) \/ CallStep(t)
  \/ Crash

Spec == Init /\ [][Next]_vars

-----------------------------------------------------------------------------
(* Properties *)

Answers ==
  [method : Scopes, key : Keys, request : Requests,
   target : Notebooks \cup {NoNotebook}, result : Result]

TypeOK ==
  /\ notebooks \in [Notebooks -> NotebookHead]
  /\ revisions \in [Notebooks -> [1..MaxRevision -> Contents \cup {NoContent}]]
  /\ idempotency \in [Scopes \X Keys -> Writes \cup {NoWrite}]
  /\ blobs \in [Contents -> BlobStates]
  /\ calls \in [Threads -> CallRecord]
  /\ answers \subseteq Answers
  /\ crashes \in 0..MaxCrashes

\* The two tables agree: a notebook's rows are numbered 1 to its head without
\* a gap, the head repeats the last one's hash, and neighbours differ.
HistoryConsistent ==
  \A n \in Notebooks :
    LET head == notebooks[n].revision IN
    /\ \A i \in 1..MaxRevision : revisions[n][i] # NoContent <=> i <= head
    /\ head > 0 => notebooks[n].content = revisions[n][head]
    /\ \A i \in 2..head : revisions[n][i] # revisions[n][i - 1]

\* The blob of every committed revision is there: the service publishes it
\* before the transaction and nothing removes it, whatever restarts in between.
BlobsPresent ==
  \A n \in Notebooks : \A i \in 1..notebooks[n].revision :
    blobs[revisions[n][i]] # "absent"

\* What a client was once answered, and what a read is about to be answered,
\* stays true of the history: no acknowledged write is lost or overwritten.
AnswersStand ==
  LET Stands(r) == r.revision > 0 /\ revisions[r.notebook][r.revision] = r.content IN
  /\ \A a \in answers : Stands(a.result)
  /\ \A t \in Threads : At(t, "reply") => Stands(calls[t].result)

\* A repeated request is answered like the first one, also when the answer to
\* that was lost in a restart and the head has moved on since; so a key has one
\* effect.
RepeatsAreReplayed ==
  \A a, b \in answers :
    a.method = b.method /\ a.key = b.key => a.request = b.request /\ a.result = b.result

\* Two writes that were based on one revision cannot both change the notebook.
NoLostUpdate ==
  \A a, b \in answers :
    /\ a.method = "PUT" /\ a.result.changed => a.result.revision = a.request.base + 1
    /\ /\ a.method = "PUT" /\ b.method = "PUT"
       /\ a.result.changed /\ b.result.changed
       /\ a.result.notebook = b.result.notebook
       /\ a.request.base = b.request.base
       => a.key = b.key

\* The integrity checks (a missing head row, replayed row or blob) never fire.
NoIntegrityFault ==
  \A t \in Threads : ~At(t, "broken")

\* The tables, as NotebookStore sees them.
Committed == [n \in Notebooks |-> [i \in 1..notebooks[n].revision |-> revisions[n][i]]]

Used ==
  [m \in Scopes \X Keys |->
     IF idempotency[m] = NoWrite THEN NoWrite
     ELSE [request  |-> idempotency[m].request,
           notebook |-> idempotency[m].result.notebook,
           revision |-> idempotency[m].result.revision,
           changed  |-> idempotency[m].result.changed]]

Store == INSTANCE NotebookStore WITH history <- Committed, done <- Used

ASSUME UsedAssumption == NoWrite \notin Store!Writes

\* The service implements NotebookStore: only a transaction is a step of it.
ImplementsStore == Store!Spec

\* Every row was written by exactly one keyed request, no two requests share one.
OneRequestPerRevision == Store!OneRequestPerRevision

\* Revision rows are immutable, and a key keeps the result it was used for.
NothingIsRewritten == Store!NothingIsRewritten

\* openapi.yaml, saveNotebook: 200 is a save, unchanged content or a replay of
\* the same request; so the answer is about the notebook that was asked for.
AnswersNameTarget ==
  \A a \in answers : a.method = "PUT" => a.result.notebook = a.target

==============================================================================

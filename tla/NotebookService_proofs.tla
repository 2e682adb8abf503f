------------------------ MODULE NotebookService_proofs ------------------------
(***************************************************************************)
(* Proofs about NotebookService for any notebooks, contents, keys and      *)
(* threads, any number of revisions and restarts and any set of faults.    *)
(*                                                                         *)
(* The argument: the tables change in one way only (Write): a key that was *)
(* never used is recorded together with its result, and the head stays or  *)
(* advances by one row.  So rows and records, once written, stay, and all  *)
(* that threads and clients hold are copies of records.                    *)
(***************************************************************************)
EXTENDS NotebookService, SequenceTheorems, TLAPS

\* The result names a row and its content.
Stands(r, rows) ==
  /\ r.notebook \in Notebooks /\ r.revision \in 1..MaxRevision
  /\ r.content \in Contents
  /\ rows[r.notebook][r.revision] = r.content

RowsOK(n) ==
  LET head == notebooks[n] IN
  /\ head.revision = 0 => head = NoHead
  /\ \A i \in 1..MaxRevision : revisions[n][i] # NoContent <=> i <= head.revision
  /\ head.revision > 0 => head.content = revisions[n][head.revision]
  /\ \A i \in 2..head.revision : revisions[n][i] # revisions[n][i - 1]

RecordOK(m) ==
  idempotency[m] # NoWrite =>
    LET w == idempotency[m] IN
    /\ Stands(w.result, revisions)
    /\ m[1] = "PUT" /\ w.result.changed => w.result.revision = w.request.base + 1

\* A row was made by at most one record.
OneMaker ==
  \A m, o \in Scopes \X Keys :
    /\ idempotency[m] # NoWrite /\ idempotency[o] # NoWrite
    /\ idempotency[m].result.changed /\ idempotency[o].result.changed
    /\ idempotency[m].result.notebook = idempotency[o].result.notebook
    /\ idempotency[m].result.revision = idempotency[o].result.revision
    => m = o

TablesInv ==
  /\ notebooks \in [Notebooks -> NotebookHead]
  /\ revisions \in [Notebooks -> [1..MaxRevision -> Contents \cup {NoContent}]]
  /\ idempotency \in [Scopes \X Keys -> Writes \cup {NoWrite}]
  /\ \A n \in Notebooks : RowsOK(n)
  /\ \A m \in Scopes \X Keys : RecordOK(m)
  /\ OneMaker

Recorded(method, k, q, result, records) ==
  /\ <<method, k>> \in Scopes \X Keys
  /\ records[<<method, k>>] = [request |-> q, result |-> result]

WriteSteps == {"exists", "put", "sync", "commit"}

CallOK(q, rows, records) ==
  /\ q \in CallRecord
  /\ q.pc \in WriteSteps =>
       /\ q.method \in Scopes /\ q.key \in Keys /\ q.document \in Contents
       /\ q.method = "POST" => q.request.base = 0 /\ q.document \in Yields(q.request.body)
       /\ q.method = "PUT" => q.request.body = q.document
  /\ q.pc # "idle" /\ q.method # "POST" => q.target \in Notebooks
  /\ q.pc \in {"head", "revision"} => q.method \notin Scopes
  /\ q.pc \in {"head", "revision"} /\ q.method = "REVISION" => q.request.base \in 1..MaxRevision
  /\ q.pc = "revision" =>
       q.result.notebook \in Notebooks /\ q.result.revision \in 1..MaxRevision
  /\ q.pc = "revision" /\ q.method = "GET" =>
       rows[q.result.notebook][q.result.revision] # NoContent
  /\ q.pc \in {"read", "reply"} =>
       /\ Stands(q.result, rows)
       /\ q.method \in Scopes => Recorded(q.method, q.key, q.request, q.result, records)

CallsInv == calls \in [Threads -> CallRecord] /\ \A t \in Threads : CallOK(calls[t], revisions, idempotency)

AnswersInv ==
  /\ answers \subseteq Answers
  /\ \A a \in answers : Recorded(a.method, a.key, a.request, a.result, idempotency)

IInv ==
  /\ TablesInv /\ CallsInv /\ AnswersInv
  /\ blobs \in [Contents -> BlobStates]
  /\ crashes \in 0..MaxCrashes

-----------------------------------------------------------------------------
(* The one way in which the tables change *)

Write(t, r) ==
  LET q == calls[t] IN
  /\ q.pc = "commit" /\ idempotency[<<q.method, q.key>>] = NoWrite
  /\ r \in Result /\ r.notebook \in Notebooks /\ r.content \in Contents
  /\ idempotency' =
       [idempotency EXCEPT ![<<q.method, q.key>>] = [request |-> q.request, result |-> r]]
  /\ calls' = [calls EXCEPT ![t].pc = "reply", ![t].result = r]
  /\ \/ /\ r.changed
        /\ r.revision = notebooks[r.notebook].revision + 1
        /\ r.content # notebooks[r.notebook].content
        /\ r.content \in Yields(q.request.body) /\ r.content = q.document
        /\ q.method = "POST" => r.revision = 1
        /\ q.method = "PUT" => /\ r.revision > 1
                               /\ q.request.base = notebooks[r.notebook].revision
        /\ notebooks' =
             [notebooks EXCEPT ![r.notebook] = [revision |-> r.revision, content |-> r.content]]
        /\ revisions' = [revisions EXCEPT ![r.notebook][r.revision] = r.content]
     \/ /\ ~r.changed
        /\ q.method = "PUT" /\ q.request.body = r.content
        /\ q.request.base = r.revision /\ r.revision > 0
        /\ notebooks[r.notebook] = [revision |-> r.revision, content |-> r.content]
        /\ UNCHANGED <<notebooks, revisions>>
  /\ UNCHANGED <<blobs, answers, crashes>>

\* A create that takes effect is a Write.
LEMMA InsertWrites ==
  ASSUME IInv, NEW t \in Threads, At(t, "commit"), calls[t].method = "POST",
         idempotency[<<"POST", calls[t].key>>] = NoWrite, InsertNotebook(t),
         UNCHANGED <<blobs, answers, crashes>>
  PROVE  \E r \in Result : Write(t, r)
<1> DEFINE q == calls[t]
<1>1. q \in CallRecord /\ q.document \in Contents /\ q.document \in Yields(q.request.body)
      /\ q.document # NoContent /\ 1 \in 0..MaxRevision
  BY ContentAssumption, RevisionAssumption DEF IInv, CallsInv, CallOK, WriteSteps, At, Scopes
<1>2. PICK n \in Unused :
        LET result == [notebook |-> n, revision |-> 1, content |-> q.document, changed |-> TRUE] IN
        /\ notebooks' = [notebooks EXCEPT ![n] = [revision |-> 1, content |-> q.document]]
        /\ revisions' = [revisions EXCEPT ![n][1] = q.document]
        /\ idempotency' = [idempotency EXCEPT ![<<"POST", q.key>>] =
                             [request |-> q.request, result |-> result]]
        /\ calls' = [calls EXCEPT ![t].pc = "reply", ![t].result = result]
  BY DEF InsertNotebook, InsertRevision, Record, Found
<1> DEFINE r == [notebook |-> n, revision |-> 1, content |-> q.document, changed |-> TRUE]
<1>3. n \in Notebooks /\ notebooks[n] = NoHead
  BY DEF Unused
<1>4. r \in Result
  BY <1>1, <1>3 DEF Result
<1>5. Write(t, r)
  BY <1>1, <1>2, <1>3, <1>4 DEF Write, At, NoHead
<1> QED BY <1>4, <1>5

\* A save that moves the head is a Write, unless the bound on revisions drops it.
LEMMA AdvanceWrites ==
  ASSUME IInv, NEW t \in Threads, At(t, "commit"), calls[t].method = "PUT",
         idempotency[<<"PUT", calls[t].key>>] = NoWrite, Advance(t),
         notebooks[calls[t].target] # NoHead, BaseIsHead(t),
         notebooks[calls[t].target].content # calls[t].document,
         UNCHANGED <<blobs, answers, crashes>>
  PROVE  (\E r \in Result : Write(t, r)) \/ (UNCHANGED tables /\ Refuse(t))
<1> DEFINE q == calls[t]
           n == q.target
           next == notebooks[n].revision + 1
           r == [notebook |-> n, revision |-> next, content |-> q.document, changed |-> TRUE]
<1>1. /\ q \in CallRecord /\ q.document \in Contents /\ n \in Notebooks
      /\ q.document = q.request.body /\ q.document # Default
  BY DefaultAssumption DEF IInv, CallsInv, CallOK, WriteSteps, At, Scopes
<1>2. notebooks[n].revision \in Nat /\ notebooks[n].revision > 0
  BY <1>1, RevisionAssumption DEF IInv, TablesInv, RowsOK, NotebookHead
<1>3. CASE next > MaxRevision /\ Refuse(t) /\ UNCHANGED tables
  BY <1>3
<1>4. CASE /\ next <= MaxRevision
           /\ notebooks' = [notebooks EXCEPT ![n] = [revision |-> next, content |-> q.document]]
           /\ InsertRevision(n, next, q.document)
           /\ Record("PUT", q.key, q.request, r)
           /\ Found(t, "reply", r)
  <2>1. r \in Result
    BY <1>1, <1>2, <1>4, RevisionAssumption DEF Result
  <2>2. Write(t, r)
    BY <1>1, <1>2, <1>4, <2>1
    DEF Write, At, InsertRevision, Record, Found, BaseIsHead, Yields
  <2> QED BY <2>1, <2>2
<1> QED BY <1>3, <1>4 DEF Advance

\* A save of the head's content is a Write that leaves head and rows alone.
LEMMA KeepWrites ==
  ASSUME IInv, NEW t \in Threads, At(t, "commit"), calls[t].method = "PUT",
         idempotency[<<"PUT", calls[t].key>>] = NoWrite, KeepHead(t),
         notebooks[calls[t].target] # NoHead, BaseIsHead(t),
         notebooks[calls[t].target].content = calls[t].document,
         UNCHANGED <<blobs, answers, crashes>>
  PROVE  \E r \in Result : Write(t, r)
<1> DEFINE q == calls[t]
           n == q.target
           head == notebooks[n]
           r == [notebook |-> n, revision |-> head.revision, content |-> head.content,
                 changed |-> FALSE]
<1>1. /\ q \in CallRecord /\ q.document \in Contents /\ n \in Notebooks
      /\ q.document = q.request.body
  BY DEF IInv, CallsInv, CallOK, WriteSteps, At, Scopes
<1>2. head \in NotebookHead /\ head.revision > 0
  BY <1>1, RevisionAssumption DEF IInv, TablesInv, RowsOK, NotebookHead
<1>3. r \in Result
  BY <1>1, <1>2 DEF Result, NotebookHead
<1>4. Write(t, r)
  BY <1>1, <1>2, <1>3
  DEF Write, At, KeepHead, Record, Found, BaseIsHead, NotebookHead
<1> QED BY <1>3, <1>4

-----------------------------------------------------------------------------
(* What a write preserves *)

\* Rows and records, once there, stay as they are.
Grows ==
  /\ \A n \in Notebooks, i \in 1..MaxRevision :
       revisions[n][i] # NoContent => revisions'[n][i] = revisions[n][i]
  /\ \A m \in Scopes \X Keys : idempotency[m] # NoWrite => idempotency'[m] = idempotency[m]

\* A record that holds a request is not the empty record.
LEMMA NoWriteFact == \A q \in Requests, r \in Result : [request |-> q, result |-> r] # NoWrite
BY NoWriteAssumption DEF Writes

\* The committing thread holds a writing request.
LEMMA CommitFacts ==
  ASSUME IInv, NEW t \in Threads, calls[t].pc = "commit"
  PROVE  LET q == calls[t] IN
         /\ q \in CallRecord /\ q.method \in Scopes /\ q.key \in Keys
         /\ <<q.method, q.key>> \in Scopes \X Keys
         /\ q.request \in Requests /\ q.document \in Contents
BY DEF IInv, CallsInv, CallOK, WriteSteps, CallRecord

\* A Write loses no row and no record.
LEMMA WriteGrows ==
  ASSUME IInv, NEW t \in Threads, NEW r \in Result, Write(t, r)
  PROVE  Grows
<1> DEFINE q == calls[t]
<1>1. calls[t].pc = "commit" /\ <<q.method, q.key>> \in Scopes \X Keys
  BY CommitFacts DEF Write
<1>2. \A m \in Scopes \X Keys : idempotency[m] # NoWrite => idempotency'[m] = idempotency[m]
  BY <1>1 DEF Write, IInv, TablesInv
<1>3. ASSUME NEW n \in Notebooks, NEW i \in 1..MaxRevision, revisions[n][i] # NoContent
      PROVE  revisions'[n][i] = revisions[n][i]
  <2>1. RowsOK(n) /\ notebooks[n].revision \in Nat
    BY DEF IInv, TablesInv, NotebookHead
  <2>2. i <= notebooks[n].revision
    BY <2>1, <1>3 DEF RowsOK
  <2>3. CASE UNCHANGED revisions
    BY <2>3
  <2>4. CASE /\ r.notebook \in Notebooks /\ r.revision = notebooks[r.notebook].revision + 1
             /\ revisions' = [revisions EXCEPT ![r.notebook][r.revision] = r.content]
    BY <2>1, <2>2, <2>4 DEF IInv, TablesInv
  <2> QED BY <2>3, <2>4 DEF Write
<1> QED BY <1>2, <1>3 DEF Grows

\* A Write keeps head and rows in agreement, and its result names a row.
LEMMA WriteRows ==
  ASSUME IInv, NEW t \in Threads, NEW r \in Result, Write(t, r)
  PROVE  /\ notebooks' \in [Notebooks -> NotebookHead]
         /\ revisions' \in [Notebooks -> [1..MaxRevision -> Contents \cup {NoContent}]]
         /\ \A n \in Notebooks : RowsOK(n)'
         /\ Stands(r, revisions')
<1>1. CASE ~r.changed
  <2>1. /\ UNCHANGED <<notebooks, revisions>> /\ r.notebook \in Notebooks
        /\ notebooks[r.notebook] = [revision |-> r.revision, content |-> r.content]
        /\ r.revision > 0 /\ r.content \in Contents
    BY <1>1 DEF Write
  <2>2. RowsOK(r.notebook) /\ r.revision \in 1..MaxRevision
    BY <2>1, RevisionAssumption DEF IInv, TablesInv, Result
  <2> QED BY <2>1, <2>2 DEF IInv, TablesInv, RowsOK, Stands
<1>2. CASE r.changed
  <2> DEFINE k == r.notebook
             i == r.revision
             c == r.content
  <2>1. /\ k \in Notebooks /\ c \in Contents /\ i \in 1..MaxRevision
        /\ i = notebooks[k].revision + 1 /\ c # notebooks[k].content
        /\ notebooks' = [notebooks EXCEPT ![k] = [revision |-> i, content |-> c]]
        /\ revisions' = [revisions EXCEPT ![k][i] = c]
        /\ notebooks[k].revision \in Nat
    BY <1>2, RevisionAssumption DEF Write, Result, IInv, TablesInv, NotebookHead
  <2>2. /\ notebooks' \in [Notebooks -> NotebookHead]
        /\ revisions' \in [Notebooks -> [1..MaxRevision -> Contents \cup {NoContent}]]
    BY <2>1, RevisionAssumption DEF IInv, TablesInv, NotebookHead
  <2>3. \A n \in Notebooks : RowsOK(n)
    BY DEF IInv, TablesInv
  <2>4. ASSUME NEW n \in Notebooks, n # k PROVE RowsOK(n)'
    BY <2>1, <2>3, <2>4 DEF RowsOK, IInv, TablesInv
  <2>5. RowsOK(k)'
    <3>1. /\ notebooks'[k] = [revision |-> i, content |-> c]
          /\ \A j \in 1..MaxRevision : revisions'[k][j] = IF j = i THEN c ELSE revisions[k][j]
      BY <2>1 DEF IInv, TablesInv
    <3>2. RowsOK(k) /\ c # NoContent
      BY <2>1, <2>3, ContentAssumption
    <3>3. \A j \in 1..MaxRevision : revisions'[k][j] # NoContent <=> j <= i
      BY <2>1, <3>1, <3>2 DEF RowsOK
    <3>4. \A j \in 2..i : revisions'[k][j] # revisions'[k][j - 1]
      BY <2>1, <3>1, <3>2, RevisionAssumption DEF RowsOK
    <3> QED BY <2>1, <3>1, <3>3, <3>4 DEF RowsOK
  <2>6. Stands(r, revisions')
    BY <2>1 DEF Stands, IInv, TablesInv
  <2> QED BY <2>2, <2>4, <2>5, <2>6
<1> QED BY <1>1, <1>2 DEF Result

\* Results that name a row keep doing so.
LEMMA StandsKept ==
  ASSUME Grows, NEW r, Stands(r, revisions)
  PROVE  Stands(r, revisions')
BY ContentAssumption DEF Stands, Grows

\* Records stay.
LEMMA RecordedKept ==
  ASSUME Grows, NEW method, NEW k, NEW q \in Requests, NEW r \in Result,
         Recorded(method, k, q, r, idempotency)
  PROVE  Recorded(method, k, q, r, idempotency')
BY NoWriteFact DEF Recorded, Grows

\* A Write keeps what is known of the tables, and records itself.
LEMMA WriteTables ==
  ASSUME IInv, NEW t \in Threads, NEW r \in Result, Write(t, r)
  PROVE  TablesInv' /\ Recorded(calls[t].method, calls[t].key, calls[t].request, r, idempotency')
<1> DEFINE q == calls[t]
           mine == <<q.method, q.key>>
           w == [request |-> q.request, result |-> r]
<1>1. /\ mine \in Scopes \X Keys /\ q.request \in Requests /\ q.method \in Scopes
      /\ idempotency[mine] = NoWrite
      /\ idempotency' = [idempotency EXCEPT ![mine] = w]
      /\ w \in Writes /\ w # NoWrite
  BY CommitFacts, NoWriteFact DEF Write, Writes
<1>2. idempotency' \in [Scopes \X Keys -> Writes \cup {NoWrite}]
  BY <1>1 DEF IInv, TablesInv
<1>3. /\ idempotency'[mine] = w
      /\ \A m \in Scopes \X Keys : m # mine => idempotency'[m] = idempotency[m]
  BY <1>1 DEF IInv, TablesInv
<1>4. Recorded(q.method, q.key, q.request, r, idempotency')
  BY <1>1, <1>3 DEF Recorded
<1>5. ASSUME NEW m \in Scopes \X Keys PROVE RecordOK(m)'
  <2>1. CASE m = mine
    <3>1. Stands(r, revisions')
      BY WriteRows
    <3>2. m[1] = "PUT" /\ r.changed => r.revision = q.request.base + 1
      BY <2>1 DEF Write
    <3> QED BY <2>1, <1>1, <1>3, <3>1, <3>2 DEF RecordOK
  <2>2. CASE m # mine
    <3>1. idempotency'[m] = idempotency[m] /\ RecordOK(m)
      BY <2>2, <1>3 DEF IInv, TablesInv
    <3>2. idempotency[m] # NoWrite => Stands(idempotency[m].result, revisions')
      BY <3>1, WriteGrows, StandsKept DEF RecordOK
    <3> QED BY <3>1, <3>2 DEF RecordOK
  <2> QED BY <2>1, <2>2
<1>6. OneMaker'
  <2>1. ASSUME NEW m \in Scopes \X Keys, m # mine, idempotency[m] # NoWrite,
               idempotency[m].result.notebook = r.notebook, r.changed
        PROVE  idempotency[m].result.revision # r.revision
    <3>1. Stands(idempotency[m].result, revisions) /\ RowsOK(r.notebook) /\ r.notebook \in Notebooks
      BY <2>1 DEF IInv, TablesInv, RecordOK, Write
    <3>2. idempotency[m].result.revision <= notebooks[r.notebook].revision
      BY <2>1, <3>1, ContentAssumption DEF Stands, RowsOK
    <3>3. r.revision = notebooks[r.notebook].revision + 1 /\ notebooks[r.notebook].revision \in Nat
      BY <2>1, <3>1 DEF Write, IInv, TablesInv, NotebookHead
    <3>4. idempotency[m].result.revision \in Nat
      BY <3>1 DEF Stands
    <3> QED BY <3>2, <3>3, <3>4
  <2>2. OneMaker
    BY DEF IInv, TablesInv
  <2> QED BY <1>1, <1>3, <2>1, <2>2 DEF OneMaker
<1> QED BY <1>2, <1>4, <1>5, <1>6, WriteRows DEF TablesInv

\* What other threads and clients hold stays true when the tables grow.
LEMMA CallKept ==
  ASSUME Grows, NEW q, CallOK(q, revisions, idempotency)
  PROVE  CallOK(q, revisions', idempotency')
<1>1. q \in CallRecord
  BY DEF CallOK
<1>2. q.request \in Requests /\ q.result \in Result
  BY <1>1 DEF CallRecord
<1>3. q.pc \in {"read", "reply"} => Stands(q.result, revisions')
  BY StandsKept DEF CallOK
<1>4. q.pc \in {"read", "reply"} /\ q.method \in Scopes =>
        Recorded(q.method, q.key, q.request, q.result, idempotency')
  BY <1>2, RecordedKept DEF CallOK
<1>5. q.pc = "revision" /\ q.method = "GET" =>
        revisions'[q.result.notebook][q.result.revision] # NoContent
  BY DEF CallOK, Grows
<1> QED BY <1>3, <1>4, <1>5 DEF CallOK

\* The answers given stay records of the table.
LEMMA AnswersKept ==
  ASSUME Grows, AnswersInv, UNCHANGED answers
  PROVE  AnswersInv'
<1>1. ASSUME NEW a \in answers
      PROVE  Recorded(a.method, a.key, a.request, a.result, idempotency')
  <2>1. a.request \in Requests /\ a.result \in Result
    BY DEF AnswersInv, Answers
  <2> QED BY <2>1, RecordedKept DEF AnswersInv
<1> QED BY <1>1 DEF AnswersInv

\* A Write keeps the invariant.
LEMMA WriteKeeps ==
  ASSUME IInv, NEW t \in Threads, NEW r \in Result, Write(t, r)
  PROVE  IInv'
<1> DEFINE q == calls[t]
           next == [q EXCEPT !.pc = "reply", !.result = r]
<1>1. Grows /\ TablesInv'
  BY WriteGrows, WriteTables
<1>2. AnswersInv'
  BY <1>1, AnswersKept DEF Write, IInv
<1>3. q \in CallRecord /\ q.method \in Scopes /\ q.pc = "commit"
  BY CommitFacts DEF Write
<1>4. next \in CallRecord
  BY <1>3 DEF CallRecord, Steps
<1>5. /\ calls' \in [Threads -> CallRecord] /\ calls'[t] = next
      /\ \A o \in Threads : o # t => calls'[o] = calls[o]
  BY <1>3, <1>4 DEF Write, IInv, CallsInv, CallRecord
<1>6. CallOK(next, revisions', idempotency')
  <2>1. Stands(r, revisions') /\ Recorded(q.method, q.key, q.request, r, idempotency')
    BY WriteRows, WriteTables
  <2>2. CallOK(q, revisions, idempotency)
    BY DEF IInv, CallsInv
  <2>3. /\ next.pc = "reply" /\ next.method = q.method /\ next.key = q.key
        /\ next.request = q.request /\ next.result = r /\ next.target = q.target
    BY <1>3 DEF CallRecord
  <2>4. next.method # "POST" => next.target \in Notebooks
    BY <1>3, <2>2, <2>3 DEF CallOK
  <2> HIDE DEF next
  <2> QED BY <1>4, <2>1, <2>3, <2>4 DEF CallOK, WriteSteps
<1>7. ASSUME NEW o \in Threads PROVE CallOK(calls'[o], revisions', idempotency')
  <2>1. CallOK(calls[o], revisions, idempotency)
    BY DEF IInv, CallsInv
  <2>2. CallOK(calls[o], revisions', idempotency')
    BY <2>1, <1>1, CallKept
  <2> QED BY <2>2, <1>5, <1>6
<1> QED BY <1>1, <1>2, <1>5, <1>7 DEF IInv, CallsInv, Write

-----------------------------------------------------------------------------
(* Steps that leave the tables alone *)

\* A thread may replace what it holds by anything that agrees with the tables.
LEMMA QuietKeeps ==
  ASSUME IInv, NEW t \in Threads, NEW c, CallOK(c, revisions, idempotency),
         calls' = [calls EXCEPT ![t] = c], UNCHANGED tables,
         blobs' \in [Contents -> BlobStates], AnswersInv', crashes' = crashes
  PROVE  IInv'
<1>1. c \in CallRecord
  BY DEF CallOK
<1>2. /\ calls' \in [Threads -> CallRecord] /\ calls'[t] = c
      /\ \A o \in Threads : o # t => calls'[o] = calls[o]
  BY <1>1 DEF IInv, CallsInv
<1>3. TablesInv'
  BY DEF IInv, TablesInv, tables, RowsOK, RecordOK, OneMaker
<1>4. ASSUME NEW o \in Threads PROVE CallOK(calls'[o], revisions', idempotency')
  <2>1. CallOK(calls'[o], revisions, idempotency)
    BY <1>2 DEF IInv, CallsInv
  <2> QED BY <2>1 DEF tables
<1> QED BY <1>2, <1>3, <1>4 DEF IInv, CallsInv

\* An idle thread agrees with any tables.
LEMMA NoCallOK == CallOK(NoCall, revisions, idempotency)
BY RevisionAssumption
DEF CallOK, NoCall, CallRecord, Steps, Methods, Scopes, Requests, NoRequest, Result, NoResult,
    WriteSteps

\* Steps that give no answer and write no record keep the answers.
LEMMA AnswersSame == ASSUME AnswersInv, UNCHANGED <<idempotency, answers>> PROVE AnswersInv'
BY DEF AnswersInv, Recorded

\* Ending a request without an answer, moving on and finding a result:
LEMMA RefuseKeeps ==
  ASSUME IInv, NEW t \in Threads, Refuse(t), UNCHANGED <<tables, blobs, answers, crashes>>
  PROVE  IInv'
<1>1. AnswersInv'
  BY AnswersSame DEF IInv, tables
<1> QED BY <1>1, QuietKeeps, NoCallOK DEF Refuse, IInv

LEMMA GoToKeeps ==
  ASSUME IInv, NEW t \in Threads, NEW step,
         CallOK([calls[t] EXCEPT !.pc = step], revisions, idempotency), GoTo(t, step),
         blobs' \in [Contents -> BlobStates], UNCHANGED <<tables, answers, crashes>>
  PROVE  IInv'
<1>1. AnswersInv'
  BY AnswersSame DEF IInv, tables
<1>2. calls' = [calls EXCEPT ![t] = [calls[t] EXCEPT !.pc = step]]
  BY DEF GoTo
<1> QED BY <1>1, <1>2, QuietKeeps DEF IInv

LEMMA FoundKeeps ==
  ASSUME IInv, NEW t \in Threads, NEW step, NEW r,
         CallOK([calls[t] EXCEPT !.pc = step, !.result = r], revisions, idempotency),
         Found(t, step, r), UNCHANGED <<tables, blobs, answers, crashes>>
  PROVE  IInv'
<1> DEFINE c == [calls[t] EXCEPT !.pc = step, !.result = r]
<1>1. AnswersInv'
  BY AnswersSame DEF IInv, tables
<1>2. calls' = [calls EXCEPT ![t] = c]
  BY DEF Found, IInv, CallsInv
<1> HIDE DEF c
<1> QED BY <1>1, <1>2, QuietKeeps DEF IInv, c

\* Reporting a fault is always possible.
LEMMA BrokenOK ==
  ASSUME NEW q, CallOK(q, revisions, idempotency), q.pc # "idle"
  PROVE  CallOK([q EXCEPT !.pc = "broken"], revisions, idempotency)
BY DEF CallOK, CallRecord, Steps, WriteSteps

\* A request arrives.
LEMMA ReceiveKeeps ==
  ASSUME IInv, NEW t \in Threads, NEW call, CallOK(call, revisions, idempotency),
         Receive(t, call)
  PROVE  IInv'
<1>1. AnswersInv'
  BY AnswersSame DEF IInv, Receive, tables
<1> QED BY <1>1, QuietKeeps DEF Receive, IInv

\* The fields a new request takes over from an idle thread.
LEMMA NoCallFields ==
  /\ NoCall \in CallRecord /\ NoCall.request = [base |-> 0, body |-> Default]
  /\ 0 \in 0..MaxRevision
BY RevisionAssumption
DEF NoCall, CallRecord, Steps, Methods, Scopes, Requests, NoRequest, Result, NoResult

\* The four kinds of request.
LEMMA ArriveKeeps ==
  ASSUME IInv, NEW t \in Threads, Arrive(t)
  PROVE  IInv'
<1>1. ASSUME NEW k \in Keys, ReceiveCreate(t, k) PROVE IInv'
  <2>1. PICK body \in Contents \cup {Default} : \E c \in Yields(body) :
          Receive(t, [NoCall EXCEPT !.pc = "put", !.method = "POST", !.key = k,
                                    !.request = [base |-> 0, body |-> body], !.document = c])
    BY <1>1 DEF ReceiveCreate
  <2>2. PICK c \in Yields(body) :
          Receive(t, [NoCall EXCEPT !.pc = "put", !.method = "POST", !.key = k,
                                    !.request = [base |-> 0, body |-> body], !.document = c])
    BY <2>1
  <2> DEFINE call == [NoCall EXCEPT !.pc = "put", !.method = "POST", !.key = k,
                                    !.request = [base |-> 0, body |-> body], !.document = c]
  <2>3. c \in Contents
    BY DEF Yields
  <2>4. CallOK(call, revisions, idempotency)
    BY <2>3, NoCallFields
    DEF CallOK, CallRecord, Steps, Methods, Scopes, Requests, WriteSteps
  <2> HIDE DEF call
  <2> QED BY <2>2, <2>4, ReceiveKeeps DEF call
<1>2. ASSUME NEW k \in Keys, NEW n \in Notebooks, ReceiveSave(t, k, n) PROVE IInv'
  <2>1. PICK base \in 1..MaxRevision, c \in Contents :
          Receive(t, [NoCall EXCEPT !.pc = "exists", !.method = "PUT", !.key = k, !.target = n,
                                    !.request = [base |-> base, body |-> c], !.document = c])
    BY <1>2 DEF ReceiveSave
  <2> DEFINE call == [NoCall EXCEPT !.pc = "exists", !.method = "PUT", !.key = k, !.target = n,
                                    !.request = [base |-> base, body |-> c], !.document = c]
  <2>2. base \in 0..MaxRevision
    BY RevisionAssumption
  <2>3. CallOK(call, revisions, idempotency)
    BY <2>2, NoCallFields
    DEF CallOK, CallRecord, Steps, Methods, Scopes, Requests, WriteSteps
  <2> HIDE DEF call
  <2> QED BY <2>1, <2>3, ReceiveKeeps DEF call
<1>3. ASSUME NEW n \in Notebooks, ReceiveGet(t, n) PROVE IInv'
  <2> DEFINE call == [NoCall EXCEPT !.pc = "head", !.target = n]
  <2>1. NoCall.method = "GET"
    BY DEF NoCall
  <2>2. CallOK(call, revisions, idempotency)
    BY <2>1, NoCallFields DEF CallOK, CallRecord, Steps, Methods, Scopes, Requests, WriteSteps
  <2> HIDE DEF call
  <2> QED BY <1>3, <2>2, ReceiveKeeps DEF call, ReceiveGet
<1>4. ASSUME NEW n \in Notebooks, ReceiveRevision(t, n) PROVE IInv'
  <2>1. PICK i \in 1..MaxRevision :
          Receive(t, [NoCall EXCEPT !.pc = "head", !.method = "REVISION", !.target = n,
                                    !.request.base = i])
    BY <1>4 DEF ReceiveRevision
  <2> DEFINE call == [NoCall EXCEPT !.pc = "head", !.method = "REVISION", !.target = n,
                                    !.request.base = i]
  <2>2. i \in 0..MaxRevision
    BY RevisionAssumption
  <2>3. [NoCall.request EXCEPT !.base = i] \in Requests
    BY <2>2, NoCallFields DEF Requests
  <2>4. CallOK(call, revisions, idempotency)
    BY <2>3, NoCallFields
    DEF CallOK, CallRecord, Steps, Methods, Scopes, Requests, WriteSteps
  <2> HIDE DEF call
  <2> QED BY <2>1, <2>4, ReceiveKeeps DEF call
<1> QED BY <1>1, <1>2, <1>3, <1>4 DEF Arrive

\* A write goes through its steps with the request it came with.
LEMMA WritingOK ==
  ASSUME NEW q, CallOK(q, revisions, idempotency), q.pc \in WriteSteps, NEW step \in WriteSteps
  PROVE  CallOK([q EXCEPT !.pc = step], revisions, idempotency)
BY DEF CallOK, CallRecord, Steps, WriteSteps

\* The steps on blob files.
LEMMA BlobKeeps ==
  ASSUME IInv, NEW t \in Threads, BlobExists(t) \/ PutBlob(t) \/ SyncBlob(t)
  PROVE  IInv'
<1>1. CallOK(calls[t], revisions, idempotency)
  BY DEF IInv, CallsInv
<1>2. CASE BlobExists(t)
  <2> DEFINE step == IF blobs[calls[t].document] = "absent" THEN "put" ELSE "commit"
  <2>1. step \in WriteSteps /\ calls[t].pc \in WriteSteps
    BY <1>2 DEF BlobExists, At, WriteSteps
  <2> HIDE DEF step
  <2>2. CallOK([calls[t] EXCEPT !.pc = step], revisions, idempotency)
    BY <1>1, <2>1, WritingOK
  <2> QED BY <1>2, <2>2, GoToKeeps DEF BlobExists, step, IInv
<1>3. CASE PutBlob(t)
  <2>1. CASE Refuse(t) /\ UNCHANGED blobs
    BY <1>3, <2>1, RefuseKeeps DEF PutBlob
  <2>2. CASE GoTo(t, "sync") /\
             blobs' = [blobs EXCEPT ![calls[t].document] = IF @ = "absent" THEN "published" ELSE @]
    <3>1. calls[t].pc \in WriteSteps /\ "sync" \in WriteSteps
      BY <1>3 DEF PutBlob, At, WriteSteps
    <3>2. CallOK([calls[t] EXCEPT !.pc = "sync"], revisions, idempotency)
      BY <1>1, <3>1, WritingOK
    <3>3. blobs' \in [Contents -> BlobStates]
      BY <2>2 DEF IInv, BlobStates
    <3> QED BY <1>3, <2>2, <3>2, <3>3, GoToKeeps DEF PutBlob
  <2> QED BY <1>3, <2>1, <2>2 DEF PutBlob
<1>4. CASE SyncBlob(t)
  <2>1. calls[t].pc \in WriteSteps /\ "commit" \in WriteSteps
    BY <1>4 DEF SyncBlob, At, WriteSteps
  <2>2. CallOK([calls[t] EXCEPT !.pc = "commit"], revisions, idempotency)
    BY <1>1, <2>1, WritingOK
  <2>3. blobs' \in [Contents -> BlobStates]
    BY <1>4 DEF SyncBlob, IInv, BlobStates
  <2> QED BY <1>4, <2>2, <2>3, GoToKeeps DEF SyncBlob
<1> QED BY <1>2, <1>3, <1>4

\* A replay hands out the record of the key.
LEMMA ResolveKeeps ==
  ASSUME IInv, NEW t \in Threads, calls[t].pc = "commit",
         idempotency[<<calls[t].method, calls[t].key>>] # NoWrite, Resolve(t),
         UNCHANGED <<blobs, answers, crashes>>
  PROVE  IInv'
<1> DEFINE q == calls[t]
           done == idempotency[<<q.method, q.key>>]
           step == IF q.method = "POST" THEN "read" ELSE "reply"
<1>1. CallOK(q, revisions, idempotency) /\ q.pc = "commit"
  BY DEF IInv, CallsInv
<1>2. /\ q \in CallRecord /\ q.method \in Scopes /\ q.key \in Keys
      /\ <<q.method, q.key>> \in Scopes \X Keys
  BY CommitFacts
<1>3. CASE Refuse(t) /\ UNCHANGED tables
  BY <1>3, RefuseKeeps
<1>4. CASE GoTo(t, "broken") /\ UNCHANGED tables
  <2>1. CallOK([q EXCEPT !.pc = "broken"], revisions, idempotency)
    BY <1>1, BrokenOK
  <2> QED BY <1>4, <2>1, GoToKeeps DEF IInv
<1>5. CASE done.request = q.request /\ Found(t, step, done.result) /\ UNCHANGED tables
  <2>1. Stands(done.result, revisions) /\ done \in Writes
    BY <1>2 DEF IInv, TablesInv, RecordOK
  <2>2. Recorded(q.method, q.key, q.request, done.result, idempotency)
    BY <1>2, <1>5, <2>1 DEF Recorded, Writes
  <2>3. CallOK([q EXCEPT !.pc = step, !.result = done.result], revisions, idempotency)
    <3>1. done.result \in Result /\ step \in {"read", "reply"}
      BY <2>1 DEF Writes
    <3> HIDE DEF done, step
    <3> QED BY <1>1, <1>2, <2>1, <2>2, <3>1 DEF CallOK, CallRecord, Steps, WriteSteps
  <2> QED BY <1>5, <2>3, FoundKeeps
<1> QED BY <1>3, <1>4, <1>5 DEF Resolve

\* The two transactions.
LEMMA CommitKeeps ==
  ASSUME IInv, NEW t \in Threads, CommitCreate(t) \/ CommitSave(t)
  PROVE  IInv'
<1> DEFINE q == calls[t]
<1>1. /\ q.pc = "commit" /\ UNCHANGED <<blobs, answers, crashes>> /\ At(t, "commit")
      /\ CallOK(q, revisions, idempotency)
  BY DEF CommitCreate, CommitSave, At, IInv, CallsInv
<1>2. CASE Resolve(t) /\ idempotency[<<q.method, q.key>>] # NoWrite
  BY <1>1, <1>2, ResolveKeeps
<1>3. CASE Refuse(t) /\ UNCHANGED tables
  BY <1>1, <1>3, RefuseKeeps
<1>4. CASE GoTo(t, "broken") /\ UNCHANGED tables
  <2>1. CallOK([q EXCEPT !.pc = "broken"], revisions, idempotency)
    BY <1>1, BrokenOK
  <2> QED BY <1>1, <1>4, <2>1, GoToKeeps DEF IInv
<1>5. CASE \E r \in Result : Write(t, r)
  BY <1>5, WriteKeeps
<1>6. CASE CommitCreate(t)
  <2>1. CASE InsertNotebook(t) /\ q.method = "POST" /\ idempotency[<<"POST", q.key>>] = NoWrite
    BY <1>1, <1>5, <2>1, InsertWrites
  <2> QED BY <1>2, <1>3, <1>6, <2>1 DEF CommitCreate
<1>7. CASE CommitSave(t)
  <2>1. CASE /\ q.method = "PUT" /\ idempotency[<<"PUT", q.key>>] = NoWrite
             /\ notebooks[q.target] # NoHead /\ BaseIsHead(t)
             /\ notebooks[q.target].content = q.document /\ KeepHead(t)
    BY <1>1, <1>5, <2>1, KeepWrites
  <2>2. CASE /\ q.method = "PUT" /\ idempotency[<<"PUT", q.key>>] = NoWrite
             /\ notebooks[q.target] # NoHead /\ BaseIsHead(t)
             /\ notebooks[q.target].content # q.document /\ Advance(t)
    BY <1>1, <1>3, <1>5, <2>2, AdvanceWrites
  <2> QED BY <1>2, <1>3, <1>4, <1>7, <2>1, <2>2 DEF CommitSave
<1> QED BY <1>6, <1>7

\* The reading steps.
LEMMA ReadKeeps ==
  ASSUME IInv, NEW t \in Threads, FindHead(t) \/ FindRevision(t) \/ ReadBlob(t)
  PROVE  IInv'
<1> DEFINE q == calls[t]
<1>1. CallOK(q, revisions, idempotency) /\ q \in CallRecord
  BY DEF IInv, CallsInv
<1>2. CASE FindHead(t)
  <2> DEFINE head == notebooks[q.target]
             number == IF q.method = "GET" THEN head.revision ELSE q.request.base
             r == [NoResult EXCEPT !.notebook = q.target, !.revision = number]
  <2>1. CASE Refuse(t)
    BY <1>2, <2>1, RefuseKeeps DEF FindHead
  <2>2. CASE head # NoHead /\ Found(t, "revision", r)
    <3>1. q.pc = "head" /\ q.method \in {"GET", "REVISION"} /\ q.target \in Notebooks
      BY <1>1, <1>2 DEF FindHead, At, CallOK, CallRecord, Methods, Scopes
    <3>2. head \in NotebookHead /\ RowsOK(q.target)
      BY <3>1 DEF IInv, TablesInv
    <3>3. head.revision \in 1..MaxRevision
      BY <2>2, <3>2, RevisionAssumption DEF RowsOK, NotebookHead
    <3>4. number \in 1..MaxRevision
      BY <1>1, <3>1, <3>3 DEF CallOK
    <3>5. q.method = "GET" => revisions[q.target][number] # NoContent
      BY <3>2, <3>3 DEF RowsOK
    <3>0. NoResult \in Result /\ number \in 0..MaxRevision
      BY <3>4, RevisionAssumption DEF Result, NoResult
    <3> HIDE DEF number
    <3>6. r \in Result /\ r.notebook = q.target /\ r.revision = number
      BY <3>1, <3>0 DEF Result
    <3> HIDE DEF r
    <3>7. CallOK([q EXCEPT !.pc = "revision", !.result = r], revisions, idempotency)
      BY <1>1, <3>1, <3>4, <3>5, <3>6 DEF CallOK, CallRecord, Steps, WriteSteps
    <3> QED BY <1>2, <2>2, <3>7, FoundKeeps DEF FindHead, number
  <2> QED BY <1>2, <2>1, <2>2 DEF FindHead
<1>3. CASE FindRevision(t)
  <2> DEFINE row == revisions[q.result.notebook][q.result.revision]
             r == [q.result EXCEPT !.content = row]
  <2>1. CASE Refuse(t)
    BY <1>3, <2>1, RefuseKeeps DEF FindRevision
  <2>2. CASE GoTo(t, "broken")
    <3>1. CallOK([q EXCEPT !.pc = "broken"], revisions, idempotency)
      BY <1>1, <1>3, BrokenOK DEF FindRevision, At
    <3> QED BY <1>3, <2>2, <3>1, GoToKeeps DEF FindRevision, IInv
  <2>3. ASSUME row # NoContent, NEW step \in {"read", "reply"}, Found(t, step, r)
        PROVE  IInv'
    <3>1. /\ q.pc = "revision" /\ q.method \notin Scopes /\ q.result \in Result
          /\ q.target \in Notebooks
          /\ q.result.notebook \in Notebooks /\ q.result.revision \in 1..MaxRevision
      BY <1>1, <1>3 DEF FindRevision, At, CallOK, CallRecord, Scopes
    <3>0. revisions \in [Notebooks -> [1..MaxRevision -> Contents \cup {NoContent}]]
      BY DEF IInv, TablesInv
    <3>2. row \in Contents
      BY <2>3, <3>1, <3>0
    <3>3. r \in Result /\ Stands(r, revisions)
      BY <3>1, <3>2 DEF Result, Stands
    <3> HIDE DEF r
    <3>4. CallOK([q EXCEPT !.pc = step, !.result = r], revisions, idempotency)
      BY <1>1, <3>1, <3>3 DEF CallOK, CallRecord, Steps, WriteSteps
    <3> QED BY <1>3, <2>3, <3>4, FoundKeeps DEF FindRevision
  <2> QED BY <1>3, <2>1, <2>2, <2>3 DEF FindRevision
<1>4. CASE ReadBlob(t)
  <2> DEFINE step == IF blobs[q.result.content] = "absent" THEN "broken" ELSE "reply"
  <2>1. step \in {"broken", "reply"} /\ q.pc = "read"
    BY <1>4 DEF ReadBlob, At
  <2> HIDE DEF step
  <2>2. CallOK([q EXCEPT !.pc = step], revisions, idempotency)
    BY <1>1, <2>1 DEF CallOK, CallRecord, Steps, WriteSteps
  <2> QED BY <1>4, <2>2, GoToKeeps DEF ReadBlob, step, IInv
<1> QED BY <1>2, <1>3, <1>4

\* Answers.
LEMMA ReplyKeeps ==
  ASSUME IInv, NEW t \in Threads, Reply(t) \/ ReplyFailure(t)
  PROVE  IInv'
<1>1. CASE ReplyFailure(t)
  BY <1>1, RefuseKeeps DEF ReplyFailure
<1>2. CASE Reply(t)
  <2> DEFINE q == calls[t]
             a == [method |-> q.method, key |-> q.key, request |-> q.request,
                   target |-> q.target, result |-> q.result]
  <2>1. CallOK(q, revisions, idempotency) /\ q.pc = "reply" /\ q \in CallRecord
    BY <1>2 DEF Reply, At, IInv, CallsInv
  <2>2. q.method \in Scopes => Recorded(q.method, q.key, q.request, q.result, idempotency)
    BY <2>1 DEF CallOK
  <2>3. q.method \in Scopes => a \in Answers
    BY <2>1, <2>2 DEF Answers, CallRecord, Recorded
  <2>4. answers' = answers \/ (q.method \in Scopes /\ answers' = answers \cup {a})
    BY <1>2 DEF Reply
  <2>5. AnswersInv'
    BY <1>2, <2>2, <2>3, <2>4 DEF AnswersInv, IInv, Reply, tables, Recorded
  <2> QED BY <1>2, <2>5, QuietKeeps, NoCallOK DEF Reply, Refuse, IInv
<1> QED BY <1>1, <1>2

\* Restarts, with or without the power.
LEMMA CrashKeeps == ASSUME IInv, Crash PROVE IInv'
<1>1. AnswersInv'
  BY AnswersSame DEF IInv, Crash, tables
<1>2. TablesInv'
  BY DEF IInv, TablesInv, tables, RowsOK, RecordOK, OneMaker, Crash
<1>3. CallsInv'
  BY NoCallOK DEF Crash, CallsInv, tables, CallOK
<1>4. blobs' \in [Contents -> BlobStates] /\ crashes' \in 0..MaxCrashes
  BY CrashAssumption DEF Crash, IInv, BlobStates
<1> QED BY <1>1, <1>2, <1>3, <1>4 DEF IInv

-----------------------------------------------------------------------------
(* The invariant *)

\* The empty service.
LEMMA Initially == Init => IInv
<1> SUFFICES ASSUME Init PROVE IInv
  OBVIOUS
<1>1. NoHead \in NotebookHead /\ NoHead.revision = 0 /\ 0 \in 0..MaxCrashes
  BY RevisionAssumption, CrashAssumption DEF NoHead, NotebookHead
<1>2. \A n \in Notebooks : RowsOK(n)
  BY <1>1 DEF Init, RowsOK
<1>3. TablesInv
  BY <1>1, <1>2 DEF Init, TablesInv, RecordOK, OneMaker
<1>4. CallsInv
  BY NoCallOK DEF Init, CallsInv, CallOK
<1>5. AnswersInv
  BY DEF Init, AnswersInv
<1> QED BY <1>1, <1>3, <1>4, <1>5 DEF Init, IInv, BlobStates

\* Every step keeps the invariant.
LEMMA NextKeeps == ASSUME IInv, [Next]_vars PROVE IInv'
<1>1. CASE UNCHANGED vars
  BY <1>1 DEF vars, IInv, TablesInv, RowsOK, RecordOK, OneMaker, CallsInv, AnswersInv, Recorded
<1>2. ASSUME NEW t \in Threads, CallStep(t) PROVE IInv'
  BY <1>2, BlobKeeps, CommitKeeps, ReadKeeps, ReplyKeeps DEF CallStep
<1> QED BY <1>1, <1>2, ArriveKeeps, CrashKeeps DEF Next

\* What is known of tables, threads and answers holds in every reachable state.
THEOREM Invariant == Spec => []IInv
BY Initially, NextKeeps, PTL DEF Spec

\* Every variable keeps its type.
THEOREM TypeCorrect == Spec => []TypeOK
<1>1. IInv => TypeOK
  BY DEF IInv, TablesInv, CallsInv, AnswersInv, TypeOK
<1> QED BY <1>1, Invariant, PTL

\* The head and the rows of every notebook agree (create_notebook, save_notebook).
THEOREM HistoryConsistentHolds == Spec => []HistoryConsistent
<1>1. IInv => HistoryConsistent
  BY DEF IInv, TablesInv, RowsOK, HistoryConsistent
<1> QED BY <1>1, Invariant, PTL

\* An answer is a copy of the record of its key.
LEMMA AnswerRecord ==
  ASSUME IInv, NEW a \in answers
  PROVE  LET m == <<a.method, a.key>> IN
         /\ m \in Scopes \X Keys /\ idempotency[m] # NoWrite /\ RecordOK(m)
         /\ idempotency[m].request = a.request /\ idempotency[m].result = a.result
<1> DEFINE m == <<a.method, a.key>>
<1>1. a.request \in Requests /\ a.result \in Result
  BY DEF IInv, AnswersInv, Answers
<1>2. m \in Scopes \X Keys /\ idempotency[m] = [request |-> a.request, result |-> a.result]
  BY DEF IInv, AnswersInv, Recorded
<1>3. RecordOK(m)
  BY <1>2 DEF IInv, TablesInv
<1> QED BY <1>1, <1>2, <1>3, NoWriteFact

\* What clients were answered, and what threads are about to answer, stays true.
THEOREM AnswersStandHolds == Spec => []AnswersStand
<1>1. IInv => AnswersStand
  <2> SUFFICES ASSUME IInv PROVE AnswersStand
    OBVIOUS
  <2>1. ASSUME NEW a \in answers
        PROVE  a.result.revision > 0
               /\ revisions[a.result.notebook][a.result.revision] = a.result.content
    <3> DEFINE m == <<a.method, a.key>>
    <3>1. idempotency[m] # NoWrite /\ RecordOK(m) /\ idempotency[m].result = a.result
      BY AnswerRecord
    <3> HIDE DEF m
    <3> QED BY <3>1 DEF RecordOK, Stands
  <2>2. ASSUME NEW t \in Threads, At(t, "reply")
        PROVE  calls[t].result.revision > 0
               /\ revisions[calls[t].result.notebook][calls[t].result.revision]
                    = calls[t].result.content
    BY <2>2 DEF IInv, CallsInv, CallOK, At, Stands
  <2> QED BY <2>1, <2>2 DEF AnswersStand
<1> QED BY <1>1, Invariant, PTL

\* One key, one request, one answer (_resolve_idempotency), across restarts.
THEOREM RepeatsAreReplayedHolds == Spec => []RepeatsAreReplayed
<1>1. IInv => RepeatsAreReplayed
  BY AnswerRecord DEF RepeatsAreReplayed
<1> QED BY <1>1, Invariant, PTL

\* Of several saves that name one revision as their base, one changes the notebook.
THEOREM NoLostUpdateHolds == Spec => []NoLostUpdate
<1>1. IInv => NoLostUpdate
  <2> SUFFICES ASSUME IInv PROVE NoLostUpdate
    OBVIOUS
  <2>2. ASSUME NEW a \in answers, a.method = "PUT", a.result.changed
        PROVE  a.result.revision = a.request.base + 1
    BY <2>2, AnswerRecord DEF RecordOK
  <2>3. ASSUME NEW a \in answers, NEW b \in answers, a.method = "PUT", b.method = "PUT",
               a.result.changed, b.result.changed,
               a.result.notebook = b.result.notebook, a.request.base = b.request.base
        PROVE  a.key = b.key
    <3>1. a.result.revision = b.result.revision
      BY <2>2, <2>3
    <3> DEFINE m == <<a.method, a.key>>
               o == <<b.method, b.key>>
    <3>2. /\ m \in Scopes \X Keys /\ idempotency[m] # NoWrite /\ idempotency[m].result = a.result
          /\ o \in Scopes \X Keys /\ idempotency[o] # NoWrite /\ idempotency[o].result = b.result
      BY AnswerRecord
    <3> HIDE DEF m, o
    <3>3. m = o
      BY <2>3, <3>1, <3>2 DEF IInv, TablesInv, OneMaker
    <3> QED BY <3>3 DEF m, o
  <2> QED BY <2>2, <2>3 DEF NoLostUpdate
<1> QED BY <1>1, Invariant, PTL

-----------------------------------------------------------------------------
(* Without power losses every committed revision can be read *)

\* Files stay, and what is about to be committed has its file.
Fed(q, files) ==
  q.pc # "broken" /\ (q.pc \in {"sync", "commit"} => files[q.document] # "absent")

RowsFed ==
  \A n \in Notebooks, i \in 1..MaxRevision :
    revisions[n][i] # NoContent => blobs[revisions[n][i]] # "absent"

BlobsInv == RowsFed /\ \A t \in Threads : Fed(calls[t], blobs)

FilesStay == \A c \in Contents : blobs[c] # "absent" => blobs'[c] # "absent"

\* Files that stay keep rows readable.
LEMMA RowsStayFed == ASSUME IInv, RowsFed, FilesStay, UNCHANGED revisions PROVE RowsFed'
<1>1. ASSUME NEW n \in Notebooks, NEW i \in 1..MaxRevision, revisions[n][i] # NoContent
      PROVE  blobs'[revisions[n][i]] # "absent"
  <2> revisions \in [Notebooks -> [1..MaxRevision -> Contents \cup {NoContent}]]
    BY DEF IInv, TablesInv
  <2>1. revisions[n][i] \in Contents
    BY <1>1
  <2>2. blobs[revisions[n][i]] # "absent"
    BY <1>1 DEF RowsFed
  <2> QED BY <2>1, <2>2 DEF FilesStay
<1> QED BY <1>1 DEF RowsFed

\* One thread moves, rows and files stay.
LEMMA FedKept ==
  ASSUME IInv, BlobsInv, NEW t \in Threads, NEW c, Fed(c, blobs'),
         calls' = [calls EXCEPT ![t] = c], FilesStay, UNCHANGED revisions
  PROVE  BlobsInv'
<1>1. RowsFed'
  BY RowsStayFed DEF BlobsInv
<1>2. ASSUME NEW o \in Threads PROVE Fed(calls'[o], blobs')
  <2>1. CASE o = t
    BY <2>1 DEF IInv, CallsInv
  <2>2. CASE o # t
    <3>1. calls'[o] = calls[o] /\ CallOK(calls[o], revisions, idempotency)
          /\ Fed(calls[o], blobs)
      BY <2>2 DEF IInv, CallsInv, BlobsInv
    <3> QED BY <3>1 DEF Fed, FilesStay, CallOK, WriteSteps
  <2> QED BY <2>1, <2>2
<1> QED BY <1>1, <1>2 DEF BlobsInv

\* An idle thread needs no file.
LEMMA NoCallFed == \A files : Fed(NoCall, files)
BY DEF Fed, NoCall

\* A request ends.
LEMMA RefuseFed ==
  ASSUME IInv, BlobsInv, NEW t \in Threads, Refuse(t), FilesStay, UNCHANGED revisions
  PROVE  BlobsInv'
BY FedKept, NoCallFed DEF Refuse

\* A thread goes on to a step that needs no file.
LEMMA FoundFed ==
  ASSUME IInv, BlobsInv, NEW t \in Threads, NEW step, NEW r, Found(t, step, r),
         step \in Steps \ {"broken", "sync", "commit"}, UNCHANGED <<revisions, blobs>>
  PROVE  BlobsInv'
<1> DEFINE c == [calls[t] EXCEPT !.pc = step, !.result = r]
<1>1. calls' = [calls EXCEPT ![t] = c] /\ calls[t] \in CallRecord
  BY DEF Found, IInv, CallsInv
<1>2. Fed(c, blobs')
  BY <1>1 DEF Fed, CallRecord
<1>3. FilesStay
  BY DEF FilesStay
<1> HIDE DEF c
<1> QED BY <1>1, <1>2, <1>3, FedKept

\* A thread goes on, with its file if the step needs one.
LEMMA GoToFed ==
  ASSUME IInv, BlobsInv, NEW t \in Threads, NEW step, GoTo(t, step), FilesStay,
         step # "broken", step \in {"sync", "commit"} => blobs'[calls[t].document] # "absent",
         UNCHANGED revisions
  PROVE  BlobsInv'
<1> DEFINE c == [calls[t] EXCEPT !.pc = step]
<1>1. calls' = [calls EXCEPT ![t] = c] /\ calls[t] \in CallRecord
  BY DEF GoTo, IInv, CallsInv
<1>2. Fed(c, blobs')
  BY <1>1 DEF Fed, CallRecord
<1> HIDE DEF c
<1> QED BY <1>1, <1>2, FedKept

\* Requests arrive without needing a file.
LEMMA ArriveFed == ASSUME IInv, BlobsInv, NEW t \in Threads, Arrive(t) PROVE BlobsInv'
<1>1. ASSUME NEW c, Receive(t, c), c.pc \in {"put", "exists", "head"} PROVE BlobsInv'
  <2>1. FilesStay /\ Fed(c, blobs') /\ UNCHANGED revisions
    BY <1>1 DEF Receive, FilesStay, Fed, tables
  <2> QED BY <1>1, <2>1, FedKept DEF Receive
<1>2. ASSUME NEW k \in Keys, ReceiveCreate(t, k) PROVE BlobsInv'
  BY <1>1, <1>2, NoCallFields DEF ReceiveCreate, CallRecord
<1>3. ASSUME NEW k \in Keys, NEW n \in Notebooks, ReceiveSave(t, k, n) PROVE BlobsInv'
  BY <1>1, <1>3, NoCallFields DEF ReceiveSave, CallRecord
<1>4. ASSUME NEW n \in Notebooks, ReceiveGet(t, n) \/ ReceiveRevision(t, n) PROVE BlobsInv'
  BY <1>1, <1>4, NoCallFields DEF ReceiveGet, ReceiveRevision, CallRecord
<1> QED BY <1>2, <1>3, <1>4 DEF Arrive

\* put publishes the file before commit, exists makes sure of it.
LEMMA BlobStepFed ==
  ASSUME IInv, BlobsInv, NEW t \in Threads, BlobExists(t) \/ PutBlob(t) \/ SyncBlob(t)
  PROVE  BlobsInv'
<1> DEFINE d == calls[t].document
<1>1. CallOK(calls[t], revisions, idempotency) /\ Fed(calls[t], blobs)
      /\ blobs \in [Contents -> BlobStates]
  BY DEF IInv, CallsInv, BlobsInv
<1>2. CASE BlobExists(t)
  BY <1>2, GoToFed DEF BlobExists, FilesStay, tables
<1>3. CASE PutBlob(t)
  <2>1. d \in Contents
    BY <1>1, <1>3 DEF PutBlob, At, CallOK, WriteSteps
  <2>2. CASE Refuse(t) /\ UNCHANGED blobs
    BY <1>3, <2>2, RefuseFed DEF PutBlob, FilesStay, tables
  <2>3. CASE GoTo(t, "sync") /\ blobs' = [blobs EXCEPT ![d] = IF @ = "absent" THEN "published" ELSE @]
    <3>1. FilesStay /\ blobs'[d] # "absent"
      BY <1>1, <2>1, <2>3 DEF FilesStay
    <3> QED BY <1>3, <2>3, <3>1, GoToFed DEF PutBlob, tables
  <2> QED BY <1>3, <2>2, <2>3 DEF PutBlob
<1>4. CASE SyncBlob(t)
  <2>1. d \in Contents /\ blobs[d] # "absent"
    BY <1>1, <1>4 DEF SyncBlob, At, CallOK, WriteSteps, Fed
  <2>2. FilesStay /\ blobs'[d] # "absent"
    BY <1>1, <1>4, <2>1 DEF SyncBlob, FilesStay
  <2> QED BY <1>4, <2>2, GoToFed DEF SyncBlob, tables
<1> QED BY <1>2, <1>3, <1>4

\* The content that is committed is the document whose file is there.
LEMMA WriteFed ==
  ASSUME IInv, BlobsInv, NEW t \in Threads, NEW r \in Result, Write(t, r)
  PROVE  BlobsInv'
<1> DEFINE q == calls[t]
<1>1. q \in CallRecord /\ q.document \in Contents /\ q.pc = "commit" /\ Fed(q, blobs)
      /\ UNCHANGED blobs
  BY CommitFacts DEF Write, BlobsInv
<1>2. RowsFed'
  <2>1. CASE UNCHANGED revisions
    BY <1>1, <2>1, RowsStayFed DEF FilesStay, BlobsInv
  <2>2. CASE /\ r.notebook \in Notebooks /\ r.content = q.document
             /\ revisions' = [revisions EXCEPT ![r.notebook][r.revision] = r.content]
    <3>1. blobs'[r.content] # "absent"
      BY <1>1, <2>2 DEF Fed
    <3>2. ASSUME NEW n \in Notebooks, NEW i \in 1..MaxRevision
          PROVE  revisions'[n][i] = r.content \/ revisions'[n][i] = revisions[n][i]
      BY <2>2 DEF IInv, TablesInv
    <3> QED BY <1>1, <3>1, <3>2 DEF RowsFed, BlobsInv
  <2> QED BY <2>1, <2>2 DEF Write
<1>3. ASSUME NEW o \in Threads PROVE Fed(calls'[o], blobs')
  <2>1. calls'[o] = calls[o] \/ calls'[o].pc = "reply"
    BY <1>1 DEF Write, IInv, CallsInv, CallRecord
  <2> QED BY <1>1, <2>1 DEF Fed, BlobsInv
<1> QED BY <1>2, <1>3 DEF BlobsInv

\* A row that a result names exists, and so does its notebook.
LEMMA StandsFound ==
  ASSUME IInv, NEW r, Stands(r, revisions)
  PROVE  /\ notebooks[r.notebook] # NoHead
         /\ revisions[r.notebook][r.revision] # NoContent
<1>1. revisions[r.notebook][r.revision] # NoContent /\ r.revision \in 1..MaxRevision
  BY ContentAssumption DEF Stands
<1>2. RowsOK(r.notebook) /\ notebooks[r.notebook].revision \in Nat
  BY DEF Stands, IInv, TablesInv, NotebookHead
<1>3. r.revision <= notebooks[r.notebook].revision
  BY <1>1, <1>2 DEF RowsOK
<1> QED BY <1>1, <1>2, <1>3 DEF NoHead

\* The two transactions: nothing they look for is missing.
LEMMA CommitFed ==
  ASSUME IInv, BlobsInv, NEW t \in Threads, CommitCreate(t) \/ CommitSave(t)
  PROVE  BlobsInv'
<1> DEFINE q == calls[t]
<1>1. /\ q.pc = "commit" /\ UNCHANGED <<blobs, answers, crashes>> /\ At(t, "commit")
      /\ CallOK(q, revisions, idempotency) /\ FilesStay
  BY DEF CommitCreate, CommitSave, At, IInv, CallsInv, FilesStay
<1>2. CASE Resolve(t) /\ idempotency[<<q.method, q.key>>] # NoWrite
  <2> DEFINE done == idempotency[<<q.method, q.key>>]
             step == IF q.method = "POST" THEN "read" ELSE "reply"
  <2>1. <<q.method, q.key>> \in Scopes \X Keys
    BY <1>1, CommitFacts
  <2>2. Stands(done.result, revisions)
    BY <1>2, <2>1 DEF IInv, TablesInv, RecordOK
  <2>3. CASE Refuse(t) /\ UNCHANGED tables
    BY <1>1, <2>3, RefuseFed DEF tables
  <2>4. CASE Found(t, step, done.result) /\ UNCHANGED tables
    BY <1>1, <2>4, FoundFed DEF tables, Steps
  <2> QED BY <1>2, <2>2, <2>3, <2>4, StandsFound DEF Resolve
<1>3. CASE Refuse(t) /\ UNCHANGED tables
  BY <1>1, <1>3, RefuseFed DEF tables
<1>4. CASE \E r \in Result : Write(t, r)
  BY <1>4, WriteFed
<1>5. CASE CommitCreate(t)
  <2>1. CASE InsertNotebook(t) /\ q.method = "POST" /\ idempotency[<<"POST", q.key>>] = NoWrite
    BY <1>1, <1>4, <2>1, InsertWrites
  <2> QED BY <1>2, <1>3, <1>5, <2>1 DEF CommitCreate
<1>6. CASE CommitSave(t)
  <2> DEFINE head == notebooks[q.target]
  <2>1. CASE /\ q.method = "PUT" /\ idempotency[<<"PUT", q.key>>] = NoWrite
             /\ head # NoHead /\ BaseIsHead(t) /\ head.content = q.document /\ KeepHead(t)
    BY <1>1, <1>4, <2>1, KeepWrites
  <2>2. CASE /\ q.method = "PUT" /\ idempotency[<<"PUT", q.key>>] = NoWrite
             /\ head # NoHead /\ BaseIsHead(t) /\ head.content # q.document /\ Advance(t)
    BY <1>1, <1>3, <1>4, <2>2, AdvanceWrites
  <2>3. head # NoHead => revisions[q.target][head.revision] # NoContent
    <3>1. q.target \in Notebooks
      BY <1>1, <1>6 DEF CallOK, CommitSave
    <3>2. RowsOK(q.target) /\ head \in NotebookHead
      BY <3>1 DEF IInv, TablesInv
    <3> QED BY <3>2, RevisionAssumption DEF RowsOK, NotebookHead
  <2> QED BY <1>2, <1>3, <1>6, <2>1, <2>2, <2>3 DEF CommitSave
<1> QED BY <1>5, <1>6

\* What is read is there.
LEMMA ReadFed ==
  ASSUME IInv, BlobsInv, NEW t \in Threads, FindHead(t) \/ FindRevision(t) \/ ReadBlob(t)
  PROVE  BlobsInv'
<1>1. CallOK(calls[t], revisions, idempotency)
  BY DEF IInv, CallsInv
<1>2. FilesStay /\ UNCHANGED revisions /\ UNCHANGED blobs
  BY DEF FindHead, FindRevision, ReadBlob, FilesStay, tables
<1>3. CASE FindHead(t)
  BY <1>2, <1>3, RefuseFed, FoundFed DEF FindHead, Steps
<1>4. CASE FindRevision(t)
  <2>1. ~GoTo(t, "broken") \/ revisions[calls[t].result.notebook][calls[t].result.revision] # NoContent
        \/ calls[t].method # "GET"
    BY <1>1, <1>4 DEF FindRevision, At, CallOK
  <2> QED BY <1>2, <1>4, <2>1, RefuseFed, FoundFed DEF FindRevision, Steps
<1>5. CASE ReadBlob(t)
  <2>1. Stands(calls[t].result, revisions)
    BY <1>1, <1>5 DEF ReadBlob, At, CallOK
  <2>2. revisions[calls[t].result.notebook][calls[t].result.revision] # NoContent
    BY <2>1, StandsFound
  <2>3. blobs[calls[t].result.content] # "absent"
    BY <2>1, <2>2 DEF BlobsInv, RowsFed, Stands
  <2> QED BY <1>2, <1>5, <2>3, GoToFed DEF ReadBlob
<1> QED BY <1>3, <1>4, <1>5

\* Without power losses no step takes a needed file away.
LEMMA NextFed ==
  ASSUME IInv, BlobsInv, [Next]_vars, "power" \notin Faults
  PROVE  BlobsInv'
<1>1. CASE UNCHANGED vars
  BY <1>1 DEF vars, BlobsInv, RowsFed
<1>2. ASSUME NEW t \in Threads, Reply(t) \/ ReplyFailure(t) PROVE BlobsInv'
  BY <1>2, RefuseFed DEF Reply, ReplyFailure, FilesStay, tables
<1>3. CASE Crash
  <2>1. \A c \in Contents : blobs'[c] = blobs[c]
    BY <1>3 DEF Crash
  <2>2. FilesStay /\ UNCHANGED revisions
    BY <1>3, <2>1 DEF FilesStay, Crash, tables
  <2>3. RowsFed'
    BY <2>2, RowsStayFed DEF BlobsInv
  <2> QED BY <1>3, <2>3, NoCallFed DEF Crash, BlobsInv
<1> QED BY <1>1, <1>2, <1>3, ArriveFed, BlobStepFed, CommitFed, ReadFed DEF Next, CallStep

\* The file of a revision is published before the transaction, and stays.
THEOREM BlobsPresentHolds == "power" \notin Faults => (Spec => []BlobsPresent)
<1> SUFFICES ASSUME "power" \notin Faults PROVE Spec => []BlobsPresent
  OBVIOUS
<1>1. Init => BlobsInv
  BY NoCallFed DEF Init, BlobsInv, RowsFed
<1>2. IInv /\ BlobsInv => BlobsPresent
  <2> SUFFICES ASSUME IInv, BlobsInv, NEW n \in Notebooks, NEW i \in 1..notebooks[n].revision
               PROVE  blobs[revisions[n][i]] # "absent"
    BY DEF BlobsPresent
  <2>1. RowsOK(n) /\ notebooks[n] \in NotebookHead
    BY DEF IInv, TablesInv
  <2>2. i \in 1..MaxRevision /\ revisions[n][i] # NoContent
    BY <2>1, RevisionAssumption DEF RowsOK, NotebookHead
  <2> QED BY <2>2 DEF BlobsInv, RowsFed
<1> QED BY <1>1, <1>2, NextFed, Invariant, PTL DEF Spec

\* No integrity check fires: no 500 and no read that fails for a missing row or file.
THEOREM NoIntegrityFaultHolds == "power" \notin Faults => (Spec => []NoIntegrityFault)
<1> SUFFICES ASSUME "power" \notin Faults PROVE Spec => []NoIntegrityFault
  OBVIOUS
<1>1. Init => BlobsInv
  BY NoCallFed DEF Init, BlobsInv, RowsFed
<1>2. BlobsInv => NoIntegrityFault
  BY DEF BlobsInv, Fed, NoIntegrityFault, At
<1> QED BY <1>1, <1>2, NextFed, Invariant, PTL DEF Spec

-----------------------------------------------------------------------------
(* The refinement: a transaction that writes is a step of NotebookStore *)

\* Every other step leaves the tables alone.
LEMMA WritesOnly ==
  ASSUME IInv, [Next]_vars
  PROVE  UNCHANGED tables \/ \E t \in Threads, r \in Result : Write(t, r)
<1>1. ASSUME NEW t \in Threads, CommitCreate(t)
      PROVE  UNCHANGED tables \/ \E r \in Result : Write(t, r)
  BY <1>1, InsertWrites DEF CommitCreate, Resolve
<1>2. ASSUME NEW t \in Threads, CommitSave(t)
      PROVE  UNCHANGED tables \/ \E r \in Result : Write(t, r)
  BY <1>2, KeepWrites, AdvanceWrites DEF CommitSave, Resolve
<1>3. ASSUME NEW t \in Threads, Arrive(t) PROVE UNCHANGED tables
  BY <1>3 DEF Arrive, ReceiveCreate, ReceiveSave, ReceiveGet, ReceiveRevision, Receive
<1>4. ASSUME NEW t \in Threads, CallStep(t)
      PROVE  UNCHANGED tables \/ CommitCreate(t) \/ CommitSave(t)
  BY <1>4 DEF CallStep, BlobExists, PutBlob, SyncBlob, FindHead, FindRevision, ReadBlob,
              Reply, ReplyFailure
<1>5. UNCHANGED vars \/ Crash => UNCHANGED tables
  BY DEF vars, tables, Crash
<1> QED BY <1>1, <1>2, <1>3, <1>4, <1>5 DEF Next

\* The first k values of a function, as a sequence, and the sequence after them.
LEMMA HistoryAppend ==
  ASSUME NEW S, NEW f, NEW k \in Nat, \A i \in 1..k : f[i] \in S, NEW c \in S
  PROVE  LET h == [i \in 1..k |-> f[i]] IN
         /\ h \in Seq(S) /\ Len(h) = k
         /\ Append(h, c) = [i \in 1..(k + 1) |-> IF i = k + 1 THEN c ELSE f[i]]
<1> DEFINE h == [i \in 1..k |-> f[i]]
           g == [i \in 1..(k + 1) |-> IF i = k + 1 THEN c ELSE f[i]]
<1>1. h \in Seq(S) /\ Len(h) = k
  BY IsASeq
<1>2. g \in Seq(S) /\ Len(g) = k + 1
  BY IsASeq
<1>3. Append(h, c) = g
  <2>1. Append(h, c) \in Seq(S) /\ Len(Append(h, c)) = k + 1
    BY <1>1, AppendProperties
  <2>2. \A i \in 1..(k + 1) : Append(h, c)[i] = g[i]
    BY <1>1, AppendProperties
  <2> HIDE DEF h, g
  <2> QED BY <1>2, <2>1, <2>2, SeqEqual
<1> QED BY <1>1, <1>3

\* A Write uses up one key.
LEMMA UsedStep ==
  ASSUME IInv, NEW t \in Threads, NEW r \in Result, Write(t, r)
  PROVE  LET q == calls[t]
             m == <<q.method, q.key>> IN
         /\ m \in Scopes \X Keys /\ Used[m] = NoWrite
         /\ Used' = [Used EXCEPT ![m] = [request |-> q.request, notebook |-> r.notebook,
                                         revision |-> r.revision, changed |-> r.changed]]
<1> DEFINE q == calls[t]
           m == <<q.method, q.key>>
           w == [request |-> q.request, result |-> r]
<1>1. /\ m \in Scopes \X Keys /\ q.request \in Requests /\ idempotency[m] = NoWrite
      /\ idempotency' = [idempotency EXCEPT ![m] = w] /\ w # NoWrite
  BY CommitFacts, NoWriteFact DEF Write
<1> HIDE DEF m
<1>2. \A o \in Scopes \X Keys : idempotency'[o] = IF o = m THEN w ELSE idempotency[o]
  BY <1>1 DEF IInv, TablesInv
<1>3. Used[m] = NoWrite
  BY <1>1 DEF Used
<1>4. Used' = [Used EXCEPT ![m] = [request |-> q.request, notebook |-> r.notebook,
                                   revision |-> r.revision, changed |-> r.changed]]
  <2> DEFINE u == [request |-> q.request, notebook |-> r.notebook,
                   revision |-> r.revision, changed |-> r.changed]
  <2>1. w.request = q.request /\ w.result = r
    OBVIOUS
  <2>2. Used'[m] = u
    BY <1>1, <1>2, <2>1, Zenon DEF Used
  <2>3. ASSUME NEW o \in Scopes \X Keys, o # m PROVE Used'[o] = Used[o]
    BY <1>2, <2>3 DEF Used
  <2>4. /\ Used = [o \in Scopes \X Keys |-> Used[o]]
        /\ Used' = [o \in Scopes \X Keys |-> Used'[o]]
    BY DEF Used
  <2> HIDE DEF u
  <2> QED BY <1>1, <2>2, <2>3, <2>4 DEF u
<1> QED BY <1>1, <1>3, <1>4 DEF m

\* What NotebookStore sees of a notebook.
LEMMA CommittedFacts ==
  ASSUME IInv, NEW n \in Notebooks
  PROVE  LET k == notebooks[n].revision IN
         /\ k \in 0..MaxRevision /\ Committed[n] \in Seq(Contents) /\ Len(Committed[n]) = k
         /\ Committed[n] = [i \in 1..k |-> revisions[n][i]]
         /\ k > 0 => Committed[n][k] = notebooks[n].content
         /\ k = 0 => Committed[n] = <<>>
<1> DEFINE k == notebooks[n].revision
<1>1. RowsOK(n) /\ k \in 0..MaxRevision
      /\ revisions[n] \in [1..MaxRevision -> Contents \cup {NoContent}]
  BY DEF IInv, TablesInv, NotebookHead
<1>2. k \in Nat /\ \A i \in 1..k : revisions[n][i] \in Contents
  BY <1>1, RevisionAssumption DEF RowsOK
<1>3. Committed[n] = [i \in 1..k |-> revisions[n][i]]
  BY DEF Committed
<1> HIDE DEF k
<1>4. Committed[n] \in Seq(Contents) /\ Len(Committed[n]) = k
  BY <1>2, <1>3, IsASeq
<1>5. k = 0 => Committed[n] = <<>>
  BY <1>4, EmptySeq
<1>6. k > 0 => Committed[n][k] = notebooks[n].content
  BY <1>1, <1>2, <1>3 DEF RowsOK, k
<1> QED BY <1>1, <1>3, <1>4, <1>5, <1>6 DEF k

\* A Write that changes a notebook appends to its history.
LEMMA CommittedStep ==
  ASSUME IInv, NEW t \in Threads, NEW r \in Result, Write(t, r), r.changed
  PROVE  Committed' = [Committed EXCEPT ![r.notebook] = Append(@, r.content)]
<1> DEFINE n == r.notebook
           k == notebooks[n].revision
<1>1. /\ n \in Notebooks /\ r.content \in Contents /\ r.revision = k + 1 /\ k + 1 \in 1..MaxRevision
      /\ notebooks' = [notebooks EXCEPT ![n] = [revision |-> r.revision, content |-> r.content]]
      /\ revisions' = [revisions EXCEPT ![n][r.revision] = r.content]
      /\ k \in Nat
  BY RevisionAssumption DEF Write, Result, IInv, TablesInv, NotebookHead
<1>2. ASSUME NEW o \in Notebooks, o # n PROVE Committed'[o] = Committed[o]
  BY <1>1, <1>2 DEF Committed, IInv, TablesInv
<1>3. Committed'[n] = Append(Committed[n], r.content)
  <2>1. \A i \in 1..k : revisions[n][i] \in Contents
    BY <1>1, RevisionAssumption DEF IInv, TablesInv, RowsOK
  <2>2. /\ notebooks'[n].revision = k + 1
        /\ \A i \in 1..(k + 1) : revisions'[n][i] = IF i = k + 1 THEN r.content ELSE revisions[n][i]
    <3> /\ revisions \in [Notebooks -> [1..MaxRevision -> Contents \cup {NoContent}]]
        /\ notebooks \in [Notebooks -> NotebookHead]
      BY DEF IInv, TablesInv
    <3>1. revisions'[n] = [revisions[n] EXCEPT ![k + 1] = r.content]
      BY <1>1
    <3>2. \A i \in 1..(k + 1) : i \in 1..MaxRevision
      BY <1>1, RevisionAssumption
    <3>3. \A i \in 1..MaxRevision : revisions'[n][i] = IF i = k + 1 THEN r.content ELSE revisions[n][i]
      BY <1>1, <3>1
    <3>4. notebooks'[n].revision = k + 1
      BY <1>1
    <3> QED BY <3>2, <3>3, <3>4
  <2>3. Committed'[n] = [i \in 1..(k + 1) |-> IF i = k + 1 THEN r.content ELSE revisions[n][i]]
    BY <1>1, <2>2 DEF Committed
  <2>4. Committed[n] = [i \in 1..k |-> revisions[n][i]]
    BY <1>1 DEF Committed
  <2> QED BY <1>1, <2>1, <2>3, <2>4, HistoryAppend
<1>4. Committed = [o \in Notebooks |-> Committed[o]] /\ Committed' = [o \in Notebooks |-> Committed'[o]]
  BY DEF Committed
<1> QED BY <1>1, <1>2, <1>3, <1>4

\* A Write is a step of NotebookStore.
LEMMA WriteIsStoreStep ==
  ASSUME IInv, NEW t \in Threads, NEW r \in Result, Write(t, r)
  PROVE  Store!Next
<1> DEFINE q == calls[t]
           n == r.notebook
           k == notebooks[n].revision
           c == r.content
           u == [request |-> q.request, notebook |-> n, revision |-> r.revision,
                 changed |-> r.changed]
<1>1. /\ n \in Notebooks /\ c \in Contents /\ q.method \in Scopes /\ q.key \in Keys
      /\ q.request \in Store!Requests
  BY CommitFacts DEF Write, Requests, Store!Requests
<1>2. /\ Used[<<q.method, q.key>>] = NoWrite
      /\ Used' = [Used EXCEPT ![<<q.method, q.key>>] = u]
  BY UsedStep
<1>3. /\ k \in 0..MaxRevision /\ Len(Committed[n]) = k
      /\ k > 0 => Committed[n][k] = notebooks[n].content
      /\ k = 0 => Committed[n] = <<>>
  BY <1>1, CommittedFacts
<1>4. r.changed => Committed' = [Committed EXCEPT ![n] = Append(@, c)]
  BY CommittedStep
<1>5. /\ CallOK(q, revisions, idempotency) /\ q.pc \in WriteSteps
      /\ r.revision \in 0..MaxRevision
  BY DEF IInv, CallsInv, Write, WriteSteps, Result
<1>6. CASE r.changed /\ q.method = "POST"
  <2>1. /\ q.request.base = 0 /\ c \in Store!Yields(q.request.body)
        /\ r.revision = 1 /\ k = 0
    BY <1>1, <1>3, <1>5, <1>6 DEF Write, CallOK, Yields, Store!Yields
  <2>2. Append(Committed[n], c) = <<c>>
    <3>1. <<>> \in Seq(Contents) /\ Len(<<>>) = 0
      OBVIOUS
    <3>2. /\ Append(<<>>, c) \in Seq(Contents) /\ Len(Append(<<>>, c)) = 1
          /\ Append(<<>>, c)[1] = c
      BY <1>1, <3>1, AppendProperties
    <3>3. <<c>> \in Seq(Contents) /\ Len(<<c>>) = 1 /\ <<c>>[1] = c
      BY <1>1
    <3>4. Append(<<>>, c) = <<c>>
      BY <3>2, <3>3, SeqEqual
    <3> QED BY <1>3, <2>1, <3>4
  <2>3. Committed' = [Committed EXCEPT ![n] = <<c>>]
    BY <1>4, <1>6, <2>2
  <2>4. Store!Record("POST", q.key, q.request, n, 1, TRUE)
    BY <1>2, <1>6, <2>1 DEF Store!Record, Result
  <2>5. Store!Create(q.key, q.request, n, c)
    BY <1>2, <1>3, <1>6, <2>1, <2>3, <2>4 DEF Store!Create
  <2> QED BY <1>1, <2>5 DEF Store!Next
<1>7. CASE q.method = "PUT"
  <2>1. /\ q.request.body = c /\ q.request.base = k /\ k > 0
        /\ r.changed => r.revision = k + 1 /\ c # notebooks[n].content
        /\ ~r.changed => r.revision = k /\ c = notebooks[n].content
    BY <1>1, <1>3, <1>5, <1>7 DEF Write, CallOK
  <2>2. CASE r.changed
    <3>1. Store!Record("PUT", q.key, q.request, n, k + 1, TRUE)
      BY <1>2, <1>7, <2>1, <2>2 DEF Store!Record, Result
    <3>2. k < MaxRevision /\ Committed[n][k] # q.request.body
      BY <1>3, <1>5, <2>1, <2>2, RevisionAssumption
    <3>3. Committed' = [Committed EXCEPT ![n] = Append(@, q.request.body)]
      BY <1>4, <2>1, <2>2
    <3>4. Store!Save(q.key, q.request, n)
      BY <1>2, <1>3, <1>7, <2>1, <3>1, <3>2, <3>3 DEF Store!Save
    <3> QED BY <1>1, <2>1, <3>4 DEF Store!Next
  <2>3. CASE ~r.changed
    <3>1. Store!Record("PUT", q.key, q.request, n, k, FALSE)
      BY <1>2, <1>7, <2>1, <2>3 DEF Store!Record, Result
    <3>2. Committed[n][k] = q.request.body
      BY <1>3, <2>1, <2>3
    <3>3. UNCHANGED Committed
      BY <2>3 DEF Write, Committed
    <3>4. Store!Save(q.key, q.request, n)
      BY <1>2, <1>3, <1>7, <2>1, <3>1, <3>2, <3>3 DEF Store!Save
    <3> QED BY <1>1, <2>1, <3>4 DEF Store!Next
  <2> QED BY <2>2, <2>3
<1> QED BY <1>1, <1>6, <1>7 DEF Scopes, Write

\* Every step is one of NotebookStore or changes nothing of it.
LEMMA StoreStep == ASSUME IInv, [Next]_vars PROVE [Store!Next]_(Store!storeVars)
<1>1. CASE UNCHANGED tables
  BY <1>1 DEF tables, Store!storeVars, Committed, Used
<1>2. CASE \E t \in Threads, r \in Result : Write(t, r)
  BY <1>2, WriteIsStoreStep
<1> QED BY <1>1, <1>2, WritesOnly

\* The empty service is the empty store.
LEMMA StoreInit == Init => Store!Init
<1> SUFFICES ASSUME Init PROVE Store!Init
  OBVIOUS
<1>1. \A n \in Notebooks : Committed[n] = <<>>
  BY Initially, CommittedFacts DEF Init, NoHead
<1>2. Used = [m \in Scopes \X Keys |-> NoWrite]
  BY DEF Init, Used
<1>3. Committed = [n \in Notebooks |-> Committed[n]]
  BY DEF Committed
<1> QED BY <1>1, <1>2, <1>3 DEF Store!Init, Scopes, Store!Methods

\* Blob files, threads, restarts and retries add nothing to NotebookStore: each
\* transaction is one of its steps, everything else is invisible in the tables.
THEOREM ImplementsStoreHolds == Spec => ImplementsStore
BY Invariant, StoreInit, StoreStep, PTL DEF Spec, ImplementsStore, Store!Spec

\* Rows are immutable and a key keeps the result it was used for.
THEOREM NothingIsRewrittenHolds == Spec => NothingIsRewritten
<1>1. ASSUME IInv, [Next]_vars, NEW n \in Notebooks, NEW i \in 1..Len(Committed[n])
      PROVE  i <= Len(Committed'[n]) /\ Committed'[n][i] = Committed[n][i]
  <2>1. CASE UNCHANGED tables
    <3>1. Len(Committed[n]) \in Nat
      BY <1>1, CommittedFacts, RevisionAssumption
    <3>2. Committed' = Committed
      BY <2>1 DEF tables, Committed
    <3> QED BY <1>1, <3>1, <3>2
  <2>2. ASSUME NEW t \in Threads, NEW r \in Result, Write(t, r)
        PROVE  i <= Len(Committed'[n]) /\ Committed'[n][i] = Committed[n][i]
    <3>1. Committed[n] \in Seq(Contents) /\ r.content \in Contents /\ i \in 1..Len(Committed[n])
      BY <1>1, <2>2, CommittedFacts DEF Write
    <3>2. CASE ~r.changed
      <4>1. Committed' = Committed
        BY <2>2, <3>2 DEF Write, Committed
      <4> QED BY <3>1, <4>1
    <3>3. CASE r.changed
      <4>1. Committed'[n] = Committed[n] \/ Committed'[n] = Append(Committed[n], r.content)
        <5>1. Committed' = [Committed EXCEPT ![r.notebook] = Append(@, r.content)]
          BY <1>1, <2>2, <3>3, CommittedStep
        <5>2. Committed = [o \in Notebooks |-> Committed[o]] /\ n \in Notebooks
          BY <1>1 DEF Committed
        <5> QED BY <5>1, <5>2
      <4> QED BY <3>1, <4>1, AppendProperties
    <3> QED BY <3>2, <3>3
  <2> QED BY <1>1, <2>1, <2>2, WritesOnly
<1>2. ASSUME IInv, [Next]_vars, NEW m \in Scopes \X Keys, Used[m] # NoWrite
      PROVE  Used'[m] = Used[m]
  <2>1. idempotency'[m] = idempotency[m]
    <3>1. idempotency[m] # NoWrite
      BY <1>2 DEF Used
    <3>2. CASE UNCHANGED tables
      BY <3>2 DEF tables
    <3>3. ASSUME NEW t \in Threads, NEW r \in Result, Write(t, r)
          PROVE  idempotency'[m] = idempotency[m]
      BY <1>2, <3>1, <3>3, WriteGrows DEF Grows
    <3> QED BY <1>2, <3>2, <3>3, WritesOnly
  <2> QED BY <2>1 DEF Used
<1>3. IInv /\ [Next]_vars =>
        [/\ \A n \in Notebooks : \A i \in 1..Len(Committed[n]) :
              i <= Len(Committed'[n]) /\ Committed'[n][i] = Committed[n][i]
         /\ \A m \in Store!Methods \X Keys :
              Used[m] # NoWrite => Used'[m] = Used[m]]_(Store!storeVars)
  BY <1>1, <1>2 DEF Scopes, Store!Methods
<1> QED BY <1>3, Invariant, PTL DEF Spec, NothingIsRewritten, Store!NothingIsRewritten

\* A row has a maker: the record of a request that changed the notebook.
Made(n, i) ==
  \E m \in Scopes \X Keys :
    /\ idempotency[m] # NoWrite /\ idempotency[m].result.changed
    /\ idempotency[m].result.notebook = n /\ idempotency[m].result.revision = i

MadeInv ==
  \A n \in Notebooks, i \in 1..MaxRevision : revisions[n][i] # NoContent => Made(n, i)

\* A Write makes the row it adds.
LEMMA WriteMakes ==
  ASSUME IInv, MadeInv, NEW t \in Threads, NEW r \in Result, Write(t, r)
  PROVE  MadeInv'
<1>1. Grows
  BY WriteGrows
<1>2. ASSUME NEW n \in Notebooks, NEW i \in 1..MaxRevision, Made(n, i)
      PROVE  Made(n, i)'
  BY <1>1, <1>2 DEF Made, Grows
<1>3. ASSUME NEW n \in Notebooks, NEW i \in 1..MaxRevision,
             revisions[n][i] = NoContent, revisions'[n][i] # NoContent
      PROVE  Made(n, i)'
  <2> DEFINE q == calls[t]
             w == [request |-> q.request, result |-> r]
  <2>1. r.changed /\ n = r.notebook /\ i = r.revision
    <3>1. revisions \in [Notebooks -> [1..MaxRevision -> Contents \cup {NoContent}]]
      BY DEF IInv, TablesInv
    <3>2. \/ UNCHANGED revisions
          \/ r.changed /\ revisions' = [revisions EXCEPT ![r.notebook][r.revision] = r.content]
      BY DEF Write
    <3>3. n # r.notebook => revisions'[n] = revisions[n]
      BY <3>1, <3>2
    <3>4. ASSUME n = r.notebook, i # r.revision PROVE revisions'[n][i] = revisions[n][i]
      <4>1. revisions'[n] = revisions[n] \/ revisions'[n] = [revisions[n] EXCEPT ![r.revision] = r.content]
        BY <3>1, <3>2, <3>4
      <4> QED BY <3>1, <3>4, <4>1
    <3> QED BY <1>3, <3>2, <3>3, <3>4
  <2>2. Recorded(q.method, q.key, q.request, r, idempotency')
    BY WriteTables
  <2>3. q.request \in Requests
    BY CommitFacts DEF Write
  <2> DEFINE m == <<q.method, q.key>>
  <2>4. m \in Scopes \X Keys /\ idempotency'[m] # NoWrite /\ idempotency'[m].result = r
    BY <2>2, <2>3, NoWriteFact DEF Recorded
  <2> HIDE DEF m
  <2> QED BY <2>1, <2>4 DEF Made
<1> QED BY <1>2, <1>3 DEF MadeInv

\* Every row goes back to one keyed request: the row and the record are one transaction.
THEOREM OneRequestPerRevisionHolds == Spec => []OneRequestPerRevision
<1>1. Init => MadeInv
  BY DEF Init, MadeInv
<1>2. ASSUME IInv, MadeInv, [Next]_vars PROVE MadeInv'
  <2>1. CASE UNCHANGED tables
    BY <1>2, <2>1 DEF tables, MadeInv, Made
  <2> QED BY <1>2, <2>1, WritesOnly, WriteMakes
<1>3. ASSUME IInv, MadeInv PROVE OneRequestPerRevision
  <2>1. ASSUME NEW m \in Scopes \X Keys, idempotency[m] # NoWrite
        PROVE  /\ Used[m] # NoWrite /\ Used[m].changed = idempotency[m].result.changed
               /\ Used[m].notebook = idempotency[m].result.notebook
               /\ Used[m].revision = idempotency[m].result.revision
    <3> DEFINE w == idempotency[m]
               u == [request |-> w.request, notebook |-> w.result.notebook,
                     revision |-> w.result.revision, changed |-> w.result.changed]
    <3>1. w \in Writes /\ Stands(w.result, revisions)
      BY <1>3, <2>1 DEF IInv, TablesInv, RecordOK
    <3>2. u \in Store!Writes
      BY <3>1 DEF Writes, Stands, Requests, Result, Store!Writes, Store!Requests
    <3>3. Used[m] = u
      BY <2>1 DEF Used
    <3> QED BY <3>2, <3>3, UsedAssumption
  <2>2. ASSUME NEW m \in Scopes \X Keys, Used[m] # NoWrite PROVE idempotency[m] # NoWrite
    BY <2>2 DEF Used
  <2>3. ASSUME NEW n \in Notebooks, NEW i \in 1..Len(Committed[n]) PROVE Made(n, i)
    <3>1. i \in 1..MaxRevision /\ i <= notebooks[n].revision
      <4>1. Len(Committed[n]) = notebooks[n].revision /\ notebooks[n].revision \in 0..MaxRevision
        BY <1>3, CommittedFacts
      <4> HIDE DEF Committed
      <4> QED BY <4>1, RevisionAssumption
    <3>2. revisions[n][i] # NoContent
      BY <1>3, <3>1 DEF IInv, TablesInv, RowsOK
    <3> QED BY <1>3, <3>1, <3>2 DEF MadeInv
  <2>4. OneMaker
    BY <1>3 DEF IInv, TablesInv
  <2> HIDE DEF Used
  <2>5. ASSUME NEW n \in Notebooks, NEW i \in 1..Len(Committed[n])
        PROVE  \E m \in Scopes \X Keys :
                 /\ Store!Changed(m) /\ Used[m].notebook = n /\ Used[m].revision = i
                 /\ \A o \in Scopes \X Keys :
                      Store!Changed(o) /\ Used[o].notebook = n /\ Used[o].revision = i => o = m
    <3>1. PICK m \in Scopes \X Keys :
            /\ idempotency[m] # NoWrite /\ idempotency[m].result.changed
            /\ idempotency[m].result.notebook = n /\ idempotency[m].result.revision = i
      BY <2>3 DEF Made
    <3>2. Store!Changed(m) /\ Used[m].notebook = n /\ Used[m].revision = i
      BY <2>1, <3>1 DEF Store!Changed
    <3>3. ASSUME NEW o \in Scopes \X Keys, Store!Changed(o), Used[o].notebook = n,
                 Used[o].revision = i
          PROVE  o = m
      <4>1. idempotency[o] # NoWrite /\ idempotency[o].result.changed
            /\ idempotency[o].result.notebook = n /\ idempotency[o].result.revision = i
        BY <2>1, <2>2, <3>3 DEF Store!Changed
      <4> QED BY <2>4, <3>1, <4>1 DEF OneMaker
    <3> QED BY <3>2, <3>3
  <2> QED BY <2>5 DEF OneRequestPerRevision, Store!OneRequestPerRevision, Scopes, Store!Methods
<1> QED BY <1>1, <1>2, <1>3, Invariant, PTL DEF Spec

==============================================================================

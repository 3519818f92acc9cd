------------------------------ MODULE AnnualUpload ------------------------------
(***************************************************************************)
(* What a ULB does to a section: upload a file (confirmUpload), retry its   *)
(* OCR, remove a document, ask for a manual review, submit the section to   *)
(* the State.                                                               *)
(*                                                                         *)
(* Every request reads the section once, checks what it read, and writes    *)
(* later, without a condition on what it checked; an upload reads a file    *)
(* from S3 in between. A request may die between any two of its steps.      *)
(***************************************************************************)
EXTENDS AnnualStore

CONSTANTS
  Handler,    \* requests other than uploads that the server has under way
  MaxRuns,    \* bound on the OCR runs of one upload
  Casts       \* the scenes

VARIABLES
  filing,     \* filing[u]: the request confirmUpload of the upload u
  req,        \* req[h]: the request the handler h serves, and what it read
  worker,     \* worker[<<u, n>>]: the n-th queued OCR run of u; n = 0 is the cron's sync of u
  cast        \* the scene, one of Casts, chosen once

ulbvars == <<annualStore, filing, req, worker, cast>>

ASSUME CastAssumption == Casts \subseteq Scene /\ MaxRuns \in Nat \ {0}

Worker == Upload \X (0..MaxRuns)

FilingState ==
  [pc : {"new", "checked", "counted", "touched", "push", "slotted", "recorded", "done"},
   docId : DocId, version : 0..Cardinality(Upload), uploadedAt : 0..Cardinality(Upload)]

\* The requests of ULBs, States and the ADMIN; on is the upload a request read.
Request ==
  [op : {"none", "retry", "broken", "remove", "submit", "ask", "askRow",
         "decide", "decideRow", "document", "section", "undo"},
   docId : DocId, on : Upload \cup {NoUpload}, left : SUBSET {"history", "entry"},
   verdict : Verdict \cup {NoVerdict}, seen : 0..Cardinality(Upload), sweep : SUBSET DocId]

AnyDoc == CHOOSE d \in DocId : TRUE

NoRequest ==
  [op |-> "none", docId |-> AnyDoc, on |-> NoUpload, left |-> {}, verdict |-> NoVerdict,
   seen |-> 0, sweep |-> {}]

WorkerState ==
  [pc : {"unused", "waiting", "active", "polling", "claimed", "apply", "ended"},
   result : Validation \cup {"ERROR"}, counts : BOOLEAN, fresh : BOOLEAN,
   strikes : 0..MaxAttempts]

Unused == [pc |-> "unused", result |-> "NONE", counts |-> FALSE, fresh |-> FALSE, strikes |-> 0]

UlbTypeOK ==
  /\ filing \in [Upload -> FilingState]
  /\ req \in [Handler -> Request]
  /\ worker \in [Worker -> WorkerState]
  /\ cast \in Casts

UlbInit ==
  /\ filing = [u \in Upload |-> [pc |-> "new", docId |-> AnyDoc, version |-> 0,
                              uploadedAt |-> 0]]
  /\ req = [h \in Handler |-> NoRequest]
  /\ worker = [w \in Worker |-> Unused]
  /\ cast \in Casts

\* The number of uploads with an uploadedAt: the time, as far as decisions are compared with it.
Clock == Cardinality({u \in Upload : filing[u].uploadedAt > 0})

\* The requests of users that are open.
Open ==
  {u \in Upload : filing[u].pc \notin {"new", "done"}} \cup {h \in Handler : req[h] # NoRequest}

Start(h, r) ==
  /\ req[h] = NoRequest
  /\ r.op \in cast.ops
  /\ Cardinality(Open) < cast.open
  /\ req' = [req EXCEPT ![h] = r]
Finish(h) == req' = [req EXCEPT ![h] = NoRequest]

\* enqueueOcrJob: a further run of u waits in the queue.
Enqueue(u) ==
  \E n \in 1..MaxRuns :
    /\ worker[<<u, n>>].pc = "unused"
    /\ \A k \in 1..(n - 1) : worker[<<u, k>>].pc # "unused"
    /\ worker' = [worker EXCEPT ![<<u, n>>].pc = "waiting"]

-----------------------------------------------------------------------------
(* confirmUpload                                                           *)

FilingPc(u, pc) == filing' = [filing EXCEPT ![u].pc = pc]

\* assertCanUlbUpload.
CheckUpload(u, d) ==
  /\ filing[u].pc = "new"
  /\ Cardinality(Open) < cast.open
  /\ Cardinality({v \in Upload : filing[v].pc # "new"}) < cast.uploads
  /\ section \in UlbEditable
  /\ HasEntry(d) => CanReupload(Entry(d)) /\ OpenToUlb(Entry(d))
  /\ filing' = [filing EXCEPT ![u].pc = "checked", ![u].docId = d]
  /\ UNCHANGED <<annualStore, req, worker, cast>>

Rows(d) == {v \in Upload : history[v] # NoRow /\ history[v].docId = d}

\* Mutant: the version follows that of the file in the entry.
VersionOfEntry(d) ==
  IF HasEntry(d) /\ Entry(d).upload \in Rows(d) THEN history[Entry(d).upload].version + 1 ELSE 1

\* Mutant: the version is the number of earlier uploads.
VersionFromZero(d) == Cardinality(Rows(d))

NextVersion(d) == Cardinality(Rows(d)) + 1

\* After the file was read from S3: the upload gets its version and its time.
ReadVersion(u) ==
  /\ filing[u].pc = "checked"
  /\ filing' = [filing EXCEPT ![u].pc = "counted", ![u].version = NextVersion(filing[u].docId),
                             ![u].uploadedAt = Clock + 1]
  /\ UNCHANGED <<annualStore, req, worker, cast>>

TouchSection(u) ==
  /\ filing[u].pc = "counted"
  /\ FilingPc(u, "touched")
  /\ section' = "IN_PROGRESS"
  /\ UNCHANGED <<documents, history, pending, req, worker, cast>>

\* The file of u in an entry, its OCR before it; manual-review fields of the entry stay.
WithUpload(item, u) ==
  [item EXCEPT !.upload = u, !.processing = "PROCESSING", !.validation = "NONE",
               !.requested = FALSE]

WriteEntry(u) ==
  LET d == filing[u].docId
  IN /\ filing[u].pc = "touched"
     /\ \/ /\ HasEntry(d)
           /\ documents' = [documents EXCEPT ![First(d)] = WithUpload(@, u)]
           /\ FilingPc(u, "slotted")
        \/ /\ ~HasEntry(d)
           /\ FilingPc(u, "push")
           /\ UNCHANGED documents
     /\ UNCHANGED <<section, history, pending, req, worker, cast>>

\* No entry matched: one is pushed, also when another upload has pushed one meanwhile.
PushEntry(u) ==
  /\ filing[u].pc = "push"
  /\ documents' = Append(documents,
       [docId |-> filing[u].docId, upload |-> u, processing |-> "PROCESSING",
        validation |-> "NONE", requested |-> FALSE, review |-> NoVerdict, strikes |-> 0,
        blocked |-> "no", decision |-> Undecided])
  /\ FilingPc(u, "slotted")
  /\ UNCHANGED <<section, history, pending, req, worker, cast>>

\* The unique index on document and version.
VersionTaken(u) == \E v \in Rows(filing[u].docId) : history[v].version = filing[u].version

\* When another upload has taken the version meanwhile the request fails; the entry keeps its file.
CreateHistory(u) ==
  /\ filing[u].pc = "slotted"
  /\ \/ /\ ~VersionTaken(u)
        /\ history' = [history EXCEPT ![u] =
             [docId |-> filing[u].docId, version |-> filing[u].version, processing |-> "PROCESSING",
              started |-> FALSE, job |-> FALSE, runs |-> 1, passes |-> 0, fails |-> 0]]
        /\ FilingPc(u, "recorded")
     \/ VersionTaken(u) /\ FilingPc(u, "done") /\ UNCHANGED history
  /\ UNCHANGED <<section, documents, pending, req, worker, cast>>

EnqueueUpload(u) ==
  /\ filing[u].pc = "recorded"
  /\ Enqueue(u)
  /\ FilingPc(u, "done")
  /\ UNCHANGED <<annualStore, req, cast>>

Confirm(u) ==
  \/ \E d \in DocId : CheckUpload(u, d)
  \/ ReadVersion(u) \/ TouchSection(u) \/ WriteEntry(u) \/ PushEntry(u) \/ CreateHistory(u) \/ EnqueueUpload(u)

-----------------------------------------------------------------------------
(* retryUpload                                                             *)

\* A failed run, or one that was started and is taken to be stalled. It need not be the entry's
\* current upload, another retry of it may be under way, and the section's status is not asked.
BeginRetry(h, u) ==
  /\ history[u].processing = "FAILED" \/ (history[u].processing = "PROCESSING" /\ history[u].started)
  /\ OpenToUlb(Entry(history[u].docId))
  /\ Start(h, [NoRequest EXCEPT !.op = "retry", !.on = u, !.docId = history[u].docId,
                                !.left = {"history", "entry"}])
  /\ UNCHANGED <<annualStore, filing, worker, cast>>

Restarted(row) ==
  [row EXCEPT !.processing = "PROCESSING", !.started = FALSE, !.job = FALSE, !.runs = @ + 1]

\* No more than MaxRuns runs of an upload.
RetryHistory(h) ==
  /\ req[h].op \in {"retry", "broken"}
  /\ "history" \in req[h].left
  /\ history[req[h].on].runs < MaxRuns
  /\ history' = [history EXCEPT ![req[h].on] = Restarted(@)]
  /\ IF req[h].op = "broken" THEN Finish(h) ELSE req' = [req EXCEPT ![h].left = @ \ {"history"}]
  /\ UNCHANGED <<section, documents, pending, filing, worker, cast>>

\* The entry is found by docId alone. With no file in it, the write of its ocrInfo fails and the
\* run is not queued.
RetryEntry(h) ==
  LET i == First(req[h].docId)
  IN /\ req[h].op = "retry"
     /\ "entry" \in req[h].left
     /\ \/ /\ documents[i].upload # NoUpload
           /\ documents' = [documents EXCEPT ![i] = WithUpload(@, @.upload)]
           /\ req' = [req EXCEPT ![h].left = @ \ {"entry"}]
        \/ /\ documents[i].upload = NoUpload
           /\ IF "history" \in req[h].left THEN req' = [req EXCEPT ![h].op = "broken"] ELSE Finish(h)
           /\ UNCHANGED documents
     /\ UNCHANGED <<section, history, pending, filing, worker, cast>>

EnqueueRetry(h) ==
  /\ req[h].op = "retry"
  /\ req[h].left = {}
  /\ Enqueue(req[h].on)
  /\ Finish(h)
  /\ UNCHANGED <<annualStore, filing, cast>>

-----------------------------------------------------------------------------
(* removeDocument                                                          *)

BeginRemove(h, d) ==
  /\ HasEntry(d)
  /\ CanReupload(Entry(d)) /\ OpenToUlb(Entry(d))
  /\ Start(h, [NoRequest EXCEPT !.op = "remove", !.docId = d])
  /\ UNCHANGED <<annualStore, filing, worker, cast>>

RemoveFile(h) ==
  /\ req[h].op = "remove"
  /\ documents' = [documents EXCEPT ![First(req[h].docId)] =
       [@ EXCEPT !.upload = NoUpload, !.processing = "NOT_STARTED", !.validation = "NONE",
                 !.requested = FALSE]]
  /\ Finish(h)
  /\ UNCHANGED <<section, history, pending, filing, worker, cast>>

-----------------------------------------------------------------------------
(* requestManualReview                                                     *)

BeginAsk(h, d) ==
  /\ HasEntry(d)
  /\ CanAsk(Entry(d))
  /\ Start(h, [NoRequest EXCEPT !.op = "ask", !.docId = d, !.on = Entry(d).upload])
  /\ UNCHANGED <<annualStore, filing, worker, cast>>

\* By docId alone; with no file in the entry the write fails, and the request with it.
AskEntry(h) ==
  LET i == First(req[h].docId)
  IN /\ req[h].op = "ask"
     /\ \/ /\ documents[i].upload # NoUpload
           /\ documents' = [documents EXCEPT ![i].requested = TRUE, ![i].review = NoVerdict]
           /\ req' = [req EXCEPT ![h].op = "askRow"]
        \/ /\ documents[i].upload = NoUpload
           /\ Finish(h)
           /\ UNCHANGED documents
     /\ UNCHANGED <<section, history, pending, filing, worker, cast>>

AskRow(h) ==
  /\ req[h].op = "askRow"
  /\ pending' = [pending EXCEPT ![req[h].on] = @ + 1]
  /\ Finish(h)
  /\ UNCHANGED <<section, documents, history, filing, worker, cast>>

-----------------------------------------------------------------------------
(* submitSection                                                           *)

\* resolveEffectiveDecision: a decision made before the entry's file was uploaded no longer counts.
Effective(item) ==
  IF item.upload # NoUpload /\ filing[item.upload].uploadedAt > item.decision.at THEN NoVerdict
  ELSE item.decision.status

\* Every document there is has passed and is not returned; that every required one is there is not
\* asked.
BeginSubmit(h) ==
  /\ documents # <<>>
  /\ section \in UlbEditable
  /\ \A i \in DOMAIN documents :
       documents[i].processing = "PASSED" /\ Effective(documents[i]) # "RETURNED"
  /\ Start(h, [NoRequest EXCEPT !.op = "submit"])
  /\ UNCHANGED <<annualStore, filing, worker, cast>>

SubmitSection(h) ==
  /\ req[h].op = "submit"
  /\ section' = "UNDER_REVIEW_BY_STATE"
  /\ Finish(h)
  /\ UNCHANGED <<documents, history, pending, filing, worker, cast>>

UlbRequest(h) ==
  \/ \E u \in Upload : BeginRetry(h, u)
  \/ RetryHistory(h) \/ RetryEntry(h) \/ EnqueueRetry(h)
  \/ \E d \in DocId : BeginRemove(h, d) \/ BeginAsk(h, d)
  \/ RemoveFile(h) \/ AskEntry(h) \/ AskRow(h)
  \/ BeginSubmit(h) \/ SubmitSection(h)

\* A request fails or its server dies between two of its steps.
RequestDies ==
  /\ cast.faults
  /\ \/ \E u \in Upload : /\ filing[u].pc \notin {"new", "done"}
                       /\ FilingPc(u, "done")
                       /\ UNCHANGED <<annualStore, req, worker, cast>>
     \/ \E h \in Handler : /\ req[h] # NoRequest
                        /\ Finish(h)
                        /\ UNCHANGED <<annualStore, filing, worker, cast>>
=============================================================================

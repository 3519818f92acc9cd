-------------------------- MODULE AnnualAccounts_proofs --------------------------
(***************************************************************************)
(* Theorems about the annual accounts of a ULB, for any documents, any      *)
(* number of uploads, requests and OCR runs, and any scenes.                *)
(***************************************************************************)
EXTENDS AnnualAccounts, TLAPS, FiniteSetTheorems, SequenceTheorems, NaturalsInduction,
        WellFoundedInduction

-----------------------------------------------------------------------------
(* Annual accounts: entries                                                *)

Less == OpToRel(<, Nat)

LEMMA LessIs == \A x, y \in Nat : <<x, y>> \in Less <=> x < y
BY DEF Less, OpToRel

\* Every non-empty set of numbers has a least one.
LEMMA LeastNumber ==
  ASSUME NEW T \in SUBSET Nat, T # {}
  PROVE  \E x \in T : \A y \in T : x <= y
<1>1. IsWellFoundedOn(Less, Nat)
  BY NatLessThanWellFounded DEF Less
<1>2. PICK x \in T : \A y \in T : <<y, x>> \notin Less
  BY <1>1, WFMin
<1>3. \A y \in T : ~ (y < x)
  BY <1>2, LessIs
<1>4. QED  BY <1>3

\* The entry a filter on a docId finds is one of that docId.
LEMMA FirstIsEntry ==
  ASSUME documents \in Seq(DocumentItem), NEW d, HasEntry(d)
  PROVE  /\ First(d) \in DOMAIN documents
         /\ documents[First(d)].docId = d
         /\ documents[First(d)] \in DocumentItem
<1>1. Entries(d) \in SUBSET Nat /\ Entries(d) # {}
  BY DEF Entries, HasEntry
<1>2. PICK i \in Entries(d) : \A j \in Entries(d) : i <= j
  BY <1>1, LeastNumber
<1>3. First(d) \in Entries(d)
  BY <1>2 DEF First
<1>4. QED  BY <1>3 DEF Entries

\* Documents that are written in place remain a sequence of documents.
LEMMA WrittenInPlace ==
  ASSUME documents \in Seq(DocumentItem), DOMAIN documents' = DOMAIN documents,
         documents' = [i \in DOMAIN documents |-> documents'[i]],
         \A i \in DOMAIN documents : documents'[i] \in DocumentItem
  PROVE  documents' \in Seq(DocumentItem)
<1>1. Len(documents) \in Nat /\ DOMAIN documents = 1..Len(documents)
  OBVIOUS
<1>2. documents' \in [1..Len(documents) -> DocumentItem]
  BY <1>1
<1>3. QED  BY <1>1, <1>2

\* Entries never go, and keep their docId.
Grown ==
  \A i \in DOMAIN documents : i \in DOMAIN documents' /\ documents'[i].docId = documents[i].docId

\* There is an entry of d after the step.
StillHas(d) == \E i \in DOMAIN documents' : documents'[i].docId = d

LEMMA GrownKeepsEntries ==
  ASSUME Grown
  PROVE  \A d : HasEntry(d) => StillHas(d)
BY DEF Grown, HasEntry, Entries, StillHas

\* One entry is written.
LEMMA EntryWritten ==
  ASSUME documents \in Seq(DocumentItem), NEW k \in DOMAIN documents, NEW e \in DocumentItem,
         documents' = [documents EXCEPT ![k] = e], e.docId = documents[k].docId
  PROVE  /\ documents' \in Seq(DocumentItem) /\ Grown
         /\ DOMAIN documents' = DOMAIN documents
         /\ \A i \in DOMAIN documents : documents'[i] = IF i = k THEN e ELSE documents[i]
BY DEF Grown

-----------------------------------------------------------------------------
(* Annual accounts: types                                                  *)

\* What is known of an upload by the time its request has come to a step.
FilingInv ==
  \A u \in Upload :
    /\ filing[u].pc \in {"new", "checked"} => filing[u].uploadedAt = 0
    /\ filing[u].pc \in {"counted", "touched", "push", "slotted", "recorded"} => filing[u].version > 0
    /\ filing[u].pc \in {"slotted", "recorded"} => HasEntry(filing[u].docId)
    /\ filing[u].pc = "recorded" => history[u] # NoRow

\* A row is written by its upload, last, and is never without a run; its document has an entry.
RowInv ==
  \A u \in Upload : history[u] # NoRow =>
    /\ filing[u].pc \in {"recorded", "done"}
    /\ history[u].processing # "NOT_STARTED"
    /\ HasEntry(history[u].docId)

\* What a request has read is still there.
RequestInv ==
  \A h \in Handler :
    /\ req[h].op \in {"retry", "broken"} =>
         req[h].on \in Upload /\ history[req[h].on] # NoRow /\ req[h].docId = history[req[h].on].docId
    /\ req[h].op \in {"retry", "remove", "ask", "askRow", "document", "decide", "decideRow"} =>
         HasEntry(req[h].docId)
    /\ req[h].op \in {"ask", "askRow", "decide", "decideRow"} => req[h].on \in Upload
    /\ req[h].op \in {"decide", "decideRow"} => req[h].verdict \in Verdict

\* Only recorded uploads are run.
WorkerInv ==
  \A w \in Worker : worker[w].pc \notin {"unused", "ended"} => history[w[1]] # NoRow

AnnualTypeInv == AnnualTypeOK /\ FilingInv /\ RowInv /\ RequestInv /\ WorkerInv

LEMMA UploadsAreCounted == Cardinality(Upload) \in Nat
BY UploadAssumption, FS_CardinalityType

LEMMA NoRequestTyped ==
  /\ AnyDoc \in DocId /\ NoRequest \in Request /\ Unused \in WorkerState
  /\ NoRequest.op = "none" /\ Undecided \in StateDecision
BY UploadAssumption, UploadsAreCounted, MaxAttemptsAssumption
DEF AnyDoc, NoRequest, Request, Unused, WorkerState, Undecided, StateDecision, Verdict, NoVerdict,
    Validation

\* A row that is written is one; NoRow is none.
LEMMA RowsAreRows ==
  /\ NoRow.processing = "NOT_STARTED"
  /\ NoRow \notin HistoryRow
BY DEF NoRow, HistoryRow

LEMMA AnnualInitTyped ==
  ASSUME AnnualInit
  PROVE  AnnualTypeInv
<1> USE DEF AnnualInit, AnnualStoreInit, UlbInit
<1>1. AnnualStoreTypeOK
  BY DEF AnnualStoreTypeOK, FormStatus
<1>2. UlbTypeOK
  BY NoRequestTyped, UploadsAreCounted DEF UlbTypeOK, FilingState
<1>3. FilingInv /\ RowInv
  BY DEF FilingInv, RowInv
<1>4. RequestInv /\ WorkerInv
  BY NoRequestTyped DEF RequestInv, WorkerInv, Unused
<1>5. QED  BY <1>1, <1>2, <1>3, <1>4 DEF AnnualTypeInv, AnnualTypeOK

\* The time is the number of uploads there are at most; it moves on with an upload.
LEMMA ClockTyped == Clock \in 0..Cardinality(Upload)
<1>1. {u \in Upload : filing[u].uploadedAt > 0} \in SUBSET Upload
  OBVIOUS
<1>2. QED
  BY <1>1, UploadAssumption, FS_Subset, FS_CardinalityType DEF Clock

LEMMA ClockOfUpload ==
  ASSUME NEW u \in Upload, filing[u].uploadedAt = 0
  PROVE  Clock + 1 \in 1..Cardinality(Upload)
<1> DEFINE T == {v \in Upload : filing[v].uploadedAt > 0}
<1>1. T \cup {u} \in SUBSET Upload /\ u \notin T /\ T \in SUBSET Upload
  OBVIOUS
<1>2. /\ IsFiniteSet(T) /\ Cardinality(T) \in Nat
      /\ Cardinality(T \cup {u}) <= Cardinality(Upload)
  BY <1>1, UploadAssumption, FS_Subset, FS_CardinalityType
<1>3. Cardinality(T \cup {u}) = Cardinality(T) + 1
  BY <1>1, <1>2, FS_AddElement
<1>4. QED  BY <1>2, <1>3, UploadsAreCounted DEF Clock

\* A new upload has a version within the bound.
LEMMA VersionTyped ==
  ASSUME NEW u \in Upload, history[u] = NoRow, NEW d
  PROVE  NextVersion(d) \in 1..Cardinality(Upload)
<1> DEFINE T == Rows(d)
<1>1. T \cup {u} \in SUBSET Upload /\ u \notin T /\ T \in SUBSET Upload
  BY DEF Rows
<1>2. /\ IsFiniteSet(T) /\ Cardinality(T) \in Nat
      /\ Cardinality(T \cup {u}) <= Cardinality(Upload)
  BY <1>1, UploadAssumption, FS_Subset, FS_CardinalityType
<1>3. Cardinality(T \cup {u}) = Cardinality(T) + 1
  BY <1>1, <1>2, FS_AddElement
<1>4. QED  BY <1>2, <1>3, UploadsAreCounted DEF NextVersion

\* Queueing a run keeps the types and concerns no other run.
LEMMA EnqueueTyped ==
  ASSUME worker \in [Worker -> WorkerState], NEW u \in Upload, Enqueue(u)
  PROVE  /\ worker' \in [Worker -> WorkerState]
         /\ \A w \in Worker : w[1] # u => worker'[w] = worker[w]
<1>1. PICK n \in 1..MaxRuns : worker' = [worker EXCEPT ![<<u, n>>].pc = "waiting"]
  BY DEF Enqueue
<1>2. <<u, n>> \in Worker
  BY CastAssumption DEF Worker
<1>3. [worker[<<u, n>>] EXCEPT !.pc = "waiting"] \in WorkerState
  BY <1>2 DEF WorkerState
<1>4. worker' = [worker EXCEPT ![<<u, n>>] = [worker[<<u, n>>] EXCEPT !.pc = "waiting"]]
  BY <1>1, <1>2
<1>5. QED  BY <1>2, <1>3, <1>4

\* Rows never go, and keep their document.
RowsKept ==
  \A u \in Upload : history[u] # NoRow => history'[u] # NoRow /\ history'[u].docId = history[u].docId

\* What the invariants say of uploads, rows, requests and runs stays as long as entries and rows do.
LEMMA FilingStays ==
  ASSUME FilingInv, Grown, RowsKept, NEW u \in Upload,
         \A v \in Upload \ {u} : filing'[v] = filing[v],
         /\ filing'[u].pc \in {"new", "checked"} => filing'[u].uploadedAt = 0
         /\ filing'[u].pc \in {"counted", "touched", "push", "slotted", "recorded"} => filing'[u].version > 0
         /\ filing'[u].pc \in {"slotted", "recorded"} => StillHas(filing'[u].docId)
         /\ filing'[u].pc = "recorded" => history'[u] # NoRow
  PROVE  FilingInv'
<1>1. \A d : HasEntry(d) => StillHas(d)
  BY GrownKeepsEntries
<1>2. ASSUME NEW v \in Upload, filing'[v].pc \in {"slotted", "recorded"}
      PROVE  StillHas(filing'[v].docId)
  BY <1>1, <1>2 DEF FilingInv
<1>3. QED  BY <1>2 DEF FilingInv, RowsKept, StillHas, HasEntry, Entries

LEMMA FilingUnchanged ==
  ASSUME FilingInv, Grown, RowsKept, filing' = filing
  PROVE  FilingInv'
<1>1. \A v \in Upload : HasEntry(filing[v].docId) => StillHas(filing'[v].docId)
  BY GrownKeepsEntries
<1>2. QED  BY <1>1 DEF FilingInv, RowsKept, StillHas, HasEntry, Entries

LEMMA RowsStay ==
  ASSUME RowInv, Grown, RowsKept,
         \A u \in Upload : filing[u].pc \in {"recorded", "done"} => filing'[u].pc \in {"recorded", "done"},
         \A u \in Upload : history'[u] # NoRow =>
           history[u] # NoRow /\ (history'[u] = history[u] \/ history'[u].processing # "NOT_STARTED")
  PROVE  RowInv'
<1>1. \A d : HasEntry(d) => StillHas(d)
  BY GrownKeepsEntries
<1>2. ASSUME NEW u \in Upload, history'[u] # NoRow
      PROVE  StillHas(history'[u].docId)
  BY <1>1, <1>2 DEF RowInv, RowsKept
<1>3. QED  BY <1>2 DEF RowInv, RowsKept, StillHas, HasEntry, Entries

LEMMA RequestsStay ==
  ASSUME RequestInv, Grown, RowsKept, \A h \in Handler : req'[h] = req[h] \/ req'[h] = NoRequest
  PROVE  RequestInv'
<1>1. \A h \in Handler : HasEntry(req[h].docId) => StillHas(req[h].docId)
  BY GrownKeepsEntries
<1>2. ASSUME NEW h \in Handler, req'[h] = req[h]
      PROVE  /\ req'[h].op \in {"retry", "broken"} =>
                  /\ req'[h].on \in Upload /\ history'[req'[h].on] # NoRow
                  /\ req'[h].docId = history'[req'[h].on].docId
             /\ req'[h].op \in {"retry", "remove", "ask", "askRow", "document", "decide", "decideRow"} =>
                  StillHas(req'[h].docId)
             /\ req'[h].op \in {"ask", "askRow", "decide", "decideRow"} => req'[h].on \in Upload
             /\ req'[h].op \in {"decide", "decideRow"} => req'[h].verdict \in Verdict
  BY <1>1, <1>2 DEF RequestInv, RowsKept
<1>3. QED  BY <1>2, NoRequestTyped DEF RequestInv, StillHas, HasEntry, Entries

LEMMA WorkersStay ==
  ASSUME WorkerInv, RowsKept,
         \A w \in Worker : worker'[w].pc \notin {"unused", "ended"} =>
           worker[w].pc \notin {"unused", "ended"} \/ history'[w[1]] # NoRow
  PROVE  WorkerInv'
BY DEF WorkerInv, RowsKept, Worker

\* The steps of an upload keep the types.
LEMMA ConfirmTyped ==
  ASSUME AnnualTypeInv, NEW u \in Upload, Confirm(u), UNCHANGED ruled
  PROVE  AnnualTypeInv'
<1>0. /\ FilingInv /\ RowInv /\ RequestInv /\ WorkerInv
      /\ filing \in [Upload -> FilingState] /\ filing[u] \in FilingState
      /\ history \in [Upload -> HistoryRow \cup {NoRow}] /\ documents \in Seq(DocumentItem)
      /\ worker \in [Worker -> WorkerState] /\ req \in [Handler -> Request]
      /\ pending \in [Upload -> Nat] /\ section \in FormStatus /\ cast \in Casts
      /\ ruled \subseteq DocId \X Verdict /\ filing[u].docId \in DocId
  BY DEF AnnualTypeInv, AnnualTypeOK, AnnualStoreTypeOK, UlbTypeOK, FilingState
<1>1. ASSUME filing' \in [Upload -> FilingState], FilingInv', Grown, RowsKept,
             filing[u].pc \notin {"recorded", "done"} \/ filing'[u].pc \in {"recorded", "done"},
             \A v \in Upload \ {u} : filing'[v] = filing[v],
             UNCHANGED <<history, pending, req, worker, cast>>,
             documents' \in Seq(DocumentItem), section' \in FormStatus
      PROVE  AnnualTypeInv'
  <2>1. RowInv'
    BY <1>0, <1>1, RowsStay
  <2>2. RequestInv' /\ WorkerInv'
    BY <1>0, <1>1, RequestsStay, WorkersStay
  <2>3. AnnualTypeOK'
    BY <1>0, <1>1 DEF AnnualTypeOK, AnnualStoreTypeOK, UlbTypeOK
  <2>4. QED  BY <1>1, <2>1, <2>2, <2>3 DEF AnnualTypeInv
<1>2. ASSUME UNCHANGED <<documents, history>>
      PROVE  Grown /\ RowsKept
  BY <1>2 DEF Grown, RowsKept
<1>3. ASSUME NEW d \in DocId, CheckUpload(u, d)
      PROVE  AnnualTypeInv'
  <2>1. /\ filing' = [filing EXCEPT ![u] = [filing[u] EXCEPT !.pc = "checked", !.docId = d]]
        /\ filing[u].pc = "new"
    BY <1>0, <1>3 DEF CheckUpload
  <2>2. [filing[u] EXCEPT !.pc = "checked", !.docId = d] \in FilingState
    BY <1>0 DEF FilingState
  <2>3. filing' \in [Upload -> FilingState] /\ filing'[u].pc = "checked" /\ filing'[u].uploadedAt = 0
    BY <1>0, <2>1, <2>2 DEF FilingState, FilingInv
  <2>4. FilingInv'
    BY <1>0, <1>2, <1>3, <2>1, <2>3, FilingStays DEF CheckUpload, annualStore
  <2>5. QED
    BY <1>0, <1>1, <1>2, <1>3, <2>1, <2>3, <2>4 DEF CheckUpload, annualStore
<1>4. CASE ReadVersion(u)
  <2> DEFINE v == NextVersion(filing[u].docId)
             f == [filing[u] EXCEPT !.pc = "counted", !.version = v, !.uploadedAt = Clock + 1]
  <2>1. /\ filing' = [filing EXCEPT ![u] = f] /\ filing[u].pc = "checked"
    BY <1>0, <1>4 DEF ReadVersion
  <2>2. history[u] = NoRow /\ filing[u].uploadedAt = 0
    BY <1>0, <2>1 DEF RowInv, FilingInv
  <2>3. v \in 1..Cardinality(Upload) /\ Clock + 1 \in 1..Cardinality(Upload)
    BY <2>2, VersionTyped, ClockOfUpload
  <2> HIDE DEF v
  <2>4. f \in FilingState /\ f.version > 0 /\ f.pc = "counted"
    <3>1. v \in 0..Cardinality(Upload) /\ v > 0 /\ Clock + 1 \in 0..Cardinality(Upload)
      BY <2>3, UploadsAreCounted
    <3>2. QED  BY <1>0, <3>1 DEF FilingState
  <2> HIDE DEF f
  <2>5. FilingInv'
    BY <1>0, <1>2, <1>4, <2>1, <2>4, FilingStays DEF ReadVersion, annualStore
  <2>6. QED
    BY <1>0, <1>1, <1>2, <1>4, <2>1, <2>4, <2>5, ZenonT(40) DEF ReadVersion, annualStore
<1>5. CASE TouchSection(u)
  <2>1. /\ filing' = [filing EXCEPT ![u] = [filing[u] EXCEPT !.pc = "touched"]]
        /\ filing[u].pc = "counted"
    BY <1>0, <1>5 DEF TouchSection, FilingPc
  <2>2. [filing[u] EXCEPT !.pc = "touched"] \in FilingState
    BY <1>0 DEF FilingState
  <2>3. filing' \in [Upload -> FilingState] /\ filing'[u].pc = "touched" /\ filing'[u].version > 0
    BY <1>0, <2>1, <2>2 DEF FilingState, FilingInv
  <2>4. FilingInv'
    BY <1>0, <1>2, <1>5, <2>1, <2>3, FilingStays DEF TouchSection
  <2>5. section' \in FormStatus
    BY <1>5 DEF TouchSection, FormStatus
  <2>6. QED
    BY <1>0, <1>1, <1>2, <1>5, <2>1, <2>3, <2>4, <2>5 DEF TouchSection
<1>6. CASE WriteEntry(u) \/ PushEntry(u)
  <2> DEFINE d == filing[u].docId
  <2>1. /\ documents' \in Seq(DocumentItem) /\ Grown
        /\ filing'[u].pc = "slotted" => StillHas(d)
    <3>1. ASSUME HasEntry(d), documents' = [documents EXCEPT ![First(d)] = WithUpload(@, u)]
          PROVE  documents' \in Seq(DocumentItem) /\ Grown /\ StillHas(d)
      <4>1. First(d) \in DOMAIN documents /\ documents[First(d)] \in DocumentItem
        BY <1>0, <3>1, FirstIsEntry
      <4>2. /\ WithUpload(documents[First(d)], u) \in DocumentItem
            /\ WithUpload(documents[First(d)], u).docId = documents[First(d)].docId
        BY <4>1 DEF WithUpload, DocumentItem, Processing, Validation
      <4>3. documents' = [documents EXCEPT ![First(d)] = WithUpload(documents[First(d)], u)]
        BY <3>1
      <4>4. documents' \in Seq(DocumentItem) /\ Grown
        BY <1>0, <4>1, <4>2, <4>3, EntryWritten
      <4>5. QED  BY <3>1, <4>4, GrownKeepsEntries
    <3>2. ASSUME PushEntry(u)
          PROVE  documents' \in Seq(DocumentItem) /\ Grown /\ StillHas(d)
      <4> DEFINE e == [docId |-> d, upload |-> u, processing |-> "PROCESSING",
                       validation |-> "NONE", requested |-> FALSE, review |-> NoVerdict, strikes |-> 0,
                       blocked |-> "no", decision |-> Undecided]
      <4>1. e \in DocumentItem /\ e.docId = d
        BY <1>0, NoRequestTyped, MaxAttemptsAssumption DEF DocumentItem, Processing, Validation, Cooldown
      <4>2. documents' = Append(documents, e)
        BY <3>2 DEF PushEntry
      <4> HIDE DEF e
      <4>3. /\ documents' \in Seq(DocumentItem) /\ Len(documents') = Len(documents) + 1
            /\ \A i \in 1..Len(documents) : documents'[i] = documents[i]
            /\ documents'[Len(documents) + 1] = e
        BY <1>0, <4>1, <4>2, AppendProperties
      <4>4. Grown
        BY <1>0, <4>3 DEF Grown
      <4>5. QED  BY SMTT(30), <1>0, <4>1, <4>3, <4>4 DEF StillHas
    <3>3. ASSUME UNCHANGED documents, filing'[u].pc # "slotted"
          PROVE  documents' \in Seq(DocumentItem) /\ Grown
      BY <1>0, <3>3 DEF Grown
    <3>4. ASSUME WriteEntry(u)
          PROVE  \/ HasEntry(d) /\ documents' = [documents EXCEPT ![First(d)] = WithUpload(@, u)]
                 \/ UNCHANGED documents /\ filing'[u].pc # "slotted"
      BY <1>0, <3>4 DEF WriteEntry, FilingPc, FilingState
    <3>5. QED  BY <1>6, <3>1, <3>2, <3>3, <3>4
  <2>2. PICK pc \in {"push", "slotted"} : filing' = [filing EXCEPT ![u] = [filing[u] EXCEPT !.pc = pc]]
    BY <1>0, <1>6 DEF WriteEntry, PushEntry, FilingPc
  <2>3. [filing[u] EXCEPT !.pc = pc] \in FilingState /\ filing[u].pc \in {"touched", "push"}
    BY <1>0, <1>6 DEF FilingState, WriteEntry, PushEntry
  <2>4. /\ filing' \in [Upload -> FilingState] /\ filing'[u].pc = pc /\ filing'[u].version > 0
        /\ filing'[u].docId = d
    BY <1>0, <2>2, <2>3 DEF FilingState, FilingInv
  <2>5. RowsKept /\ UNCHANGED <<section, history, pending, req, worker, cast>>
    BY <1>6 DEF WriteEntry, PushEntry, RowsKept
  <2>6. FilingInv'
    BY <1>0, <2>1, <2>2, <2>4, <2>5, FilingStays
  <2>7. QED
    BY <1>0, <1>1, <2>1, <2>2, <2>3, <2>4, <2>5, <2>6
<1>7. CASE CreateHistory(u)
  <2>1. PICK pc \in {"recorded", "done"} : filing' = [filing EXCEPT ![u] = [filing[u] EXCEPT !.pc = pc]]
    BY <1>0, <1>7 DEF CreateHistory, FilingPc
  <2>2. /\ [filing[u] EXCEPT !.pc = pc] \in FilingState /\ filing[u].pc = "slotted"
        /\ history[u] = NoRow /\ filing[u].version > 0 /\ HasEntry(filing[u].docId)
    BY <1>0, <1>7 DEF FilingState, CreateHistory, RowInv, FilingInv
  <2>3. /\ filing' \in [Upload -> FilingState] /\ filing'[u].pc = pc
        /\ filing'[u].version = filing[u].version /\ filing'[u].docId = filing[u].docId
    BY <1>0, <2>1, <2>2 DEF FilingState
  <2> DEFINE row == [docId |-> filing[u].docId, version |-> filing[u].version, processing |-> "PROCESSING",
                     started |-> FALSE, job |-> FALSE, runs |-> 1, passes |-> 0, fails |-> 0]
  <2>4. row \in HistoryRow /\ row # NoRow /\ row.processing # "NOT_STARTED"
        /\ row.docId = filing[u].docId
    BY <1>0, <2>2, RowsAreRows, UploadsAreCounted DEF HistoryRow, Processing, FilingState
  <2>5. \/ history' = [history EXCEPT ![u] = row]
        \/ history' = history /\ pc = "done"
    BY <1>0, <1>7, <2>1, <2>2 DEF CreateHistory, FilingPc, FilingState
  <2> HIDE DEF row
  <2>6. /\ RowsKept /\ Grown /\ history' \in [Upload -> HistoryRow \cup {NoRow}]
        /\ \A v \in Upload \ {u} : history'[v] = history[v]
        /\ UNCHANGED <<section, documents, pending, req, worker, cast>>
    BY <1>0, <1>7, <2>2, <2>4, <2>5 DEF CreateHistory, RowsKept, Grown, HasEntry, Entries
  <2>7. FilingInv'
    <3>1. pc = "recorded" => history'[u] # NoRow
      BY <1>0, <2>4, <2>5
    <3>2. StillHas(filing'[u].docId)
      BY <2>2, <2>3, <2>6, GrownKeepsEntries
    <3>3. \A v \in Upload \ {u} : filing'[v] = filing[v]
      BY <1>0, <2>1
    <3>4. filing'[u].version > 0 /\ filing'[u].pc \in {"recorded", "done"}
      BY <2>2, <2>3
    <3>5. QED  BY <1>0, <2>3, <2>6, <3>1, <3>2, <3>3, <3>4, FilingStays
  <2>8. RowInv'
    <3>1. filing'[u].pc \in {"recorded", "done"} /\ \A v \in Upload \ {u} : filing'[v] = filing[v]
      BY <1>0, <2>1, <2>3
    <3>2. history'[u] # NoRow => history'[u] = row
      BY <1>0, <2>2, <2>5
    <3>3. ASSUME NEW v \in Upload, history'[v] # NoRow
          PROVE  /\ filing'[v].pc \in {"recorded", "done"} /\ history'[v].processing # "NOT_STARTED"
                 /\ StillHas(history'[v].docId)
      <4>1. CASE v = u
        BY <4>1, <2>2, <2>4, <2>6, <3>1, <3>2, <3>3, GrownKeepsEntries
      <4>2. CASE v # u
        BY <1>0, <4>2, <2>6, <3>1, <3>3, GrownKeepsEntries DEF RowInv
      <4>3. QED  BY <4>1, <4>2
    <3>4. QED  BY <3>3 DEF RowInv, StillHas, HasEntry, Entries
  <2>9. RequestInv' /\ WorkerInv'
    BY <1>0, <2>6, RequestsStay, WorkersStay
  <2>10. AnnualTypeOK'
    BY <1>0, <2>3, <2>6 DEF AnnualTypeOK, AnnualStoreTypeOK, UlbTypeOK
  <2>11. QED  BY <2>7, <2>8, <2>9, <2>10 DEF AnnualTypeInv
<1>8. CASE EnqueueUpload(u)
  <2>1. /\ filing' = [filing EXCEPT ![u] = [filing[u] EXCEPT !.pc = "done"]]
        /\ filing[u].pc = "recorded" /\ history[u] # NoRow
        /\ UNCHANGED <<section, documents, history, pending, req, cast>>
    BY <1>0, <1>8 DEF EnqueueUpload, FilingPc, annualStore, FilingInv
  <2>2. [filing[u] EXCEPT !.pc = "done"] \in FilingState
    BY <1>0 DEF FilingState
  <2>3. filing' \in [Upload -> FilingState] /\ filing'[u].pc = "done"
    BY <1>0, <2>1, <2>2 DEF FilingState
  <2>4. Grown /\ RowsKept
    BY <1>2, <2>1
  <2>5. FilingInv' /\ RowInv'
    <3>1. \A v \in Upload \ {u} : filing'[v] = filing[v]
      BY <1>0, <2>1
    <3>2. FilingInv'
      BY <1>0, <2>3, <2>4, <3>1, FilingStays
    <3>3. QED  BY <1>0, <2>1, <2>3, <2>4, <3>1, <3>2, RowsStay
  <2>6. /\ worker' \in [Worker -> WorkerState]
        /\ \A w \in Worker : w[1] # u => worker'[w] = worker[w]
    BY <1>0, <1>8, EnqueueTyped DEF EnqueueUpload
  <2>7. RequestInv' /\ WorkerInv'
    BY <1>0, <2>1, <2>4, <2>6, RequestsStay, WorkersStay
  <2>8. AnnualTypeOK'
    BY <1>0, <2>1, <2>3, <2>6 DEF AnnualTypeOK, AnnualStoreTypeOK, UlbTypeOK
  <2>9. QED  BY <2>5, <2>7, <2>8 DEF AnnualTypeInv
<1>9. QED
  BY <1>3, <1>4, <1>5, <1>6, <1>7, <1>8 DEF Confirm

\* What RequestInv says of a request r after the step.
StillGood(r) ==
  /\ r.op \in {"retry", "broken"} =>
       r.on \in Upload /\ history'[r.on] # NoRow /\ r.docId = history'[r.on].docId
  /\ r.op \in {"retry", "remove", "ask", "askRow", "document", "decide", "decideRow"} => StillHas(r.docId)
  /\ r.op \in {"ask", "askRow", "decide", "decideRow"} => r.on \in Upload
  /\ r.op \in {"decide", "decideRow"} => r.verdict \in Verdict

\* A step of the request h keeps the types if it keeps those of what it writes.
LEMMA StepOfRequest ==
  ASSUME AnnualTypeInv, NEW h \in Handler, NEW r \in Request, req' = [req EXCEPT ![h] = r],
         StillGood(r), Grown, RowsKept, UNCHANGED <<filing, cast>>, section' \in FormStatus,
         documents' \in Seq(DocumentItem), pending' \in [Upload -> Nat], ruled' \subseteq DocId \X Verdict,
         history' \in [Upload -> HistoryRow \cup {NoRow}], worker' \in [Worker -> WorkerState],
         \A u \in Upload : history'[u] # NoRow =>
           history[u] # NoRow /\ (history'[u] = history[u] \/ history'[u].processing # "NOT_STARTED"),
         \A w \in Worker : worker'[w] = worker[w] \/ history'[w[1]] # NoRow
  PROVE  AnnualTypeInv'
<1>0. /\ FilingInv /\ RowInv /\ RequestInv /\ WorkerInv /\ req \in [Handler -> Request]
      /\ filing \in [Upload -> FilingState] /\ cast \in Casts
  BY DEF AnnualTypeInv, AnnualTypeOK, UlbTypeOK
<1>1. FilingInv'
  BY <1>0, FilingUnchanged
<1>2. RowInv'
  BY <1>0, RowsStay
<1>3. WorkerInv'
  BY <1>0, WorkersStay
<1>4. RequestInv'
  <2>1. ASSUME NEW g \in Handler
        PROVE  StillGood(req'[g])
    <3>1. CASE g = h
      BY <1>0, <3>1
    <3>2. CASE g # h
      <4>1. req'[g] = req[g]
        BY <3>2
      <4>2. HasEntry(req[g].docId) => StillHas(req[g].docId)
        BY GrownKeepsEntries
      <4>3. QED  BY <1>0, <4>1, <4>2 DEF RequestInv, RowsKept, StillGood
    <3>3. QED  BY <3>1, <3>2
  <2>2. QED  BY <2>1 DEF RequestInv, StillGood, StillHas, HasEntry, Entries
<1>5. AnnualTypeOK'
  BY <1>0 DEF AnnualTypeOK, AnnualStoreTypeOK, UlbTypeOK
<1>6. QED  BY <1>1, <1>2, <1>3, <1>4, <1>5 DEF AnnualTypeInv

\* A request starts, or ends with what it writes to the section and the reviews.
LEMMA NothingMoves ==
  ASSUME AnnualTypeInv, UNCHANGED <<documents, history, worker>>
  PROVE  /\ Grown /\ RowsKept /\ documents' \in Seq(DocumentItem)
         /\ history' \in [Upload -> HistoryRow \cup {NoRow}] /\ worker' \in [Worker -> WorkerState]
         /\ \A u \in Upload : history'[u] # NoRow =>
              history[u] # NoRow /\ (history'[u] = history[u] \/ history'[u].processing # "NOT_STARTED")
         /\ \A w \in Worker : worker'[w] = worker[w] \/ history'[w[1]] # NoRow
         /\ \A d : HasEntry(d) => StillHas(d)
BY DEF Grown, RowsKept, AnnualTypeInv, AnnualTypeOK, AnnualStoreTypeOK, UlbTypeOK, HasEntry, Entries,
       StillHas

LEMMA StartTyped ==
  ASSUME AnnualTypeInv, NEW h \in Handler, NEW r \in Request, Start(h, r), StillGood(r),
         UNCHANGED <<annualStore, filing, worker, cast, ruled>>
  PROVE  AnnualTypeInv'
<1>1. /\ section \in FormStatus /\ pending \in [Upload -> Nat] /\ ruled \subseteq DocId \X Verdict
      /\ UNCHANGED <<section, documents, history, pending, filing, worker, cast, ruled>>
  BY DEF AnnualTypeInv, AnnualTypeOK, AnnualStoreTypeOK, annualStore
<1>2. QED  BY <1>1, NothingMoves, StepOfRequest DEF Start

\* A request ends that has written at most the section, documents in place and the reviews.
LEMMA FinishTyped ==
  ASSUME AnnualTypeInv, NEW h \in Handler, Finish(h), section' \in FormStatus,
         documents' \in Seq(DocumentItem), Grown, pending' \in [Upload -> Nat],
         UNCHANGED <<history, worker, filing, cast, ruled>>
  PROVE  AnnualTypeInv'
<1>1. /\ RowsKept /\ ruled \subseteq DocId \X Verdict
      /\ history \in [Upload -> HistoryRow \cup {NoRow}] /\ worker \in [Worker -> WorkerState]
  BY DEF RowsKept, AnnualTypeInv, AnnualTypeOK, AnnualStoreTypeOK, UlbTypeOK
<1>2. NoRequest \in Request /\ StillGood(NoRequest)
  BY NoRequestTyped DEF StillGood
<1>3. QED  BY <1>1, <1>2, StepOfRequest DEF Finish

\* One row is written, and remains a row of its document.
LEMMA RowWritten ==
  ASSUME history \in [Upload -> HistoryRow \cup {NoRow}], NEW u \in Upload, history[u] # NoRow,
         NEW row \in HistoryRow, row.docId = history[u].docId, row.processing # "NOT_STARTED",
         history' = [history EXCEPT ![u] = row]
  PROVE  /\ RowsKept /\ history' \in [Upload -> HistoryRow \cup {NoRow}]
         /\ history'[u] = row /\ \A v \in Upload : v # u => history'[v] = history[v]
         /\ \A v \in Upload : history'[v] # NoRow =>
              history[v] # NoRow /\ (history'[v] = history[v] \/ history'[v].processing # "NOT_STARTED")
<1>1. row # NoRow
  BY RowsAreRows
<1>2. QED  BY <1>1 DEF RowsKept

\* A row that is put to PROCESSING again, or settled, is a row of its document.
LEMMA RestartedRow ==
  ASSUME NEW row \in HistoryRow
  PROVE  /\ Restarted(row) \in HistoryRow /\ Restarted(row).docId = row.docId
         /\ Restarted(row).processing = "PROCESSING" /\ Restarted(row).processing # "NOT_STARTED"
         /\ Restarted(row).runs = row.runs + 1
         /\ Restarted(row).passes = row.passes /\ Restarted(row).fails = row.fails
<1>1. "PROCESSING" \in Processing /\ row.runs + 1 \in Nat /\ FALSE \in BOOLEAN
  BY DEF Processing, HistoryRow
<1>2. Restarted(row) = [row EXCEPT !.processing = "PROCESSING", !.started = FALSE, !.job = FALSE,
                                   !.runs = row.runs + 1]
  BY DEF Restarted
<1>3. QED  BY <1>1, <1>2 DEF HistoryRow

LEMMA SettledRow ==
  ASSUME NEW row \in HistoryRow, NEW result
  PROVE  /\ Settled(row, result) \in HistoryRow /\ Settled(row, result).docId = row.docId
         /\ Settled(row, result).processing \in {"PASSED", "FAILED"}
         /\ Settled(row, result).runs = row.runs
         /\ result = "PASS" =>
              Settled(row, result).passes = row.passes + 1 /\ Settled(row, result).fails = row.fails
         /\ result # "PASS" =>
              Settled(row, result).passes = row.passes /\ Settled(row, result).fails = row.fails + 1
<1>1. /\ "PASSED" \in Processing /\ "FAILED" \in Processing
      /\ row.passes + 1 \in Nat /\ row.fails + 1 \in Nat
  BY DEF Processing, HistoryRow
<1>2. CASE result = "PASS"
  <2>1. Settled(row, result) = [row EXCEPT !.processing = "PASSED", !.passes = row.passes + 1]
    BY <1>2 DEF Settled
  <2>2. QED  BY <1>1, <1>2, <2>1 DEF HistoryRow
<1>3. CASE result # "PASS"
  <2>1. Settled(row, result) = [row EXCEPT !.processing = "FAILED", !.fails = row.fails + 1]
    BY <1>3 DEF Settled
  <2>2. QED  BY <1>1, <1>3, <2>1 DEF HistoryRow
<1>4. QED  BY <1>2, <1>3

\* The steps of retryUpload keep the types.
LEMMA RetryTyped ==
  ASSUME AnnualTypeInv, NEW h \in Handler, UNCHANGED ruled,
         (\E u \in Upload : BeginRetry(h, u)) \/ RetryHistory(h) \/ RetryEntry(h) \/ EnqueueRetry(h)
  PROVE  AnnualTypeInv'
<1>0. /\ FilingInv /\ RowInv /\ RequestInv /\ WorkerInv /\ req \in [Handler -> Request]
      /\ req[h] \in Request
      /\ history \in [Upload -> HistoryRow \cup {NoRow}] /\ documents \in Seq(DocumentItem)
      /\ worker \in [Worker -> WorkerState]
      /\ pending \in [Upload -> Nat] /\ section \in FormStatus /\ cast \in Casts
      /\ ruled \subseteq DocId \X Verdict
  BY DEF AnnualTypeInv, AnnualTypeOK, AnnualStoreTypeOK, UlbTypeOK
<1>1. ASSUME NEW u \in Upload, BeginRetry(h, u)
      PROVE  AnnualTypeInv'
  <2> DEFINE r == [NoRequest EXCEPT !.op = "retry", !.on = u, !.docId = history[u].docId,
                                    !.left = {"history", "entry"}]
  <2>1. history[u] # NoRow /\ history[u] \in HistoryRow
    BY <1>0, <1>1, RowsAreRows DEF BeginRetry
  <2>2. history[u].docId \in DocId /\ HasEntry(history[u].docId)
    BY <1>0, <2>1 DEF HistoryRow, RowInv
  <2>3. r \in Request /\ r.op = "retry" /\ r.on = u /\ r.docId = history[u].docId
    BY <2>2, NoRequestTyped DEF Request
  <2>4. UNCHANGED <<documents, history, worker>> /\ Start(h, r)
    BY <1>1 DEF BeginRetry, annualStore
  <2> HIDE DEF r
  <2>5. StillGood(r)
    BY <1>0, <2>1, <2>2, <2>3, <2>4, NothingMoves DEF StillGood
  <2>6. QED  BY <1>1, <2>3, <2>4, <2>5, StartTyped DEF BeginRetry
<1>2. CASE RetryHistory(h)
  <2> DEFINE u == req[h].on
             row == Restarted(history[u])
  <2>1. /\ u \in Upload /\ history[u] # NoRow /\ history[u] \in HistoryRow
        /\ req[h].docId = history[u].docId
    BY <1>0, <1>2 DEF RetryHistory, RequestInv
  <2>2. /\ row \in HistoryRow /\ row.docId = history[u].docId /\ row.processing # "NOT_STARTED"
    BY <2>1, RestartedRow
  <2>3. history' = [history EXCEPT ![u] = row] /\ UNCHANGED <<section, documents, pending, filing, worker, cast>>
    BY <1>2 DEF RetryHistory
  <2> HIDE DEF row
  <2>4. /\ RowsKept /\ history' \in [Upload -> HistoryRow \cup {NoRow}]
        /\ \A v \in Upload : history'[v] # NoRow =>
             history[v] # NoRow /\ (history'[v] = history[v] \/ history'[v].processing # "NOT_STARTED")
    BY <1>0, <2>1, <2>2, <2>3, RowWritten
  <2>5. Grown /\ \A d : HasEntry(d) => StillHas(d)
    BY <2>3 DEF Grown, HasEntry, Entries, StillHas
  <2>6. ASSUME NEW r \in Request, req' = [req EXCEPT ![h] = r], StillGood(r)
        PROVE  AnnualTypeInv'
    BY <1>0, <2>3, <2>4, <2>5, <2>6, StepOfRequest
  <2>7. CASE req[h].op = "broken"
    <3>1. NoRequest \in Request /\ StillGood(NoRequest)
      BY NoRequestTyped DEF StillGood
    <3>2. QED  BY <1>2, <2>6, <2>7, <3>1 DEF RetryHistory, Finish
  <2>8. CASE req[h].op = "retry"
    <3> DEFINE r == [req[h] EXCEPT !.left = @ \ {"history"}]
    <3>1. r \in Request /\ r.op = "retry" /\ r.on = u /\ r.docId = req[h].docId
      BY <1>0, <2>8 DEF Request
    <3>2. req' = [req EXCEPT ![h] = r]
      BY <1>2, <2>8 DEF RetryHistory
    <3> HIDE DEF r
    <3>3. HasEntry(r.docId) /\ history'[u] # NoRow /\ history'[u].docId = r.docId
      BY <1>0, <2>1, <2>4, <2>8, <3>1 DEF RequestInv, RowsKept
    <3>4. StillGood(r)
      BY <2>1, <2>5, <3>1, <3>3 DEF StillGood
    <3>5. QED  BY <2>6, <3>1, <3>2, <3>4
  <2>9. QED  BY <1>2, <2>7, <2>8 DEF RetryHistory
<1>3. CASE RetryEntry(h)
  <2> DEFINE u == req[h].on
             d == req[h].docId
             i == First(d)
  <2>1. /\ u \in Upload /\ history[u] # NoRow /\ history[u] \in HistoryRow
        /\ d = history[u].docId /\ HasEntry(d) /\ req[h].op = "retry"
    BY <1>0, <1>3 DEF RetryEntry, RequestInv
  <2>2. i \in DOMAIN documents /\ documents[i] \in DocumentItem
    BY <1>0, <2>1, FirstIsEntry
  <2>3. UNCHANGED <<section, history, pending, filing, worker, cast>>
    BY <1>3 DEF RetryEntry
  <2>4. RowsKept
    BY <2>3 DEF RowsKept
  <2>5. ASSUME documents[i].upload # NoUpload,
               documents' = [documents EXCEPT ![i] = WithUpload(@, @.upload)],
               req' = [req EXCEPT ![h].left = @ \ {"entry"}]
        PROVE  AnnualTypeInv'
    <3> DEFINE r == [req[h] EXCEPT !.left = @ \ {"entry"}]
               e == WithUpload(documents[i], documents[i].upload)
    <3>1. r \in Request /\ r.op = "retry" /\ r.on = u /\ r.docId = d /\ req' = [req EXCEPT ![h] = r]
      BY <1>0, <2>1, <2>5 DEF Request
    <3>2. e \in DocumentItem /\ e.docId = documents[i].docId
      BY <2>2 DEF WithUpload, DocumentItem, Processing, Validation
    <3>3. documents' = [documents EXCEPT ![i] = e]
      BY <2>5
    <3> HIDE DEF r, e
    <3>4. documents' \in Seq(DocumentItem) /\ Grown
      BY <1>0, <2>2, <3>2, <3>3, EntryWritten
    <3>5. StillGood(r)
      BY <2>1, <2>3, <3>1, <3>4, GrownKeepsEntries DEF StillGood
    <3>6. QED  BY <1>0, <2>3, <2>4, <3>1, <3>4, <3>5, StepOfRequest
  <2>6. ASSUME documents[i].upload = NoUpload, UNCHANGED documents
        PROVE  AnnualTypeInv'
    <3>1. CASE "history" \in req[h].left
      <4> DEFINE r == [req[h] EXCEPT !.op = "broken"]
      <4>1. r \in Request /\ r.op = "broken" /\ r.on = u /\ r.docId = d
        BY <1>0, <2>1 DEF Request
      <4>2. req' = [req EXCEPT ![h] = r]
        BY <1>0, <1>3, <2>6, <3>1 DEF RetryEntry
      <4> HIDE DEF r
      <4>3. StillGood(r)
        BY <2>1, <2>3, <4>1 DEF StillGood
      <4>4. Grown
        BY <2>6 DEF Grown
      <4>5. QED  BY <1>0, <2>3, <2>4, <2>6, <4>1, <4>2, <4>3, <4>4, StepOfRequest
    <3>2. CASE "history" \notin req[h].left
      BY <1>0, <1>3, <2>3, <2>6, <3>2, NothingMoves, FinishTyped DEF RetryEntry
    <3>3. QED  BY <3>1, <3>2
  <2>7. QED
    BY <1>3, <2>5, <2>6 DEF RetryEntry
<1>4. CASE EnqueueRetry(h)
  <2>1. /\ UNCHANGED <<section, documents, history, pending, filing, cast>>
        /\ Finish(h) /\ Enqueue(req[h].on) /\ req[h].on \in Upload /\ history[req[h].on] # NoRow
    BY <1>0, <1>4 DEF EnqueueRetry, annualStore, RequestInv
  <2>2. /\ worker' \in [Worker -> WorkerState]
        /\ \A w \in Worker : worker'[w] = worker[w] \/ history'[w[1]] # NoRow
    BY <1>0, <2>1, EnqueueTyped
  <2>3. Grown /\ RowsKept
    BY <2>1 DEF Grown, RowsKept
  <2>4. NoRequest \in Request /\ StillGood(NoRequest)
    BY NoRequestTyped DEF StillGood
  <2>5. QED  BY <1>0, <2>1, <2>2, <2>3, <2>4, StepOfRequest DEF Finish
<1>5. QED
  BY <1>1, <1>2, <1>3, <1>4

\* The steps of removeDocument, requestManualReview and submitSection keep the types.
LEMMA UlbRequestTyped ==
  ASSUME AnnualTypeInv, NEW h \in Handler, UlbRequest(h), UNCHANGED ruled
  PROVE  AnnualTypeInv'
<1>0. /\ FilingInv /\ RowInv /\ RequestInv /\ WorkerInv /\ req \in [Handler -> Request]
      /\ req[h] \in Request
      /\ history \in [Upload -> HistoryRow \cup {NoRow}] /\ documents \in Seq(DocumentItem)
      /\ worker \in [Worker -> WorkerState]
      /\ pending \in [Upload -> Nat] /\ section \in FormStatus /\ cast \in Casts
      /\ ruled \subseteq DocId \X Verdict
  BY DEF AnnualTypeInv, AnnualTypeOK, AnnualStoreTypeOK, UlbTypeOK
<1>1. CASE (\E u \in Upload : BeginRetry(h, u)) \/ RetryHistory(h) \/ RetryEntry(h) \/ EnqueueRetry(h)
  BY <1>1, RetryTyped
<1>2. ASSUME NEW d \in DocId, BeginRemove(h, d)
      PROVE  AnnualTypeInv'
  <2> DEFINE r == [NoRequest EXCEPT !.op = "remove", !.docId = d]
  <2>1. r \in Request /\ r.op = "remove" /\ r.docId = d /\ Start(h, r) /\ HasEntry(d)
    BY <1>2, NoRequestTyped DEF Request, BeginRemove
  <2> HIDE DEF r
  <2>2. UNCHANGED <<documents, history, worker>>
    BY <1>2 DEF BeginRemove, annualStore
  <2>3. StillGood(r)
    BY <2>1, <2>2, NothingMoves DEF StillGood
  <2>4. QED  BY <1>2, <2>1, <2>3, StartTyped DEF BeginRemove
<1>3. ASSUME NEW d \in DocId, BeginAsk(h, d)
      PROVE  AnnualTypeInv'
  <2> DEFINE r == [NoRequest EXCEPT !.op = "ask", !.docId = d, !.on = Entry(d).upload]
  <2>0. HasEntry(d) /\ Entry(d).upload \in Upload
    BY <1>0, <1>3, FirstIsEntry DEF BeginAsk, CanAsk, Entry, DocumentItem
  <2>1. r \in Request /\ r.op = "ask" /\ r.docId = d /\ r.on \in Upload /\ Start(h, r)
    BY <1>3, <2>0, NoRequestTyped DEF Request, BeginAsk
  <2> HIDE DEF r
  <2>2. UNCHANGED <<documents, history, worker>>
    BY <1>3 DEF BeginAsk, annualStore
  <2>3. StillGood(r)
    BY <2>0, <2>1, <2>2, NothingMoves DEF StillGood
  <2>4. QED  BY <1>3, <2>1, <2>3, StartTyped DEF BeginAsk
<1>4. CASE RemoveFile(h)
  <2> DEFINE i == First(req[h].docId)
             e == [documents[i] EXCEPT !.upload = NoUpload, !.processing = "NOT_STARTED",
                                       !.validation = "NONE", !.requested = FALSE]
  <2>1. i \in DOMAIN documents /\ documents[i] \in DocumentItem
    BY <1>0, <1>4, FirstIsEntry DEF RemoveFile, RequestInv
  <2>2. e \in DocumentItem /\ e.docId = documents[i].docId
    BY <2>1 DEF DocumentItem, Processing, Validation
  <2>3. documents' = [documents EXCEPT ![i] = e]
    BY <1>4 DEF RemoveFile
  <2> HIDE DEF e
  <2>4. documents' \in Seq(DocumentItem) /\ Grown
    BY <1>0, <2>1, <2>2, <2>3, EntryWritten
  <2>5. QED  BY <1>0, <1>4, <2>4, FinishTyped DEF RemoveFile
<1>5. CASE AskEntry(h)
  <2> DEFINE i == First(req[h].docId)
  <2>1. i \in DOMAIN documents /\ documents[i] \in DocumentItem /\ HasEntry(req[h].docId)
    BY <1>0, <1>5, FirstIsEntry DEF AskEntry, RequestInv
  <2>2. UNCHANGED <<section, history, pending, filing, worker, cast>> /\ req[h].op = "ask"
    BY <1>5 DEF AskEntry
  <2>3. ASSUME documents' = [documents EXCEPT ![i].requested = TRUE, ![i].review = NoVerdict],
               req' = [req EXCEPT ![h].op = "askRow"]
        PROVE  AnnualTypeInv'
    <3> DEFINE e == [documents[i] EXCEPT !.requested = TRUE, !.review = NoVerdict]
               r == [req[h] EXCEPT !.op = "askRow"]
    <3>1. e \in DocumentItem /\ e.docId = documents[i].docId
      BY <2>1 DEF DocumentItem
    <3>2. documents' = [documents EXCEPT ![i] = e]
      BY <1>0, <2>1, <2>3
    <3>3. /\ r \in Request /\ r.op = "askRow" /\ r.docId = req[h].docId /\ r.on \in Upload
          /\ req' = [req EXCEPT ![h] = r]
      BY <1>0, <2>2, <2>3 DEF Request, RequestInv
    <3> HIDE DEF e, r
    <3>4. documents' \in Seq(DocumentItem) /\ Grown /\ RowsKept
      BY <1>0, <2>1, <2>2, <3>1, <3>2, EntryWritten DEF RowsKept
    <3>5. StillGood(r)
      BY <2>1, <3>3, <3>4, GrownKeepsEntries DEF StillGood
    <3>6. QED  BY <1>0, <2>2, <3>3, <3>4, <3>5, StepOfRequest
  <2>4. CASE Finish(h) /\ UNCHANGED documents
    BY <1>0, <2>2, <2>4, NothingMoves, FinishTyped
  <2>5. QED  BY <1>5, <2>3, <2>4 DEF AskEntry
<1>6. CASE AskRow(h)
  <2>1. pending' \in [Upload -> Nat]
    BY <1>0, <1>6 DEF AskRow, RequestInv
  <2>2. QED  BY <1>0, <1>6, <2>1, NothingMoves, FinishTyped DEF AskRow
<1>7. CASE BeginSubmit(h)
  <2> DEFINE r == [NoRequest EXCEPT !.op = "submit"]
  <2>1. r \in Request /\ r.op = "submit" /\ Start(h, r)
    BY <1>7, NoRequestTyped DEF Request, BeginSubmit
  <2> HIDE DEF r
  <2>2. StillGood(r)
    BY <2>1 DEF StillGood
  <2>3. QED  BY <1>7, <2>1, <2>2, StartTyped DEF BeginSubmit
<1>8. CASE SubmitSection(h)
  BY <1>0, <1>8, NothingMoves, FinishTyped DEF SubmitSection, FormStatus
<1>9. QED
  BY <1>1, <1>2, <1>3, <1>4, <1>5, <1>6, <1>7, <1>8 DEF UlbRequest

\* A request that dies leaves everything else as it is.
LEMMA RequestDiesTyped ==
  ASSUME AnnualTypeInv, RequestDies, UNCHANGED ruled
  PROVE  AnnualTypeInv'
<1>0. /\ FilingInv /\ RowInv /\ RequestInv /\ WorkerInv /\ filing \in [Upload -> FilingState]
      /\ section \in FormStatus /\ documents \in Seq(DocumentItem) /\ pending \in [Upload -> Nat]
      /\ ruled \subseteq DocId \X Verdict
  BY DEF AnnualTypeInv, AnnualTypeOK, AnnualStoreTypeOK, UlbTypeOK
<1>1. UNCHANGED annualStore /\ UNCHANGED <<worker, cast>> /\ Grown /\ RowsKept
  BY DEF RequestDies, Grown, RowsKept, annualStore
<1>2. ASSUME NEW u \in Upload, filing[u].pc \notin {"new", "done"}, FilingPc(u, "done"), UNCHANGED req
      PROVE  AnnualTypeInv'
  <2>1. filing' = [filing EXCEPT ![u] = [filing[u] EXCEPT !.pc = "done"]]
    BY <1>0, <1>2 DEF FilingPc
  <2>2. [filing[u] EXCEPT !.pc = "done"] \in FilingState
    BY <1>0 DEF FilingState
  <2>3. /\ filing' \in [Upload -> FilingState] /\ filing'[u].pc = "done"
        /\ \A v \in Upload \ {u} : filing'[v] = filing[v]
    BY <1>0, <2>1, <2>2 DEF FilingState
  <2>4. FilingInv'
    BY <1>0, <1>1, <2>3, FilingStays
  <2>5. RowInv'
    BY <1>0, <1>1, <2>3, RowsStay DEF annualStore
  <2>6. RequestInv' /\ WorkerInv'
    BY <1>0, <1>1, <1>2, RequestsStay, WorkersStay
  <2>7. AnnualTypeOK'
    BY <1>1, <1>2, <2>3 DEF AnnualTypeInv, AnnualTypeOK, AnnualStoreTypeOK, UlbTypeOK, annualStore
  <2>8. QED  BY <2>4, <2>5, <2>6, <2>7 DEF AnnualTypeInv
<1>3. ASSUME NEW h \in Handler, Finish(h), UNCHANGED filing
      PROVE  AnnualTypeInv'
  BY <1>0, <1>1, <1>3, FinishTyped DEF annualStore
<1>4. QED  BY <1>2, <1>3 DEF RequestDies

-----------------------------------------------------------------------------
(* Annual accounts: the OCR                                                *)

\* What a run makes of a document.
LEMMA ItemWithResult ==
  ASSUME NEW item \in DocumentItem, NEW r \in WorkerState
  PROVE  /\ WithResult(item, r) \in DocumentItem
         /\ WithResult(item, r).docId = item.docId
         /\ WithResult(item, r).upload = item.upload
         /\ WithResult(item, r).processing = IF r.result = "PASS" THEN "PASSED" ELSE "FAILED"
         /\ WithResult(item, r).strikes =
              IF r.result = "PASS" THEN 0 ELSE IF r.counts THEN r.strikes ELSE item.strikes
         /\ WithResult(item, r).review = IF r.result = "PASS" THEN NoVerdict ELSE item.review
         /\ WithResult(item, r).requested = item.requested
<1>1. CASE r.result = "PASS"
  <2>1. /\ 0 \in 0..MaxAttempts /\ "PASSED" \in Processing /\ "PASS" \in Validation
        /\ NoVerdict \in Verdict \cup {NoVerdict} /\ "no" \in Cooldown
    BY MaxAttemptsAssumption DEF Processing, Validation, Cooldown
  <2>2. QED  BY <1>1, <2>1 DEF WithResult, DocumentItem
<1>2. CASE r.result # "PASS"
  <2> DEFINE v == IF r.result = "FAIL" THEN "FAIL" ELSE item.validation
             s == IF r.counts THEN r.strikes ELSE item.strikes
             b == CASE r.counts /\ r.strikes = MaxAttempts -> "active"
                    [] r.counts /\ r.strikes # MaxAttempts /\ r.fresh -> "no"
                    [] OTHER -> item.blocked
  <2>1. v \in Validation /\ s \in 0..MaxAttempts
    BY DEF DocumentItem, WorkerState, Validation
  <2>2. b \in Cooldown
    <3>1. CASE r.counts = TRUE /\ r.strikes = MaxAttempts
      BY <3>1 DEF Cooldown
    <3>2. CASE r.counts = TRUE /\ r.strikes # MaxAttempts /\ r.fresh = TRUE
      BY <3>2 DEF Cooldown
    <3>3. CASE r.counts = FALSE \/ (r.strikes # MaxAttempts /\ r.fresh = FALSE)
      BY <3>3 DEF DocumentItem
    <3>4. QED  BY <3>1, <3>2, <3>3 DEF WorkerState
  <2>3. WithResult(item, r) = [item EXCEPT !.processing = "FAILED", !.validation = v,
                                           !.strikes = s, !.blocked = b]
    BY <1>2 DEF WithResult, DocumentItem
  <2>4. s = IF r.result = "PASS" THEN 0 ELSE IF r.counts THEN r.strikes ELSE item.strikes
    BY <1>2
  <2> HIDE DEF v, s, b
  <2>5. "FAILED" \in Processing
    BY DEF Processing
  <2>6. QED  BY <1>2, <2>1, <2>2, <2>3, <2>4, <2>5 DEF DocumentItem
<1>3. QED  BY <1>1, <1>2

\* A run that is over is one.
LEMMA RestTyped ==
  ASSUME NEW w \in Worker
  PROVE  /\ Rest(w) \in WorkerState /\ Rest(w).pc \in {"unused", "ended"}
         /\ [Unused EXCEPT !.pc = "waiting"] \in WorkerState
         /\ w[1] \in Upload
BY NoRequestTyped DEF Rest, WorkerState, Unused, Worker

\* The strikes that a run reads are within the bound.
LEMMA StrikesTyped ==
  ASSUME NEW item \in DocumentItem
  PROVE  NextStrikes(item) \in 1..MaxAttempts
BY MaxAttemptsAssumption DEF NextStrikes, DocumentItem

\* A step of the OCR keeps the types if it keeps those of what it writes.
LEMMA StepOfRun ==
  ASSUME AnnualTypeInv, NEW w \in Worker, NEW s \in WorkerState, worker' = [worker EXCEPT ![w] = s],
         worker[w].pc \notin {"unused", "ended"} \/ history[w[1]] # NoRow,
         Grown, RowsKept, UNCHANGED <<section, pending, filing, req, cast, ruled>>,
         documents' \in Seq(DocumentItem), history' \in [Upload -> HistoryRow \cup {NoRow}],
         \A u \in Upload : history'[u] # NoRow =>
           history[u] # NoRow /\ (history'[u] = history[u] \/ history'[u].processing # "NOT_STARTED")
  PROVE  AnnualTypeInv'
<1>0. /\ FilingInv /\ RowInv /\ RequestInv /\ WorkerInv /\ worker \in [Worker -> WorkerState]
  BY DEF AnnualTypeInv, AnnualTypeOK, UlbTypeOK
<1>1. FilingInv' /\ RowInv' /\ RequestInv'
  BY <1>0, FilingUnchanged, RowsStay, RequestsStay
<1>2. WorkerInv'
  <2>1. history'[w[1]] # NoRow
    BY <1>0 DEF WorkerInv, RowsKept, Worker
  <2>2. QED  BY <1>0, <2>1, WorkersStay
<1>3. worker' \in [Worker -> WorkerState]
  BY <1>0
<1>4. AnnualTypeOK'
  BY <1>3 DEF AnnualTypeInv, AnnualTypeOK, AnnualStoreTypeOK, UlbTypeOK
<1>5. QED  BY <1>1, <1>2, <1>4 DEF AnnualTypeInv

\* The same, for a step that writes nothing but the run.
LEMMA RunAlone ==
  ASSUME AnnualTypeInv, NEW w \in Worker, NEW s \in WorkerState, worker' = [worker EXCEPT ![w] = s],
         worker[w].pc \notin {"unused", "ended"} \/ history[w[1]] # NoRow,
         UNCHANGED <<documents, history, ocrUnchanged, ruled>>
  PROVE  AnnualTypeInv'
<1>1. UNCHANGED <<documents, history>> /\ UNCHANGED <<section, pending, filing, req, cast, ruled>>
  BY DEF ocrUnchanged
<1>2. /\ Grown /\ RowsKept /\ documents' \in Seq(DocumentItem)
      /\ history' \in [Upload -> HistoryRow \cup {NoRow}]
      /\ \A u \in Upload : history'[u] # NoRow =>
           history[u] # NoRow /\ (history'[u] = history[u] \/ history'[u].processing # "NOT_STARTED")
  BY <1>1 DEF Grown, RowsKept, AnnualTypeInv, AnnualTypeOK, AnnualStoreTypeOK
<1>3. QED  BY <1>1, <1>2, StepOfRun

\* The same, for a step that writes the run and the row of its upload.
LEMMA RunAndRow ==
  ASSUME AnnualTypeInv, NEW w \in Worker, NEW s \in WorkerState, worker' = [worker EXCEPT ![w] = s],
         history[w[1]] # NoRow, NEW row \in HistoryRow, row.docId = history[w[1]].docId,
         row.processing # "NOT_STARTED", history' = [history EXCEPT ![w[1]] = row],
         UNCHANGED <<documents, ocrUnchanged, ruled>>
  PROVE  AnnualTypeInv'
<1>1. UNCHANGED <<documents, section, pending, filing, req, cast, ruled>> /\ w[1] \in Upload
  BY RestTyped DEF ocrUnchanged
<1>2. /\ documents \in Seq(DocumentItem) /\ history \in [Upload -> HistoryRow \cup {NoRow}]
  BY DEF AnnualTypeInv, AnnualTypeOK, AnnualStoreTypeOK
<1>3. /\ RowsKept /\ history' \in [Upload -> HistoryRow \cup {NoRow}]
      /\ \A u \in Upload : history'[u] # NoRow =>
           history[u] # NoRow /\ (history'[u] = history[u] \/ history'[u].processing # "NOT_STARTED")
  BY <1>1, <1>2, RowWritten
<1>4. Grown
  BY <1>1 DEF Grown
<1>5. QED  BY <1>1, <1>2, <1>3, <1>4, StepOfRun

\* The processor and the cron keep the types.
LEMMA OcrStepTyped ==
  ASSUME AnnualTypeInv, OcrStep, UNCHANGED ruled
  PROVE  AnnualTypeInv'
<1>0. /\ RowInv /\ WorkerInv /\ history \in [Upload -> HistoryRow \cup {NoRow}]
      /\ documents \in Seq(DocumentItem) /\ worker \in [Worker -> WorkerState]
  BY DEF AnnualTypeInv, AnnualTypeOK, AnnualStoreTypeOK, UlbTypeOK
<1>1. ASSUME NEW u \in Upload, CronTick(u)
      PROVE  AnnualTypeInv'
  <2> DEFINE w == <<u, 0>>
             s == [worker[w] EXCEPT !.pc = "polling"]
  <2>1. w \in Worker /\ w[1] = u
    BY CastAssumption DEF Worker
  <2>2. history[u] # NoRow
    BY <1>1, RowsAreRows DEF CronTick
  <2>3. s \in WorkerState /\ worker' = [worker EXCEPT ![w] = s]
    BY <1>0, <1>1, <2>1 DEF CronTick, WorkerPc, WorkerState
  <2> HIDE DEF s, w
  <2>4. QED  BY <1>1, <2>1, <2>2, <2>3, RunAlone DEF CronTick
<1>2. ASSUME NEW w \in Worker, StartRun(w)
      PROVE  AnnualTypeInv'
  <2> DEFINE s == [worker[w] EXCEPT !.pc = "active"]
             row == [history[w[1]] EXCEPT !.started = TRUE]
  <2>1. w[1] \in Upload /\ history[w[1]] # NoRow /\ history[w[1]] \in HistoryRow
    BY <1>0, <1>2, RestTyped DEF StartRun, WorkerInv
  <2>2. s \in WorkerState /\ worker' = [worker EXCEPT ![w] = s]
    BY <1>0, <1>2 DEF StartRun, WorkerPc, WorkerState
  <2>3. /\ row \in HistoryRow /\ row.docId = history[w[1]].docId
        /\ row.processing # "NOT_STARTED" /\ history' = [history EXCEPT ![w[1]] = row]
    BY <1>0, <1>2, <2>1 DEF StartRun, HistoryRow, RowInv
  <2> HIDE DEF s, row
  <2>4. QED  BY <1>2, <2>1, <2>2, <2>3, RunAndRow DEF StartRun
<1>3. ASSUME NEW w \in Worker, RecordJob(w)
      PROVE  AnnualTypeInv'
  <2> DEFINE row == [history[w[1]] EXCEPT !.job = TRUE]
  <2>1. w[1] \in Upload /\ history[w[1]] # NoRow /\ history[w[1]] \in HistoryRow
    BY <1>0, <1>3, RestTyped DEF RecordJob, WorkerInv
  <2>2. PICK pc \in {"polling", "waiting", "ended"} : WorkerPc(w, pc)
    BY <1>3 DEF RecordJob
  <2> DEFINE s == [worker[w] EXCEPT !.pc = pc]
  <2>3. s \in WorkerState /\ worker' = [worker EXCEPT ![w] = s]
    BY <1>0, <2>2 DEF WorkerPc, WorkerState
  <2>4. /\ row \in HistoryRow /\ row.docId = history[w[1]].docId
        /\ row.processing # "NOT_STARTED" /\ history' = [history EXCEPT ![w[1]] = row]
    BY <1>0, <1>3, <2>1 DEF RecordJob, HistoryRow, RowInv
  <2> HIDE DEF s, row
  <2>5. QED  BY <1>3, <2>1, <2>3, <2>4, RunAndRow DEF RecordJob
<1>4. ASSUME NEW w \in Worker, StillRunning(w)
      PROVE  AnnualTypeInv'
  BY <1>4, RestTyped, RunAlone DEF StillRunning
<1>5. ASSUME NEW w \in Worker, NEW result \in {"PASS", "FAIL", "ERROR"}, Claim(w, result)
      PROVE  AnnualTypeInv'
  <2>1. w[1] \in Upload /\ history[w[1]] # NoRow /\ history[w[1]] \in HistoryRow
    BY <1>0, <1>5, RestTyped DEF Claim, WorkerInv
  <2>2. CASE Claimable(w[1])
    <3> DEFINE row == Settled(history[w[1]], result)
               pc == IF result = "PASS" THEN "apply" ELSE "claimed"
               s == [worker[w] EXCEPT !.pc = pc, !.result = result]
    <3>1. /\ row \in HistoryRow /\ row.docId = history[w[1]].docId /\ row.processing # "NOT_STARTED"
      BY <2>1, SettledRow
    <3>2. /\ history' = [history EXCEPT ![w[1]] = row]
          /\ worker' = [worker EXCEPT ![w].pc = pc, ![w].result = result]
      BY <1>5, <2>2 DEF Claim
    <3>3. s \in WorkerState /\ worker' = [worker EXCEPT ![w] = s]
      BY <1>0, <3>2 DEF WorkerState, Validation
    <3> HIDE DEF s, row
    <3>4. UNCHANGED <<documents, ocrUnchanged>>
      BY <1>5 DEF Claim
    <3>5. QED  BY <2>1, <3>1, <3>2, <3>3, <3>4, RunAndRow
  <2>3. CASE ~Claimable(w[1])
    BY <1>5, <2>1, <2>3, RestTyped, RunAlone DEF Claim
  <2>4. QED  BY <2>2, <2>3
<1>6. ASSUME NEW w \in Worker, ReadStrikes(w)
      PROVE  AnnualTypeInv'
  <2>1. w[1] \in Upload /\ history[w[1]] # NoRow /\ UNCHANGED <<documents, history, ocrUnchanged>>
    BY <1>0, <1>6, RestTyped DEF ReadStrikes, WorkerInv
  <2>2. ASSUME NEW i \in EntriesOf(w[1]),
               worker' = [worker EXCEPT ![w] =
                 [@ EXCEPT !.pc = "apply", !.counts = TRUE, !.fresh = Fresh(documents[i]),
                           !.strikes = NextStrikes(documents[i])]]
        PROVE  AnnualTypeInv'
    <3> DEFINE n == NextStrikes(documents[i])
               f == Fresh(documents[i])
               s == [worker[w] EXCEPT !.pc = "apply", !.counts = TRUE, !.fresh = f, !.strikes = n]
    <3>1. n \in 0..MaxAttempts /\ f \in BOOLEAN
      BY <1>0, StrikesTyped, MaxAttemptsAssumption DEF EntriesOf, Entries, Fresh
    <3>2. worker' = [worker EXCEPT ![w] = s]
      BY <2>2
    <3> HIDE DEF n, f
    <3>3. s \in WorkerState
      BY <1>0, <3>1 DEF WorkerState
    <3>4. QED  BY <2>1, <3>2, <3>3, RunAlone
  <2>3. CASE WorkerPc(w, "apply")
    <3> DEFINE s == [worker[w] EXCEPT !.pc = "apply"]
    <3>1. s \in WorkerState /\ worker' = [worker EXCEPT ![w] = s]
      BY <1>0, <2>3 DEF WorkerPc, WorkerState
    <3>2. QED  BY <2>1, <3>1, RunAlone
  <2>4. QED  BY <1>6, <2>2, <2>3 DEF ReadStrikes
<1>7. ASSUME NEW w \in Worker, ApplyResult(w)
      PROVE  AnnualTypeInv'
  <2>1. /\ w[1] \in Upload /\ history[w[1]] # NoRow /\ worker[w] \in WorkerState
        /\ UNCHANGED <<history, section, pending, filing, req, cast, ruled>>
    BY <1>0, <1>7, RestTyped DEF ApplyResult, WorkerInv, ocrUnchanged
  <2>2. documents' = [i \in DOMAIN documents |->
          IF i \in EntriesOf(w[1]) THEN WithResult(documents[i], worker[w]) ELSE documents[i]]
    BY <1>7 DEF ApplyResult
  <2>3. \A i \in DOMAIN documents : /\ documents'[i] \in DocumentItem
                                    /\ documents'[i].docId = documents[i].docId
    <3>1. \A i \in DOMAIN documents : documents[i] \in DocumentItem
      BY <1>0
    <3>2. QED  BY <2>1, <2>2, <3>1, ItemWithResult
  <2>4. DOMAIN documents' = DOMAIN documents /\ documents' = [i \in DOMAIN documents |-> documents'[i]]
    BY <2>2
  <2>5. documents' \in Seq(DocumentItem)
    BY <1>0, <2>3, <2>4, WrittenInPlace
  <2>6. Grown /\ RowsKept
    BY <2>1, <2>3, <2>4 DEF Grown, RowsKept
  <2>7. Rest(w) \in WorkerState /\ worker' = [worker EXCEPT ![w] = Rest(w)]
    BY <1>7, RestTyped DEF ApplyResult
  <2>8. QED  BY <1>0, <2>1, <2>5, <2>6, <2>7, StepOfRun
<1>8. ASSUME NEW w \in Worker, WorkerFails(w)
      PROVE  AnnualTypeInv'
  <2>1. w[1] \in Upload /\ history[w[1]] # NoRow /\ UNCHANGED <<documents, history, ocrUnchanged>>
    BY <1>0, <1>8, RestTyped DEF WorkerFails, WorkerInv
  <2>2. PICK s \in {Rest(w), [Unused EXCEPT !.pc = "waiting"]} : worker' = [worker EXCEPT ![w] = s]
    BY <1>8 DEF WorkerFails
  <2>3. s \in WorkerState
    BY <2>2, RestTyped
  <2>4. QED  BY <2>1, <2>2, <2>3, RunAlone
<1>9. QED
  BY <1>1, <1>2, <1>3, <1>4, <1>5, <1>6, <1>7, <1>8 DEF OcrStep

-----------------------------------------------------------------------------
(* Annual accounts: the reviews                                            *)

\* The end of a cooldown keeps the types.
LEMMA CooldownTyped ==
  ASSUME AnnualTypeInv, CooldownEnds, UNCHANGED <<filing, req, worker, cast, ruled>>
  PROVE  AnnualTypeInv'
<1>0. /\ FilingInv /\ RowInv /\ RequestInv /\ WorkerInv /\ documents \in Seq(DocumentItem)
  BY DEF AnnualTypeInv, AnnualTypeOK, AnnualStoreTypeOK
<1>1. PICK i \in DOMAIN documents : documents' = [documents EXCEPT ![i].blocked = "over"]
  BY DEF CooldownEnds
<1>2. UNCHANGED <<section, history, pending>> /\ RowsKept
  BY DEF CooldownEnds, RowsKept
<1> DEFINE e == [documents[i] EXCEPT !.blocked = "over"]
<1>3. e \in DocumentItem /\ e.docId = documents[i].docId /\ documents' = [documents EXCEPT ![i] = e]
  <2>1. documents[i] \in DocumentItem /\ "over" \in Cooldown
    BY <1>0 DEF Cooldown
  <2>2. e \in DocumentItem /\ e.docId = documents[i].docId
    BY <2>1 DEF DocumentItem
  <2>3. QED  BY <1>1, <2>2
<1> HIDE DEF e
<1>4. documents' \in Seq(DocumentItem) /\ Grown
  BY <1>0, <1>3, EntryWritten
<1>5. FilingInv' /\ RowInv' /\ RequestInv' /\ WorkerInv'
  BY <1>0, <1>2, <1>4, FilingUnchanged, RowsStay, RequestsStay, WorkersStay
<1>6. AnnualTypeOK'
  BY <1>2, <1>4 DEF AnnualTypeInv, AnnualTypeOK, AnnualStoreTypeOK, UlbTypeOK
<1>7. QED  BY <1>5, <1>6 DEF AnnualTypeInv

\* What the ADMIN's decision makes of a document.
LEMMA RulingItem ==
  ASSUME NEW item \in DocumentItem, NEW v \in Verdict
  PROVE  /\ Ruling(item, v) \in DocumentItem /\ Ruling(item, v).docId = item.docId
         /\ Ruling(item, v).upload = item.upload
         /\ Ruling(item, v).review = v /\ Ruling(item, v).requested = item.requested
         /\ v = "APPROVED" => Ruling(item, v).strikes = item.strikes
         /\ v # "APPROVED" => Ruling(item, v).processing = item.processing /\ Ruling(item, v).strikes = 0
<1>1. 0 \in 0..MaxAttempts /\ "PASSED" \in Processing
  BY MaxAttemptsAssumption DEF Processing
<1>2. QED  BY <1>1 DEF Ruling, DocumentItem

\* A decision has a time that has been reached.
LEMMA DecisionTyped ==
  ASSUME NEW r \in Request, NEW decision \in Decided(r)
  PROVE  decision \in StateDecision
<1>1. CASE r.verdict = NoVerdict
  BY <1>1, NoRequestTyped DEF Decided
<1>2. CASE r.verdict # NoVerdict
  <2>1. PICK t \in r.seen..Clock : decision = [status |-> r.verdict, at |-> t]
    BY <1>2 DEF Decided
  <2>2. r.verdict \in Verdict \cup {NoVerdict} /\ t \in 0..Cardinality(Upload)
    BY <2>1, ClockTyped, UploadsAreCounted DEF Request
  <2>3. QED  BY <2>1, <2>2 DEF StateDecision
<1>3. QED  BY <1>1, <1>2

\* The decisions of the State and of the ADMIN keep the types.
LEMMA ReviewTyped ==
  ASSUME AnnualTypeInv, NEW h \in Handler, ReviewRequest(h)
  PROVE  AnnualTypeInv'
<1>0. /\ RequestInv /\ req \in [Handler -> Request] /\ req[h] \in Request
      /\ documents \in Seq(DocumentItem) /\ pending \in [Upload -> Nat] /\ section \in FormStatus
      /\ ruled \subseteq DocId \X Verdict /\ DOMAIN documents = 1..Len(documents)
      /\ \A i \in DOMAIN documents : documents[i] \in DocumentItem
      /\ Clock \in 0..Cardinality(Upload)
  BY ClockTyped DEF AnnualTypeInv, AnnualTypeOK, AnnualStoreTypeOK, UlbTypeOK
<1>1. ASSUME NEW r \in Request, Start(h, r), StillGood(r),
             UNCHANGED <<annualStore, filing, worker, cast, ruled>>
      PROVE  AnnualTypeInv'
  BY <1>1, StartTyped
<1>2. ASSUME NEW d \in DocId, NEW v \in Verdict \cup {NoVerdict}, BeginDocument(h, d, v)
      PROVE  AnnualTypeInv'
  <2> DEFINE r == [NoRequest EXCEPT !.op = "document", !.docId = d, !.verdict = v, !.seen = Clock]
  <2>1. r \in Request /\ r.op = "document" /\ r.docId = d /\ Start(h, r) /\ HasEntry(d)
    BY <1>0, <1>2, NoRequestTyped DEF Request, BeginDocument
  <2> HIDE DEF r
  <2>2. UNCHANGED <<documents, history, worker>>
    BY <1>2 DEF BeginDocument, annualStore
  <2>3. StillGood(r)
    BY <2>1, <2>2, NothingMoves DEF StillGood
  <2>4. QED  BY <1>1, <1>2, <2>1, <2>3 DEF BeginDocument
<1>3. ASSUME NEW d \in DocId, NEW v \in Verdict, BeginRuling(h, d, v)
      PROVE  AnnualTypeInv'
  <2> DEFINE r == [NoRequest EXCEPT !.op = "decide", !.docId = d, !.verdict = v, !.on = Entry(d).upload]
  <2>1. HasEntry(d) /\ Entry(d).upload \in Upload
    BY <1>0, <1>3, FirstIsEntry DEF BeginRuling, Entry, DocumentItem
  <2>2. /\ r \in Request /\ r.op = "decide" /\ r.docId = d /\ r.on \in Upload /\ r.verdict = v
        /\ Start(h, r)
    BY <1>3, <2>1, NoRequestTyped DEF Request, BeginRuling
  <2> HIDE DEF r
  <2>3. UNCHANGED <<documents, history, worker>>
    BY <1>3 DEF BeginRuling, annualStore
  <2>4. StillGood(r)
    BY <2>1, <2>2, <2>3, NothingMoves DEF StillGood
  <2>5. QED  BY <1>1, <1>3, <2>2, <2>4 DEF BeginRuling
<1>4. ASSUME NEW v \in Verdict, BeginSection(h, v)
      PROVE  AnnualTypeInv'
  <2> DEFINE T == {documents[i].docId : i \in {j \in DOMAIN documents : Effective(documents[j]) = NoVerdict}}
             r == [NoRequest EXCEPT !.op = "section", !.verdict = v, !.seen = Clock, !.sweep = T]
  <2>1. T \in SUBSET DocId
    BY <1>0 DEF DocumentItem
  <2>2. Start(h, r)
    BY <1>4 DEF BeginSection
  <2> HIDE DEF T
  <2>3. r \in Request /\ r.op = "section"
    BY <1>0, <2>1, NoRequestTyped DEF Request
  <2> HIDE DEF r
  <2>4. StillGood(r)
    BY <2>3 DEF StillGood
  <2>5. QED  BY <1>1, <1>4, <2>2, <2>3, <2>4 DEF BeginSection
<1>5. CASE BeginUndo(h)
  <2> DEFINE r == [NoRequest EXCEPT !.op = "undo"]
  <2>1. r \in Request /\ r.op = "undo" /\ Start(h, r)
    BY <1>5, NoRequestTyped DEF Request, BeginUndo
  <2> HIDE DEF r
  <2>2. StillGood(r)
    BY <2>1 DEF StillGood
  <2>3. QED  BY <1>1, <1>5, <2>1, <2>2 DEF BeginUndo
<1>6. CASE DecideDocument(h)
  <2> DEFINE i == First(req[h].docId)
  <2>1. PICK decision \in Decided(req[h]) : documents' = [documents EXCEPT ![i].decision = decision]
    BY <1>6 DEF DecideDocument
  <2>2. i \in DOMAIN documents /\ documents[i] \in DocumentItem /\ decision \in StateDecision
    BY <1>0, <1>6, FirstIsEntry, DecisionTyped DEF DecideDocument, RequestInv
  <2> DEFINE e == [documents[i] EXCEPT !.decision = decision]
  <2>3. e \in DocumentItem /\ e.docId = documents[i].docId /\ documents' = [documents EXCEPT ![i] = e]
    BY <2>1, <2>2 DEF DocumentItem
  <2> HIDE DEF e
  <2>4. documents' \in Seq(DocumentItem) /\ Grown
    BY <1>0, <2>2, <2>3, EntryWritten
  <2>5. QED  BY <1>0, <1>6, <2>4, FinishTyped DEF DecideDocument, reviewUnchanged
<1>7. ASSUME DOMAIN documents' = DOMAIN documents, documents' = [i \in DOMAIN documents |-> documents'[i]],
             \A i \in DOMAIN documents : \E decision \in StateDecision :
               documents'[i] \in {documents[i], [documents[i] EXCEPT !.decision = decision]}
      PROVE  documents' \in Seq(DocumentItem) /\ Grown
  <2>1. ASSUME NEW i \in DOMAIN documents
        PROVE  documents'[i] \in DocumentItem /\ documents'[i].docId = documents[i].docId
    BY <1>0, <1>7, ZenonT(40) DEF DocumentItem
  <2>2. QED  BY <1>0, <1>7, <2>1, WrittenInPlace DEF Grown
<1>8. CASE DecideSection(h)
  <2>1. PICK decision \in Decided(req[h]) :
          documents' = [i \in DOMAIN documents |->
            IF documents[i].docId \in req[h].sweep
            THEN [documents[i] EXCEPT !.decision = decision] ELSE documents[i]]
    BY <1>8 DEF DecideSection
  <2>2. decision \in StateDecision
    BY <1>0, DecisionTyped
  <2>3. documents' \in Seq(DocumentItem) /\ Grown
    BY <1>7, <2>1, <2>2
  <2>4. section' \in FormStatus
    BY <1>8 DEF DecideSection, FormStatus
  <2>5. QED  BY <1>0, <1>8, <2>3, <2>4, FinishTyped DEF DecideSection, reviewUnchanged
<1>9. CASE UndoApproval(h)
  <2>1. documents' \in Seq(DocumentItem) /\ Grown
    BY <1>7, <1>9, NoRequestTyped DEF UndoApproval
  <2>2. section' \in FormStatus
    BY <1>9 DEF UndoApproval, FormStatus
  <2>3. QED  BY <1>0, <1>9, <2>1, <2>2, FinishTyped DEF UndoApproval, reviewUnchanged
<1>10. CASE RuleEntry(h)
  <2> DEFINE i == First(req[h].docId)
             e == Ruling(documents[i], req[h].verdict)
             r == [req[h] EXCEPT !.op = "decideRow"]
  <2>1. /\ req[h].op = "decide" /\ req[h].verdict \in Verdict /\ req[h].on \in Upload
        /\ HasEntry(req[h].docId) /\ req[h].docId \in DocId
        /\ UNCHANGED <<section, pending, history, filing, worker, cast>>
    BY <1>0, <1>10 DEF RuleEntry, RequestInv, Request, reviewUnchanged
  <2>2. i \in DOMAIN documents /\ documents[i] \in DocumentItem
    BY <1>0, <2>1, FirstIsEntry
  <2>3. e \in DocumentItem /\ e.docId = documents[i].docId
    BY <2>1, <2>2, RulingItem
  <2>4. documents' = [documents EXCEPT ![i] = e] /\ ruled' \subseteq DocId \X Verdict
    BY <1>0, <1>10, <2>1 DEF RuleEntry
  <2>5. /\ r \in Request /\ r.op = "decideRow" /\ r.docId = req[h].docId /\ r.on \in Upload
        /\ r.verdict \in Verdict /\ req' = [req EXCEPT ![h] = r]
    BY <1>0, <1>10, <2>1 DEF Request, RuleEntry
  <2> HIDE DEF e, r
  <2>6. documents' \in Seq(DocumentItem) /\ Grown /\ RowsKept
    BY <1>0, <2>1, <2>2, <2>3, <2>4, EntryWritten DEF RowsKept
  <2>7. StillGood(r)
    BY <2>1, <2>5, <2>6, GrownKeepsEntries DEF StillGood
  <2>8. /\ history' \in [Upload -> HistoryRow \cup {NoRow}] /\ worker' \in [Worker -> WorkerState]
        /\ pending' \in [Upload -> Nat] /\ section' \in FormStatus
    BY <1>0, <2>1 DEF AnnualTypeInv, AnnualTypeOK, AnnualStoreTypeOK, UlbTypeOK
  <2>9. QED  BY <2>1, <2>4, <2>5, <2>6, <2>7, <2>8, StepOfRequest
<1>11. CASE RuleRow(h)
  <2>1. req[h].on \in Upload
    BY <1>0, <1>11 DEF RuleRow, RequestInv
  <2>2. pending' \in [Upload -> Nat]
    BY <1>0, <1>11, <2>1 DEF RuleRow, PendingAfter
  <2>3. UNCHANGED <<section, documents, ruled, history, filing, worker, cast>> /\ Finish(h)
    BY <1>11 DEF RuleRow, reviewUnchanged
  <2>4. QED  BY <1>0, <2>2, <2>3, NothingMoves, FinishTyped
<1>12. QED
  BY <1>2, <1>3, <1>4, <1>5, <1>6, <1>8, <1>9, <1>10, <1>11 DEF ReviewRequest

\* Every step of a section keeps the types.
LEMMA AnnualStepTyped == AnnualTypeInv /\ [AnnualNext]_annualVars => AnnualTypeInv'
<1> SUFFICES ASSUME AnnualTypeInv, [AnnualNext]_annualVars
             PROVE  AnnualTypeInv'
  OBVIOUS
<1>1. CASE AnnualNext
  BY <1>1, ConfirmTyped, UlbRequestTyped, RequestDiesTyped, OcrStepTyped, CooldownTyped, ReviewTyped
  DEF AnnualNext
<1>2. CASE UNCHANGED annualVars
  <2>1. UNCHANGED <<section, documents, history, pending, filing, req, worker, cast, ruled>>
    BY <1>2 DEF annualVars, ulbvars, annualStore
  <2>2. Grown /\ RowsKept
    BY <2>1 DEF Grown, RowsKept
  <2>3. FilingInv /\ RowInv /\ RequestInv /\ WorkerInv
    BY DEF AnnualTypeInv
  <2>4. FilingInv' /\ RowInv' /\ RequestInv' /\ WorkerInv'
    BY <2>1, <2>2, <2>3, FilingUnchanged, RowsStay, RequestsStay, WorkersStay
  <2>5. AnnualTypeOK'
    BY <2>1 DEF AnnualTypeInv, AnnualTypeOK, AnnualStoreTypeOK, UlbTypeOK
  <2>6. QED  BY <2>4, <2>5 DEF AnnualTypeInv
<1>3. QED  BY <1>1, <1>2

\* The types hold, and the links between uploads, rows, requests and runs: an upload has a row only
\* once confirmUpload has written its entry and its history, a retry, a removal or a decision finds
\* the entry it read, and only recorded uploads are run.
THEOREM AnnualTypeInvariant == AnnualSpec => []AnnualTypeInv
<1>1. AnnualInit => AnnualTypeInv
  BY AnnualInitTyped
<1>2. QED  BY <1>1, AnnualStepTyped, PTL DEF AnnualSpec

\* The section, its documents, the history, the requests and the runs are of their types, for any
\* documents, any number of uploads, requests and runs, and any scene.
THEOREM AnnualTypeCorrect == AnnualSpec => []AnnualTypeOK
<1>1. AnnualTypeInv => AnnualTypeOK
  BY DEF AnnualTypeInv
<1>2. QED  BY <1>1, AnnualTypeInvariant, PTL

-----------------------------------------------------------------------------
(* Annual accounts: what a run leaves behind                               *)

\* A row that is PROCESSING has a run that is not settled, and no row has more runs than the bound.
RunsInv ==
  \A u \in Upload : history[u] # NoRow =>
    /\ history[u].passes + history[u].fails + (IF history[u].processing = "PROCESSING" THEN 1 ELSE 0)
         <= history[u].runs
    /\ history[u].runs <= MaxRuns

\* A document that passed has an approval or its file a row with a pass; a run that has seen its file
\* pass is on record.
EvidenceInv ==
  /\ \A i \in DOMAIN documents : Passed(documents[i]) =>
       \/ <<documents[i].docId, "APPROVED">> \in ruled
       \/ /\ documents[i].upload # NoUpload /\ history[documents[i].upload] # NoRow
          /\ history[documents[i].upload].passes > 0
  /\ \A w \in Worker : worker[w].result = "PASS" => history[w[1]] # NoRow /\ history[w[1]].passes > 0

\* The runs that saw a file of d fail and have yet to read the strikes.
Claims(d) == {w \in Worker : worker[w].pc = "claimed" /\ history[w[1]].docId = d}

\* Each strike of d, and each failed run that may become one, has a failure of its own.
StrikesOf(d) ==
  LET reserved == Cardinality(Claims(d))
      failed == Cardinality(Failures(d))
  IN /\ reserved <= failed
     /\ \A i \in DOMAIN documents : documents[i].docId = d =>
          /\ documents[i].strikes + reserved <= failed
          /\ documents[i].strikes > 0 \/ documents[i].review = "RETURNED" => <<d, "RETURNED">> \in ruled
     /\ \A w \in Worker : worker[w].counts /\ history[w[1]].docId = d =>
          /\ worker[w].strikes + reserved <= failed
          /\ <<d, "RETURNED">> \in ruled

StrikesInv ==
  /\ \A w \in Worker : worker[w].counts => worker[w].pc = "apply"
  /\ \A d \in DocId : StrikesOf(d)

\* How a row moves: it is created, a run starts or gets its job, it is restarted by the request that
\* is to, or settled by the run that claims it.
RowMoves(u) ==
  \/ history'[u] = history[u]
  \/ /\ history[u] = NoRow
     /\ history'[u] \in HistoryRow
     /\ history'[u].processing = "PROCESSING"
     /\ history'[u].runs = 1 /\ history'[u].passes = 0 /\ history'[u].fails = 0
  \/ /\ history[u] # NoRow /\ history'[u] # NoRow
     /\ history'[u].docId = history[u].docId /\ history'[u].processing = history[u].processing
     /\ history'[u].runs = history[u].runs
     /\ history'[u].passes = history[u].passes /\ history'[u].fails = history[u].fails
  \/ /\ history[u] # NoRow /\ history'[u] # NoRow
     /\ history'[u] = Restarted(history[u])
     /\ \E h \in Handler : RetryHistory(h) /\ req[h].on = u
  \/ /\ history[u] # NoRow /\ history'[u] # NoRow
     /\ Claimable(u)
     /\ \E w \in Worker, result \in {"PASS", "FAIL", "ERROR"} :
          Claim(w, result) /\ w[1] = u /\ history'[u] = Settled(history[u], result)

\* Every step moves the rows so.
LEMMA RowsMove ==
  ASSUME AnnualTypeInv, AnnualNext
  PROVE  \A u \in Upload : RowMoves(u)
<1>0. /\ FilingInv /\ RowInv /\ RequestInv /\ WorkerInv
      /\ filing \in [Upload -> FilingState] /\ req \in [Handler -> Request]
      /\ history \in [Upload -> HistoryRow \cup {NoRow}] /\ worker \in [Worker -> WorkerState]
  BY DEF AnnualTypeInv, AnnualTypeOK, AnnualStoreTypeOK, UlbTypeOK
<1>1. ASSUME UNCHANGED history
      PROVE  \A u \in Upload : RowMoves(u)
  BY <1>1 DEF RowMoves
<1>2. ASSUME NEW u \in Upload, Confirm(u)
      PROVE  \A v \in Upload : RowMoves(v)
  <2>1. CASE CreateHistory(u)
    <3> DEFINE row == [docId |-> filing[u].docId, version |-> filing[u].version, processing |-> "PROCESSING",
                       started |-> FALSE, job |-> FALSE, runs |-> 1, passes |-> 0, fails |-> 0]
    <3>1. history[u] = NoRow /\ filing[u].version > 0 /\ filing[u] \in FilingState
      BY <1>0, <2>1 DEF CreateHistory, RowInv, FilingInv
    <3>2. row \in HistoryRow
      BY <3>1, UploadsAreCounted DEF HistoryRow, Processing, FilingState
    <3>3. row.processing = "PROCESSING" /\ row.runs = 1 /\ row.passes = 0 /\ row.fails = 0
      OBVIOUS
    <3>4. history' = [history EXCEPT ![u] = row] \/ history' = history
      BY <2>1 DEF CreateHistory
    <3> HIDE DEF row
    <3>5. \A v \in Upload : history'[v] = history[v] \/ (v = u /\ history'[v] = row)
      BY <1>0, <3>4
    <3>6. QED  BY <3>1, <3>2, <3>3, <3>5 DEF RowMoves
  <2>2. CASE ~CreateHistory(u)
    BY <1>1, <1>2, <2>2 DEF Confirm, CheckUpload, ReadVersion, TouchSection, WriteEntry, PushEntry,
                            EnqueueUpload, annualStore
  <2>3. QED  BY <2>1, <2>2
<1>3. ASSUME NEW h \in Handler, UlbRequest(h)
      PROVE  \A v \in Upload : RowMoves(v)
  <2>1. CASE RetryHistory(h)
    <3> DEFINE u == req[h].on
    <3>1. u \in Upload /\ history[u] # NoRow /\ history[u] \in HistoryRow
      BY <1>0, <2>1 DEF RetryHistory, RequestInv
    <3>2. Restarted(history[u]) # NoRow
      BY <3>1, RestartedRow, RowsAreRows
    <3>3. history' = [history EXCEPT ![u] = Restarted(history[u])]
      BY <2>1 DEF RetryHistory
    <3>4. \A v \in Upload : history'[v] = history[v] \/ (v = u /\ history'[v] = Restarted(history[v]))
      BY <1>0, <3>3
    <3>5. QED  BY <2>1, <3>1, <3>2, <3>4 DEF RowMoves
  <2>2. CASE ~RetryHistory(h)
    BY <1>1, <1>3, <2>2, Zenon DEF UlbRequest, BeginRetry, RetryEntry, EnqueueRetry, BeginRemove, BeginAsk, RemoveFile,
                            AskEntry, AskRow, BeginSubmit, SubmitSection, annualStore
  <2>3. QED  BY <2>1, <2>2
<1>4. ASSUME NEW w \in Worker, StartRun(w) \/ RecordJob(w)
      PROVE  \A v \in Upload : RowMoves(v)
  <2> DEFINE u == w[1]
  <2>1. u \in Upload /\ history[u] # NoRow /\ history[u] \in HistoryRow
    BY <1>0, <1>4, RestTyped DEF StartRun, RecordJob, WorkerInv
  <2>2. PICK row \in {[history[u] EXCEPT !.started = TRUE], [history[u] EXCEPT !.job = TRUE]} :
          history' = [history EXCEPT ![u] = row]
    BY <1>4 DEF StartRun, RecordJob
  <2>3. row # NoRow /\ row.docId = history[u].docId /\ row.processing = history[u].processing
        /\ row.runs = history[u].runs /\ row.passes = history[u].passes /\ row.fails = history[u].fails
    <3>1. /\ row \in HistoryRow /\ row.docId = history[u].docId /\ row.processing = history[u].processing
          /\ row.runs = history[u].runs /\ row.passes = history[u].passes /\ row.fails = history[u].fails
      BY <2>1, <2>2 DEF HistoryRow
    <3>2. QED  BY <3>1, RowsAreRows
  <2>4. \A v \in Upload : history'[v] = history[v] \/ (v = u /\ history'[v] = row)
    BY <1>0, <2>2
  <2>5. QED  BY <2>1, <2>3, <2>4 DEF RowMoves
<1>5. ASSUME NEW w \in Worker, NEW result \in {"PASS", "FAIL", "ERROR"}, Claim(w, result)
      PROVE  \A v \in Upload : RowMoves(v)
  <2> DEFINE u == w[1]
  <2>1. u \in Upload /\ history[u] # NoRow /\ history[u] \in HistoryRow
    BY <1>0, <1>5, RestTyped DEF Claim, WorkerInv
  <2>2. CASE Claimable(u)
    <3>1. history' = [history EXCEPT ![u] = Settled(history[u], result)]
      BY <1>5, <2>2 DEF Claim
    <3>2. Settled(history[u], result) # NoRow
      BY <2>1, SettledRow, RowsAreRows
    <3>3. \A v \in Upload : history'[v] = history[v] \/ (v = u /\ history'[v] = Settled(history[v], result))
      BY <1>0, <3>1
    <3>4. QED  BY <1>5, <2>1, <2>2, <3>2, <3>3 DEF RowMoves
  <2>3. CASE ~Claimable(u)
    BY <1>1, <1>5, <2>3 DEF Claim
  <2>4. QED  BY <2>2, <2>3
<1>6. ASSUME OcrStep
      PROVE  \A v \in Upload : RowMoves(v)
  <2>1. UNCHANGED history \/ \E w \in Worker : \/ StartRun(w) \/ RecordJob(w)
                                               \/ \E result \in {"PASS", "FAIL", "ERROR"} : Claim(w, result)
    BY <1>6, ZenonT(40) DEF OcrStep, CronTick, StillRunning, ReadStrikes, ApplyResult, WorkerFails
  <2>2. QED  BY <1>1, <1>4, <1>5, <2>1
<1>7. ASSUME RequestDies \/ CooldownEnds \/ \E h \in Handler : ReviewRequest(h)
      PROVE  UNCHANGED history
  BY <1>7, Zenon DEF RequestDies, CooldownEnds, ReviewRequest, BeginDocument, BeginRuling, BeginSection, DecideDocument,
              DecideSection, BeginUndo, UndoApproval, RuleEntry, RuleRow, reviewUnchanged, annualStore
<1>8. QED
  BY <1>1, <1>2, <1>3, <1>6, <1>7 DEF AnnualNext

\* Rows are settled once per run, and restarted within the bound.
LEMMA RunsStep ==
  ASSUME AnnualTypeInv, RunsInv, AnnualNext
  PROVE  RunsInv'
<1>0. /\ RequestInv /\ req \in [Handler -> Request] /\ history \in [Upload -> HistoryRow \cup {NoRow}]
      /\ NoRequest.op = "none" /\ MaxRuns \in Nat /\ MaxRuns > 0
  BY NoRequestTyped, CastAssumption DEF AnnualTypeInv, AnnualTypeOK, AnnualStoreTypeOK, UlbTypeOK
<1>1. \A u \in Upload : RowMoves(u)
  BY RowsMove
<1>2. ASSUME NEW u \in Upload, history'[u] # NoRow
      PROVE  /\ history'[u].passes + history'[u].fails
                  + (IF history'[u].processing = "PROCESSING" THEN 1 ELSE 0) <= history'[u].runs
             /\ history'[u].runs <= MaxRuns
  <2>1. RowMoves(u)
    BY <1>1
  <2>2. CASE history[u] = NoRow
    BY <1>0, <1>2, <2>1, <2>2 DEF RowMoves
  <2>3. CASE history[u] # NoRow
    <3>1. /\ history[u] \in HistoryRow
          /\ history[u].runs \in Nat /\ history[u].passes \in Nat /\ history[u].fails \in Nat
      BY <1>0, <2>3 DEF HistoryRow
    <3>2. /\ history[u].passes + history[u].fails + (IF history[u].processing = "PROCESSING" THEN 1 ELSE 0)
               <= history[u].runs
          /\ history[u].runs <= MaxRuns
      BY <2>3 DEF RunsInv
    <3>3. ASSUME history'[u] = Restarted(history[u]), NEW h \in Handler, RetryHistory(h), req[h].on = u
          PROVE  /\ history'[u].passes + history'[u].fails
                      + (IF history'[u].processing = "PROCESSING" THEN 1 ELSE 0) <= history'[u].runs
                 /\ history'[u].runs <= MaxRuns
      <4>1. history[u].runs < MaxRuns
        BY <3>3 DEF RetryHistory
      <4>2. /\ history'[u].processing = "PROCESSING" /\ history'[u].runs = history[u].runs + 1
            /\ history'[u].passes = history[u].passes /\ history'[u].fails = history[u].fails
        BY <3>1, <3>3, RestartedRow
      <4>3. QED  BY <1>0, <3>1, <3>2, <4>1, <4>2
    <3>4. ASSUME NEW result, history'[u] = Settled(history[u], result), Claimable(u)
          PROVE  /\ history'[u].passes + history'[u].fails
                      + (IF history'[u].processing = "PROCESSING" THEN 1 ELSE 0) <= history'[u].runs
                 /\ history'[u].runs <= MaxRuns
      <4>1. /\ history'[u].processing # "PROCESSING" /\ history'[u].runs = history[u].runs
            /\ \/ history'[u].passes = history[u].passes + 1 /\ history'[u].fails = history[u].fails
               \/ history'[u].passes = history[u].passes /\ history'[u].fails = history[u].fails + 1
        BY <3>1, <3>4, SettledRow
      <4>2. history[u].processing = "PROCESSING"
        BY <3>4 DEF Claimable
      <4>3. QED  BY <3>1, <3>2, <4>1, <4>2
    <3>5. QED
      BY <2>1, <2>3, <3>2, <3>3, <3>4 DEF RowMoves
  <2>4. QED  BY <2>2, <2>3
<1>3. QED  BY <1>2 DEF RunsInv

\* The processor and the cron settle a run once, whichever of them, and however many of them, see its
\* end: a row is settled at most as often as it was put to PROCESSING, and that stays within the bound.
THEOREM RunsSettledOnce == AnnualSpec => []SettledOncePerRun
<1>1. AnnualInit => RunsInv
  BY NoRequestTyped DEF AnnualInit, AnnualStoreInit, UlbInit, RunsInv
<1>2. AnnualTypeInv /\ RunsInv /\ [AnnualNext]_annualVars => RunsInv'
  <2> SUFFICES ASSUME AnnualTypeInv, RunsInv, [AnnualNext]_annualVars
               PROVE  RunsInv'
    OBVIOUS
  <2>1. CASE UNCHANGED annualVars
    BY <2>1 DEF RunsInv, annualVars, ulbvars, annualStore
  <2>2. QED  BY <2>1, RunsStep
<1>3. AnnualTypeInv /\ RunsInv => SettledOncePerRun
  <2> SUFFICES ASSUME AnnualTypeInv, RunsInv, NEW u \in Upload, history[u] # NoRow
               PROVE  history[u].passes + history[u].fails <= history[u].runs
    BY DEF SettledOncePerRun
  <2>1. history[u] \in HistoryRow
    BY DEF AnnualTypeInv, AnnualTypeOK, AnnualStoreTypeOK
  <2>2. history[u].passes \in Nat /\ history[u].fails \in Nat /\ history[u].runs \in Nat
    BY <2>1 DEF HistoryRow
  <2>3. QED  BY <2>2 DEF RunsInv
<1>4. QED
  BY <1>1, <1>2, <1>3, AnnualTypeInvariant, PTL DEF AnnualSpec

-----------------------------------------------------------------------------
(* Annual accounts: what a pass and a strike rest on                       *)

\* A row keeps its document, and its passes and failures never become fewer.
LEMMA RowsGrow ==
  ASSUME AnnualTypeInv, AnnualNext, NEW u \in Upload, history[u] # NoRow
  PROVE  /\ history[u] \in HistoryRow /\ history'[u] # NoRow /\ history'[u].docId = history[u].docId
         /\ history'[u].passes \in Nat /\ history'[u].passes >= history[u].passes
         /\ history'[u].fails \in Nat /\ history'[u].fails >= history[u].fails
<1>1. /\ history[u] \in HistoryRow
      /\ history[u].passes \in Nat /\ history[u].fails \in Nat
  BY DEF AnnualTypeInv, AnnualTypeOK, AnnualStoreTypeOK, HistoryRow
<1>2. RowMoves(u)
  BY RowsMove
<1>3. CASE history'[u] = Restarted(history[u])
  BY <1>1, <1>3, RestartedRow, RowsAreRows
<1>4. ASSUME NEW result, history'[u] = Settled(history[u], result)
      PROVE  /\ history'[u] # NoRow /\ history'[u].docId = history[u].docId
             /\ history'[u].passes \in Nat /\ history'[u].passes >= history[u].passes
             /\ history'[u].fails \in Nat /\ history'[u].fails >= history[u].fails
  <2>1. history'[u] \in HistoryRow /\ history'[u].docId = history[u].docId
    BY <1>1, <1>4, SettledRow
  <2>2. \/ history'[u].passes = history[u].passes + 1 /\ history'[u].fails = history[u].fails
        \/ history'[u].passes = history[u].passes /\ history'[u].fails = history[u].fails + 1
    BY <1>1, <1>4, SettledRow
  <2>3. QED  BY <1>1, <2>1, <2>2, RowsAreRows
<1>5. QED
  BY <1>1, <1>2, <1>3, <1>4 DEF RowMoves

\* The entry i keeps what the OCR and the ULB have put into it.
SameFile(i) ==
  /\ documents'[i].upload = documents[i].upload /\ documents'[i].processing = documents[i].processing
  /\ documents'[i].validation = documents[i].validation /\ documents'[i].strikes = documents[i].strikes

\* It is set back to before the OCR, or to hold no file.
SetBack(i, processing) ==
  /\ documents'[i].processing = processing /\ documents'[i].validation = "NONE"
  /\ documents'[i].requested = FALSE
  /\ documents'[i].strikes = documents[i].strikes /\ documents'[i].review = documents[i].review

\* How an entry moves: it is pushed, it gets a file, is retried, loses its file, a review of it is
\* asked for, only State, clock or nobody write to it, or a result or the ADMIN's decision comes.
EntryMoves(i) ==
  \/ /\ i \notin DOMAIN documents /\ i = Len(documents) + 1
     /\ \E u \in Upload : PushEntry(u) /\ documents'[i].docId = filing[u].docId /\ documents'[i].upload = u
     /\ documents'[i].processing = "PROCESSING" /\ documents'[i].validation = "NONE"
     /\ documents'[i].requested = FALSE
     /\ documents'[i].strikes = 0 /\ documents'[i].review = NoVerdict
  \/ /\ i \in DOMAIN documents /\ documents'[i].docId = documents[i].docId
     /\ \/ \E u \in Upload : /\ WriteEntry(u) /\ documents[i].docId = filing[u].docId
                             /\ documents'[i].upload = u /\ SetBack(i, "PROCESSING")
        \/ \E h \in Handler : /\ RetryEntry(h) /\ documents'[i].upload = documents[i].upload
                              /\ SetBack(i, "PROCESSING")
        \/ \E h \in Handler : /\ RemoveFile(h) /\ documents[i].docId = req[h].docId
                              /\ documents'[i].upload = NoUpload /\ SetBack(i, "NOT_STARTED")
        \/ \E h \in Handler : /\ AskEntry(h) /\ documents[i].docId = req[h].docId
                              /\ documents[i].upload # NoUpload /\ SameFile(i)
                              /\ documents'[i].requested = TRUE /\ documents'[i].review = NoVerdict
        \/ /\ SameFile(i) /\ documents'[i].requested = documents[i].requested
           /\ documents'[i].review = documents[i].review
        \/ \E w \in Worker :
             /\ ApplyResult(w) /\ documents[i].upload = w[1] /\ documents[i].docId = history[w[1]].docId
             /\ documents'[i] = WithResult(documents[i], worker[w])
        \/ \E h \in Handler :
             /\ RuleEntry(h) /\ documents[i].docId = req[h].docId
             /\ documents'[i] = Ruling(documents[i], req[h].verdict)

\* One entry is written, the others stay as they are.
LEMMA OneEntryMoves ==
  ASSUME documents \in Seq(DocumentItem), NEW k \in DOMAIN documents, NEW e \in DocumentItem,
         documents' = [documents EXCEPT ![k] = e], e.docId = documents[k].docId,
         documents'[k] = e => EntryMoves(k)
  PROVE  \A i \in DOMAIN documents' : EntryMoves(i)
<1>1. /\ DOMAIN documents' = DOMAIN documents
      /\ \A i \in DOMAIN documents : documents'[i] = IF i = k THEN e ELSE documents[i]
  BY EntryWritten
<1>2. ASSUME NEW i \in DOMAIN documents, i # k
      PROVE  EntryMoves(i)
  <2>1. documents'[i] = documents[i]
    BY <1>1, <1>2
  <2>2. QED  BY <1>2, <2>1 DEF EntryMoves, SameFile
<1>3. QED  BY <1>1, <1>2

LEMMA EntriesMove ==
  ASSUME AnnualTypeInv, AnnualNext
  PROVE  \A i \in DOMAIN documents' : EntryMoves(i)
<1>0. /\ FilingInv /\ RequestInv /\ filing \in [Upload -> FilingState] /\ req \in [Handler -> Request]
      /\ documents \in Seq(DocumentItem) /\ DOMAIN documents = 1..Len(documents)
      /\ \A i \in DOMAIN documents : documents[i] \in DocumentItem
  BY DEF AnnualTypeInv, AnnualTypeOK, AnnualStoreTypeOK, UlbTypeOK
<1>1. ASSUME UNCHANGED documents
      PROVE  \A i \in DOMAIN documents' : EntryMoves(i)
  BY <1>1 DEF EntryMoves, SameFile
<1>2. ASSUME NEW u \in Upload, Confirm(u)
      PROVE  \A i \in DOMAIN documents' : EntryMoves(i)
  <2> DEFINE d == filing[u].docId
             k == First(d)
  <2>1. CASE WriteEntry(u)
    <3>1. ASSUME HasEntry(d), documents' = [documents EXCEPT ![k] = WithUpload(@, u)]
          PROVE  \A i \in DOMAIN documents' : EntryMoves(i)
      <4> DEFINE e == WithUpload(documents[k], u)
      <4>1. k \in DOMAIN documents /\ documents[k] \in DocumentItem /\ documents[k].docId = d
        BY <1>0, <3>1, FirstIsEntry
      <4>2. /\ e \in DocumentItem /\ e.docId = documents[k].docId /\ e.upload = u
            /\ e.processing = "PROCESSING" /\ e.validation = "NONE" /\ e.requested = FALSE
            /\ e.strikes = documents[k].strikes /\ e.review = documents[k].review
        BY <4>1 DEF WithUpload, DocumentItem, Processing, Validation
      <4>3. documents' = [documents EXCEPT ![k] = e]
        BY <3>1
      <4> HIDE DEF e, k
      <4>4. documents'[k] = e => EntryMoves(k)
        BY <2>1, <4>1, <4>2 DEF EntryMoves, SetBack
      <4>5. QED  BY <1>0, <4>1, <4>2, <4>3, <4>4, OneEntryMoves
    <3>2. QED  BY <1>1, <2>1, <3>1 DEF WriteEntry
  <2>2. CASE PushEntry(u)
    <3> DEFINE e == [docId |-> d, upload |-> u, processing |-> "PROCESSING",
                     validation |-> "NONE", requested |-> FALSE, review |-> NoVerdict, strikes |-> 0,
                     blocked |-> "no", decision |-> Undecided]
    <3>1. documents' = Append(documents, e)
      BY <2>2 DEF PushEntry
    <3>2. /\ e.docId = d /\ e.upload = u /\ e.processing = "PROCESSING" /\ e.validation = "NONE"
          /\ e.requested = FALSE /\ e.strikes = 0 /\ e.review = NoVerdict
      OBVIOUS
    <3> HIDE DEF e
    <3>3. /\ DOMAIN documents' = 1..(Len(documents) + 1) /\ documents'[Len(documents) + 1] = e
          /\ \A i \in 1..Len(documents) : documents'[i] = documents[i]
      <4>1. Len(documents) \in Nat
        BY <1>0
      <4>2. QED  BY <1>0, <3>1, <4>1
    <3>4. EntryMoves(Len(documents) + 1)
      BY <1>0, <2>2, <3>2, <3>3 DEF EntryMoves
    <3>5. \A i \in 1..Len(documents) : EntryMoves(i)
      BY <1>0, <3>3 DEF EntryMoves, SameFile
    <3>6. QED  BY <1>0, <3>3, <3>4, <3>5
  <2>3. CASE ~WriteEntry(u) /\ ~PushEntry(u)
    BY <1>1, <1>2, <2>3 DEF Confirm, CheckUpload, ReadVersion, TouchSection, CreateHistory,
                            EnqueueUpload, annualStore
  <2>4. QED  BY <2>1, <2>2, <2>3
<1>3. ASSUME NEW h \in Handler, UlbRequest(h)
      PROVE  \A i \in DOMAIN documents' : EntryMoves(i)
  <2> DEFINE k == First(req[h].docId)
  <2>1. CASE RetryEntry(h)
    <3>1. ASSUME documents' = [documents EXCEPT ![k] = WithUpload(@, @.upload)]
          PROVE  \A i \in DOMAIN documents' : EntryMoves(i)
      <4> DEFINE e == WithUpload(documents[k], documents[k].upload)
      <4>1. k \in DOMAIN documents /\ documents[k] \in DocumentItem
        BY <1>0, <2>1, FirstIsEntry DEF RetryEntry, RequestInv
      <4>2. /\ e \in DocumentItem /\ e.docId = documents[k].docId /\ e.upload = documents[k].upload
            /\ e.processing = "PROCESSING" /\ e.validation = "NONE" /\ e.requested = FALSE
            /\ e.strikes = documents[k].strikes /\ e.review = documents[k].review
        BY <4>1 DEF WithUpload, DocumentItem, Processing, Validation
      <4>3. documents' = [documents EXCEPT ![k] = e]
        BY <3>1
      <4> HIDE DEF e, k
      <4>4. documents'[k] = e => EntryMoves(k)
        BY <2>1, <4>1, <4>2 DEF EntryMoves, SetBack
      <4>5. QED  BY <1>0, <4>1, <4>2, <4>3, <4>4, OneEntryMoves
    <3>2. QED  BY <1>1, <2>1, <3>1 DEF RetryEntry
  <2>2. CASE RemoveFile(h)
    <3> DEFINE e == [documents[k] EXCEPT !.upload = NoUpload, !.processing = "NOT_STARTED",
                                         !.validation = "NONE", !.requested = FALSE]
    <3>1. k \in DOMAIN documents /\ documents[k] \in DocumentItem /\ documents[k].docId = req[h].docId
      BY <1>0, <2>2, FirstIsEntry DEF RemoveFile, RequestInv
    <3>2. /\ e \in DocumentItem /\ e.docId = documents[k].docId /\ e.upload = NoUpload
          /\ e.processing = "NOT_STARTED" /\ e.validation = "NONE" /\ e.requested = FALSE
          /\ e.strikes = documents[k].strikes /\ e.review = documents[k].review
      BY <3>1 DEF DocumentItem, Processing, Validation
    <3>3. documents' = [documents EXCEPT ![k] = e]
      BY <2>2 DEF RemoveFile
    <3> HIDE DEF e, k
    <3>4. documents'[k] = e => EntryMoves(k)
      BY <2>2, <3>1, <3>2 DEF EntryMoves, SetBack
    <3>5. QED  BY <1>0, <3>1, <3>2, <3>3, <3>4, OneEntryMoves
  <2>3. CASE AskEntry(h)
    <3>1. ASSUME documents' = [documents EXCEPT ![k].requested = TRUE, ![k].review = NoVerdict],
                 documents[k].upload # NoUpload
          PROVE  \A i \in DOMAIN documents' : EntryMoves(i)
      <4> DEFINE e == [documents[k] EXCEPT !.requested = TRUE, !.review = NoVerdict]
      <4>1. k \in DOMAIN documents /\ documents[k] \in DocumentItem /\ documents[k].docId = req[h].docId
        BY <1>0, <2>3, FirstIsEntry DEF AskEntry, RequestInv
      <4>2. /\ e \in DocumentItem /\ e.docId = documents[k].docId
            /\ e.processing = documents[k].processing /\ e.upload = documents[k].upload
            /\ e.validation = documents[k].validation /\ e.strikes = documents[k].strikes
            /\ e.requested = TRUE /\ e.review = NoVerdict
        BY <4>1 DEF DocumentItem
      <4>3. documents' = [documents EXCEPT ![k] = e]
        BY <1>0, <3>1, <4>1
      <4> HIDE DEF e, k
      <4>4. documents'[k] = e => EntryMoves(k)
        BY <2>3, <3>1, <4>1, <4>2 DEF EntryMoves, SameFile
      <4>5. QED  BY <1>0, <4>1, <4>2, <4>3, <4>4, OneEntryMoves
    <3>2. QED  BY <1>1, <2>3, <3>1 DEF AskEntry
  <2>4. CASE ~RetryEntry(h) /\ ~RemoveFile(h) /\ ~AskEntry(h)
    BY <1>1, <1>3, <2>4, Zenon DEF UlbRequest, BeginRetry, RetryHistory, EnqueueRetry, BeginRemove, BeginAsk,
                            AskRow, BeginSubmit, SubmitSection, annualStore
  <2>5. QED  BY <2>1, <2>2, <2>3, <2>4
<1>4. ASSUME OcrStep
      PROVE  \A i \in DOMAIN documents' : EntryMoves(i)
  <2>1. ASSUME NEW w \in Worker, ApplyResult(w)
        PROVE  \A i \in DOMAIN documents' : EntryMoves(i)
    <3>1. documents' = [i \in DOMAIN documents |->
            IF i \in EntriesOf(w[1]) THEN WithResult(documents[i], worker[w]) ELSE documents[i]]
      BY <2>1 DEF ApplyResult
    <3>2. ASSUME NEW i \in EntriesOf(w[1])
          PROVE  /\ i \in DOMAIN documents /\ documents[i].upload = w[1]
                 /\ documents[i].docId = history[w[1]].docId
      BY DEF EntriesOf, Entries
    <3>3. ASSUME NEW i \in EntriesOf(w[1])
          PROVE  WithResult(documents[i], worker[w]).docId = documents[i].docId
      <4>1. documents[i] \in DocumentItem /\ worker[w] \in WorkerState
        BY <1>0, <3>2 DEF AnnualTypeInv, AnnualTypeOK, UlbTypeOK
      <4>2. QED  BY <4>1, ItemWithResult
    <3>4. ASSUME NEW i \in EntriesOf(w[1])
          PROVE  EntryMoves(i)
      BY <2>1, <3>1, <3>2, <3>3 DEF EntryMoves
    <3>5. ASSUME NEW i \in DOMAIN documents, i \notin EntriesOf(w[1])
          PROVE  EntryMoves(i)
      BY <3>1, <3>5 DEF EntryMoves, SameFile
    <3>6. QED  BY <3>1, <3>4, <3>5
  <2>2. UNCHANGED documents \/ \E w \in Worker : ApplyResult(w)
    BY <1>4, Zenon DEF OcrStep, CronTick, StartRun, RecordJob, StillRunning, Claim, ReadStrikes, WorkerFails
  <2>3. QED  BY <1>1, <2>1, <2>2
<1>5. ASSUME CooldownEnds
      PROVE  \A i \in DOMAIN documents' : EntryMoves(i)
  <2>1. PICK k \in DOMAIN documents : documents' = [documents EXCEPT ![k].blocked = "over"]
    BY <1>5 DEF CooldownEnds
  <2> DEFINE e == [documents[k] EXCEPT !.blocked = "over"]
  <2>2. documents[k] \in DocumentItem /\ "over" \in Cooldown
    BY <1>0 DEF Cooldown
  <2>3. /\ e \in DocumentItem /\ e.docId = documents[k].docId
        /\ e.processing = documents[k].processing /\ e.upload = documents[k].upload
        /\ e.validation = documents[k].validation /\ e.requested = documents[k].requested
        /\ e.strikes = documents[k].strikes /\ e.review = documents[k].review
    BY <2>2 DEF DocumentItem
  <2>4. documents' = [documents EXCEPT ![k] = e]
    BY <2>1
  <2> HIDE DEF e
  <2>5. documents'[k] = e => EntryMoves(k)
    BY <2>3 DEF EntryMoves, SameFile
  <2>6. QED  BY <1>0, <2>3, <2>4, <2>5, OneEntryMoves
<1>6. ASSUME DOMAIN documents' = DOMAIN documents,
             \A i \in DOMAIN documents : \E decision :
               documents'[i] \in {documents[i], [documents[i] EXCEPT !.decision = decision]}
      PROVE  \A i \in DOMAIN documents' : EntryMoves(i)
  <2>1. ASSUME NEW i \in DOMAIN documents
        PROVE  EntryMoves(i)
    <3>1. documents[i] \in DocumentItem
      BY <1>0
    <3>2. /\ documents'[i].docId = documents[i].docId /\ documents'[i].processing = documents[i].processing
          /\ documents'[i].upload = documents[i].upload /\ documents'[i].strikes = documents[i].strikes
          /\ documents'[i].validation = documents[i].validation
          /\ documents'[i].requested = documents[i].requested /\ documents'[i].review = documents[i].review
      BY <1>6, <3>1 DEF DocumentItem
    <3>3. QED  BY <3>2 DEF EntryMoves, SameFile
  <2>2. QED  BY <1>6, <2>1
<1>7. ASSUME NEW h \in Handler, ReviewRequest(h)
      PROVE  \A i \in DOMAIN documents' : EntryMoves(i)
  <2> DEFINE k == First(req[h].docId)
  <2>1. CASE DecideDocument(h)
    <3>1. PICK decision : documents' = [documents EXCEPT ![k].decision = decision]
      BY <2>1 DEF DecideDocument
    <3>2. QED  BY <1>0, <1>6, <3>1
  <2>2. CASE DecideSection(h)
    BY <1>6, <2>2 DEF DecideSection
  <2>3. CASE UndoApproval(h)
    BY <1>6, <2>3 DEF UndoApproval
  <2>4. CASE RuleEntry(h)
    <3> DEFINE e == Ruling(documents[k], req[h].verdict)
    <3>1. /\ k \in DOMAIN documents /\ documents[k] \in DocumentItem /\ documents[k].docId = req[h].docId
          /\ req[h].verdict \in Verdict
      BY <1>0, <2>4, FirstIsEntry DEF RuleEntry, RequestInv
    <3>2. documents' = [documents EXCEPT ![k] = e] /\ e \in DocumentItem /\ e.docId = documents[k].docId
      BY <2>4, <3>1, RulingItem DEF RuleEntry
    <3>3. /\ DOMAIN documents' = DOMAIN documents
          /\ \A i \in DOMAIN documents : documents'[i] = IF i = k THEN e ELSE documents[i]
      BY <1>0, <3>1, <3>2, EntryWritten
    <3> HIDE DEF k
    <3>4. EntryMoves(k)
      BY <2>4, <3>1, <3>2, <3>3 DEF EntryMoves
    <3>5. QED  BY <1>0, <3>1, <3>2, <3>4, OneEntryMoves
  <2>5. CASE ~DecideDocument(h) /\ ~DecideSection(h) /\ ~UndoApproval(h) /\ ~RuleEntry(h)
    BY <1>1, <1>7, <2>5 DEF ReviewRequest, BeginDocument, BeginRuling, BeginSection, BeginUndo, RuleRow, annualStore
  <2>6. QED  BY <2>1, <2>2, <2>3, <2>4, <2>5
<1>8. RequestDies => UNCHANGED documents
  BY DEF RequestDies, annualStore
<1>9. QED
  BY <1>1, <1>2, <1>3, <1>4, <1>5, <1>7, <1>8 DEF AnnualNext

\* How a run moves: it is queued or goes on to its next poll, it is over or starts again, it claims
\* the row, or it reads the strikes.
WorkerMoves(w) ==
  \/ worker'[w] = worker[w]
  \/ /\ worker[w].pc \in {"unused", "waiting", "active"} /\ worker'[w].pc \notin {"claimed", "apply"}
     /\ worker'[w].result = worker[w].result /\ worker'[w].counts = worker[w].counts
  \/ /\ worker'[w].pc \notin {"claimed", "apply"}
     /\ worker'[w].result = "NONE" /\ worker'[w].counts = FALSE
  \/ \E result \in {"PASS", "FAIL", "ERROR"} :
       /\ Claim(w, result) /\ Claimable(w[1]) /\ worker[w].pc = "polling"
       /\ worker'[w].pc = IF result = "PASS" THEN "apply" ELSE "claimed"
       /\ worker'[w].result = result /\ worker'[w].counts = worker[w].counts
  \/ /\ ReadStrikes(w) /\ worker[w].pc = "claimed" /\ worker'[w].pc = "apply"
     /\ worker'[w].result = worker[w].result
     /\ \/ worker'[w].counts = worker[w].counts
        \/ /\ worker'[w].counts = TRUE
           /\ \E i \in EntriesOf(w[1]) :
                Counts(documents[i]) /\ worker'[w].strikes = NextStrikes(documents[i])

\* A run is written; the others stay.
LEMMA OneRunMoves ==
  ASSUME worker \in [Worker -> WorkerState], NEW w \in Worker, NEW s \in WorkerState,
         worker' = [worker EXCEPT ![w] = s],
         \/ /\ worker[w].pc \in {"unused", "waiting", "active"} /\ s.pc \notin {"claimed", "apply"}
            /\ s.result = worker[w].result /\ s.counts = worker[w].counts
         \/ s.pc \notin {"claimed", "apply"} /\ s.result = "NONE" /\ s.counts = FALSE
  PROVE  \A x \in Worker : WorkerMoves(x)
BY DEF WorkerMoves

LEMMA WorkersMove ==
  ASSUME AnnualTypeInv, AnnualNext
  PROVE  \A w \in Worker : WorkerMoves(w)
<1>0. /\ worker \in [Worker -> WorkerState] /\ MaxRuns \in Nat /\ FilingInv /\ RequestInv
      /\ documents \in Seq(DocumentItem)
  BY CastAssumption DEF AnnualTypeInv, AnnualTypeOK, AnnualStoreTypeOK, UlbTypeOK
<1>1. ASSUME UNCHANGED worker
      PROVE  \A w \in Worker : WorkerMoves(w)
  BY <1>1 DEF WorkerMoves
<1>2. ASSUME NEW w \in Worker, NEW pc \in {"waiting", "active", "polling", "ended"}, WorkerPc(w, pc),
             worker[w].pc \in {"unused", "waiting", "active"}
      PROVE  \A x \in Worker : WorkerMoves(x)
  <2> DEFINE s == [worker[w] EXCEPT !.pc = pc]
  <2>1. /\ s \in WorkerState /\ s.pc \notin {"claimed", "apply"}
        /\ s.result = worker[w].result /\ s.counts = worker[w].counts
    BY <1>0 DEF WorkerState
  <2>2. worker' = [worker EXCEPT ![w] = s]
    BY <1>2 DEF WorkerPc
  <2> HIDE DEF s
  <2>3. QED  BY <1>0, <1>2, <2>1, <2>2, OneRunMoves
<1>3. ASSUME NEW w \in Worker, NEW s \in {Rest(w), [Unused EXCEPT !.pc = "waiting"]},
             worker' = [worker EXCEPT ![w] = s]
      PROVE  \A x \in Worker : WorkerMoves(x)
  <2>1. s \in WorkerState /\ s.pc \notin {"claimed", "apply"} /\ s.result = "NONE" /\ s.counts = FALSE
    <3>1. s \in {Unused, [Unused EXCEPT !.pc = "ended"], [Unused EXCEPT !.pc = "waiting"]}
      BY DEF Rest
    <3>2. s \in WorkerState
      BY RestTyped
    <3>3. QED  BY <3>1, <3>2 DEF Unused
  <2>2. QED  BY <1>0, <1>3, <2>1, OneRunMoves
<1>4. ASSUME NEW u \in Upload, Enqueue(u)
      PROVE  \A x \in Worker : WorkerMoves(x)
  <2>1. PICK n \in 1..MaxRuns : worker[<<u, n>>].pc = "unused" /\ WorkerPc(<<u, n>>, "waiting")
    BY <1>4 DEF Enqueue, WorkerPc
  <2>2. <<u, n>> \in Worker
    BY <1>0 DEF Worker
  <2>3. QED  BY <1>2, <2>1, <2>2
<1>5. ASSUME OcrStep
      PROVE  \A x \in Worker : WorkerMoves(x)
  <2>1. ASSUME NEW u \in Upload, CronTick(u)
        PROVE  \A x \in Worker : WorkerMoves(x)
    <3>1. <<u, 0>> \in Worker
      BY <1>0 DEF Worker
    <3>2. QED  BY <1>2, <2>1, <3>1 DEF CronTick
  <2>2. ASSUME NEW w \in Worker, StartRun(w) \/ RecordJob(w)
        PROVE  \A x \in Worker : WorkerMoves(x)
    BY <1>2, <2>2 DEF StartRun, RecordJob
  <2>3. ASSUME NEW w \in Worker, StillRunning(w) \/ WorkerFails(w) \/ ApplyResult(w)
        PROVE  \A x \in Worker : WorkerMoves(x)
    BY <1>3, <2>3 DEF StillRunning, WorkerFails, ApplyResult
  <2>4. ASSUME NEW w \in Worker, NEW result \in {"PASS", "FAIL", "ERROR"}, Claim(w, result)
        PROVE  \A x \in Worker : WorkerMoves(x)
    <3>1. CASE Claimable(w[1])
      <4> DEFINE s == [worker[w] EXCEPT !.pc = IF result = "PASS" THEN "apply" ELSE "claimed", !.result = result]
      <4>1. worker' = [worker EXCEPT ![w] = s]
        BY <1>0, <2>4, <3>1 DEF Claim
      <4>2. /\ s.pc = IF result = "PASS" THEN "apply" ELSE "claimed"
            /\ s.result = result /\ s.counts = worker[w].counts
        BY <1>0 DEF WorkerState
      <4> HIDE DEF s
      <4>3. worker[w].pc = "polling"
        BY <2>4 DEF Claim
      <4>4. QED  BY <1>0, <2>4, <3>1, <4>1, <4>2, <4>3 DEF WorkerMoves
    <3>2. CASE ~Claimable(w[1])
      BY <1>3, <2>4, <3>2 DEF Claim
    <3>3. QED  BY <3>1, <3>2
  <2>5. ASSUME NEW w \in Worker, ReadStrikes(w)
        PROVE  \A x \in Worker : WorkerMoves(x)
    <3>1. worker[w].pc = "claimed"
      BY <2>5 DEF ReadStrikes
    <3>2. ASSUME NEW i \in EntriesOf(w[1]), Counts(documents[i]),
                 worker' = [worker EXCEPT ![w] =
                   [@ EXCEPT !.pc = "apply", !.counts = TRUE, !.fresh = Fresh(documents[i]),
                             !.strikes = NextStrikes(documents[i])]]
          PROVE  \A x \in Worker : WorkerMoves(x)
      <4> DEFINE s == [worker[w] EXCEPT !.pc = "apply", !.counts = TRUE, !.fresh = Fresh(documents[i]),
                                        !.strikes = NextStrikes(documents[i])]
      <4>1. /\ s.pc = "apply" /\ s.counts = TRUE /\ s.strikes = NextStrikes(documents[i])
            /\ s.result = worker[w].result /\ worker' = [worker EXCEPT ![w] = s]
        BY <1>0, <3>2 DEF WorkerState
      <4> HIDE DEF s
      <4>2. QED  BY <1>0, <2>5, <3>1, <3>2, <4>1 DEF WorkerMoves
    <3>3. CASE WorkerPc(w, "apply")
      <4> DEFINE s == [worker[w] EXCEPT !.pc = "apply"]
      <4>1. /\ s.pc = "apply" /\ s.counts = worker[w].counts
            /\ s.result = worker[w].result /\ worker' = [worker EXCEPT ![w] = s]
        BY <1>0, <3>3 DEF WorkerState, WorkerPc
      <4> HIDE DEF s
      <4>2. QED  BY <1>0, <2>5, <3>1, <4>1 DEF WorkerMoves
    <3>4. QED  BY <2>5, <3>2, <3>3 DEF ReadStrikes
  <2>6. QED  BY <1>5, <2>1, <2>2, <2>3, <2>4, <2>5 DEF OcrStep
<1>6. ASSUME NEW u \in Upload, Confirm(u)
      PROVE  \A x \in Worker : WorkerMoves(x)
  BY <1>1, <1>4, <1>6 DEF Confirm, CheckUpload, ReadVersion, TouchSection, WriteEntry, PushEntry, CreateHistory,
                          EnqueueUpload
<1>7. ASSUME NEW h \in Handler, UlbRequest(h)
      PROVE  \A x \in Worker : WorkerMoves(x)
  <2>1. CASE EnqueueRetry(h)
    <3>1. req[h].on \in Upload
      BY <1>0, <2>1 DEF EnqueueRetry, RequestInv
    <3>2. QED  BY <1>4, <2>1, <3>1 DEF EnqueueRetry
  <2>2. CASE ~EnqueueRetry(h)
    BY <1>1, <1>7, <2>2, ZenonT(40) DEF UlbRequest, BeginRetry, RetryHistory, RetryEntry, BeginRemove, BeginAsk, RemoveFile,
                            AskEntry, AskRow, BeginSubmit, SubmitSection
  <2>3. QED  BY <2>1, <2>2
<1>8. ASSUME NEW h \in Handler, ReviewRequest(h)
      PROVE  UNCHANGED worker
  BY <1>8, Zenon DEF ReviewRequest, BeginDocument, BeginRuling, BeginSection, DecideDocument,
              DecideSection, BeginUndo, UndoApproval, RuleEntry, RuleRow, reviewUnchanged
<1>9. RequestDies => UNCHANGED worker
  BY DEF RequestDies
<1>10. QED
  BY <1>1, <1>5, <1>6, <1>7, <1>8, <1>9 DEF AnnualNext

\* A document passes on the OCR of the file it holds or on the ADMIN's approval of it.
LEMMA EvidenceStep ==
  ASSUME AnnualTypeInv, AnnualTypeInv', EvidenceInv, AnnualNext
  PROVE  EvidenceInv'
<1>0. /\ RequestInv /\ RequestInv' /\ documents \in Seq(DocumentItem) /\ documents' \in Seq(DocumentItem)
      /\ worker \in [Worker -> WorkerState] /\ WorkerInv
      /\ history \in [Upload -> HistoryRow \cup {NoRow}]
      /\ \A i \in DOMAIN documents : documents[i] \in DocumentItem
      /\ ruled \subseteq DocId \X Verdict
  BY DEF AnnualTypeInv, AnnualTypeOK, AnnualStoreTypeOK, UlbTypeOK
<1>1. ruled \subseteq ruled'
  BY Zenon DEF AnnualNext, ReviewRequest, BeginDocument, BeginRuling, BeginSection, DecideDocument,
         DecideSection, BeginUndo, UndoApproval, RuleEntry, RuleRow
<1>2. \A u \in Upload : history[u] # NoRow /\ history[u].passes > 0 =>
                          history'[u] # NoRow /\ history'[u].passes > 0
  <2>1. ASSUME NEW u \in Upload, history[u] # NoRow, history[u].passes > 0
        PROVE  history'[u] # NoRow /\ history'[u].passes > 0
    <3>1. /\ history[u] \in HistoryRow /\ history'[u] # NoRow
          /\ history'[u].passes \in Nat /\ history'[u].passes >= history[u].passes
      BY <2>1, RowsGrow
    <3>2. QED  BY <2>1, <3>1 DEF HistoryRow
  <2>2. QED  BY <2>1
<1>3. ASSUME NEW w \in Worker, worker'[w].result = "PASS"
      PROVE  history'[w[1]] # NoRow /\ history'[w[1]].passes > 0
  <2>0. w[1] \in Upload
    BY RestTyped
  <2>1. WorkerMoves(w)
    BY WorkersMove
  <2>2. CASE worker[w].result = "PASS"
    BY <1>2, <2>0, <2>2 DEF EvidenceInv
  <2>3. CASE Claim(w, "PASS") /\ Claimable(w[1])
    <3>1. history[w[1]] # NoRow /\ history[w[1]] \in HistoryRow
      BY <1>0, <2>0, <2>3 DEF Claim, WorkerInv
    <3>2. history'[w[1]] = Settled(history[w[1]], "PASS")
      BY <1>0, <2>0, <2>3 DEF Claim
    <3>3. history'[w[1]] \in HistoryRow /\ history'[w[1]].passes = history[w[1]].passes + 1
      BY <3>1, <3>2, SettledRow
    <3>4. QED  BY <3>1, <3>3, RowsAreRows DEF HistoryRow
  <2>4. QED  BY <1>3, <2>1, <2>2, <2>3 DEF WorkerMoves
<1>4. ASSUME NEW i \in DOMAIN documents', Passed(documents'[i])
      PROVE  \/ <<documents'[i].docId, "APPROVED">> \in ruled'
             \/ /\ documents'[i].upload # NoUpload /\ history'[documents'[i].upload] # NoRow
                /\ history'[documents'[i].upload].passes > 0
  <2>1. EntryMoves(i)
    BY EntriesMove
  <2>2. CASE /\ i \in DOMAIN documents /\ documents'[i].docId = documents[i].docId
             /\ documents[i].processing = "PASSED" /\ documents'[i].upload = documents[i].upload
    <3>1. CASE <<documents[i].docId, "APPROVED">> \in ruled
      BY <1>1, <2>2, <3>1
    <3>2. CASE /\ documents[i].upload # NoUpload /\ history[documents[i].upload] # NoRow
               /\ history[documents[i].upload].passes > 0
      <4>1. documents[i].upload \in Upload
        BY <1>0, <2>2, <3>2 DEF DocumentItem
      <4>2. QED  BY <1>2, <2>2, <3>2, <4>1
    <3>3. QED  BY <2>2, <3>1, <3>2 DEF EvidenceInv, Passed
  <2>3. ASSUME NEW w \in Worker, i \in DOMAIN documents, documents[i].upload = w[1],
               documents'[i] = WithResult(documents[i], worker[w])
        PROVE  /\ documents'[i].upload # NoUpload /\ history'[documents'[i].upload] # NoRow
               /\ history'[documents'[i].upload].passes > 0
    <3>1. documents[i] \in DocumentItem /\ worker[w] \in WorkerState
      BY <1>0, <2>3
    <3>2. documents'[i].upload = w[1] /\ worker[w].result = "PASS"
      BY <1>4, <2>3, <3>1, ItemWithResult DEF Passed
    <3>3. QED  BY <1>2, <3>2, RestTyped, UploadAssumption DEF EvidenceInv
  <2>4. ASSUME NEW h \in Handler, i \in DOMAIN documents, RuleEntry(h), documents[i].docId = req[h].docId,
               documents'[i] = Ruling(documents[i], req[h].verdict),
               documents'[i].docId = documents[i].docId, documents[i].processing # "PASSED"
        PROVE  <<documents'[i].docId, "APPROVED">> \in ruled'
    <3>1. documents[i] \in DocumentItem /\ req[h].verdict \in Verdict
      BY <1>0, <2>4 DEF RuleEntry, RequestInv
    <3>2. req[h].verdict = "APPROVED"
      BY <1>4, <2>4, <3>1, RulingItem DEF Passed
    <3>3. QED  BY <2>4, <3>2 DEF RuleEntry
  <2>5. ASSUME NEW h \in Handler, i \in DOMAIN documents, RuleEntry(h),
               documents'[i] = Ruling(documents[i], req[h].verdict)
        PROVE  documents'[i].upload = documents[i].upload
    <3>1. documents[i] \in DocumentItem /\ req[h].verdict \in Verdict
      BY <1>0, <2>5 DEF RuleEntry, RequestInv
    <3>2. QED  BY <2>5, <3>1, RulingItem
  <2>6. QED
    BY <1>4, <2>1, <2>2, <2>3, <2>4, <2>5 DEF EntryMoves, SameFile, SetBack, Passed
<1>5. QED  BY <1>3, <1>4 DEF EvidenceInv, Passed

\* A document passes on the OCR of the very file it holds, or because the ADMIN approved it: never on
\* the late result of a file it held before, whichever uploads, retries and removals overlap.
THEOREM PassedByItsFile == AnnualSpec => []PassedOnEvidence
<1>1. AnnualInit => EvidenceInv
  <2>1. Unused.result # "PASS"
    BY DEF Unused
  <2>2. QED  BY <2>1 DEF AnnualInit, AnnualStoreInit, UlbInit, EvidenceInv
<1>2. AnnualTypeInv /\ AnnualTypeInv' /\ EvidenceInv /\ [AnnualNext]_annualVars => EvidenceInv'
  <2> SUFFICES ASSUME AnnualTypeInv, AnnualTypeInv', EvidenceInv, [AnnualNext]_annualVars
               PROVE  EvidenceInv'
    OBVIOUS
  <2>1. CASE UNCHANGED annualVars
    BY <2>1 DEF EvidenceInv, annualVars, ulbvars, annualStore
  <2>2. QED  BY <2>1, EvidenceStep
<1>3. EvidenceInv => PassedOnEvidence
  BY DEF EvidenceInv, PassedOnEvidence
<1>4. QED
  BY <1>1, <1>2, <1>3, AnnualTypeInvariant, PTL DEF AnnualSpec

\* There are finitely many failures and runs.
LEMMA StrikesAreCounted ==
  ASSUME NEW d \in DocId
  PROVE  /\ IsFiniteSet(Claims(d)) /\ IsFiniteSet(Failures(d))
         /\ Cardinality(Claims(d)) \in Nat /\ Cardinality(Failures(d)) \in Nat
<1>1. IsFiniteSet(Upload) /\ MaxRuns \in Nat
  BY UploadAssumption, CastAssumption
<1>2. IsFiniteSet(0..MaxRuns) /\ IsFiniteSet(1..MaxRuns)
  BY <1>1, FS_Interval
<1>3. IsFiniteSet(Upload \X (0..MaxRuns)) /\ IsFiniteSet(Upload \X (1..MaxRuns))
  BY <1>1, <1>2, FS_Product
<1>4. Claims(d) \subseteq Worker /\ Failures(d) \subseteq Upload \X (1..MaxRuns)
  BY DEF Claims, Failures
<1>5. QED  BY <1>3, <1>4, FS_Subset, FS_CardinalityType DEF Worker

\* A failed run that is claimed adds a failure of its document; reading the strikes gives it up.
LEMMA StrikesAreBacked ==
  ASSUME AnnualTypeInv, RunsInv, AnnualNext, NEW d \in DocId
  PROVE  /\ Cardinality(Claims(d)') + Cardinality(Failures(d)) <= Cardinality(Claims(d)) + Cardinality(Failures(d)')
         /\ \A w \in Worker :
              worker[w].pc = "claimed" /\ history[w[1]].docId = d /\ worker'[w].pc # "claimed" =>
                Cardinality(Claims(d)') + 1 + Cardinality(Failures(d))
                  <= Cardinality(Claims(d)) + Cardinality(Failures(d)')
<1> DEFINE C == Claims(d)
           F == Failures(d)
           D == Claims(d)'
           G == Failures(d)'
<1>0. /\ worker \in [Worker -> WorkerState] /\ WorkerInv /\ history \in [Upload -> HistoryRow \cup {NoRow}]
      /\ MaxRuns \in Nat
  BY CastAssumption DEF AnnualTypeInv, AnnualTypeOK, AnnualStoreTypeOK, UlbTypeOK
<1>1. /\ IsFiniteSet(C) /\ IsFiniteSet(F) /\ Cardinality(C) \in Nat /\ Cardinality(F) \in Nat
  BY StrikesAreCounted
<1>2. /\ IsFiniteSet(D) /\ IsFiniteSet(G) /\ Cardinality(D) \in Nat /\ Cardinality(G) \in Nat
  <2>0. IsFiniteSet(0..MaxRuns) /\ IsFiniteSet(1..MaxRuns)
    BY <1>0, FS_Interval
  <2>1. IsFiniteSet(Upload \X (0..MaxRuns)) /\ IsFiniteSet(Upload \X (1..MaxRuns))
    BY <2>0, UploadAssumption, FS_Product
  <2>2. D \subseteq Upload \X (0..MaxRuns) /\ G \subseteq Upload \X (1..MaxRuns)
    BY DEF Claims, Failures, Worker
  <2> HIDE DEF D, G
  <2>3. QED  BY <2>1, <2>2, FS_Subset, FS_CardinalityType
<1>3. F \subseteq G
  <2>1. ASSUME NEW u \in Upload, NEW n \in 1..MaxRuns, u \in Rows(d), n <= history[u].fails
        PROVE  history'[u] # NoRow /\ history'[u].docId = d /\ n <= history'[u].fails
    <3>1. /\ history[u] # NoRow /\ history[u].docId = d
      BY <2>1 DEF Rows
    <3>2. /\ history[u] \in HistoryRow /\ history'[u] # NoRow /\ history'[u].docId = history[u].docId
          /\ history'[u].fails \in Nat /\ history'[u].fails >= history[u].fails
      BY <3>1, RowsGrow
    <3>3. history[u].fails \in Nat
      BY <3>2 DEF HistoryRow
    <3>4. QED  BY <2>1, <3>1, <3>2, <3>3
  <2>2. QED  BY <2>1 DEF Failures, Rows
<1>4. ASSUME NEW w \in Worker, worker[w].pc = "claimed" \/ w \in D, worker'[w] = worker[w]
      PROVE  history[w[1]] # NoRow /\ history'[w[1]].docId = history[w[1]].docId
  <2>1. worker[w].pc = "claimed" /\ w[1] \in Upload
    BY <1>4, RestTyped DEF Claims
  <2>2. history[w[1]] # NoRow
    BY <1>0, <2>1 DEF WorkerInv
  <2>3. QED  BY <2>1, <2>2, RowsGrow
<1>5. CASE \E w \in Worker, result \in {"FAIL", "ERROR"} :
             Claim(w, result) /\ Claimable(w[1]) /\ history[w[1]].docId = d
  <2>1. PICK w \in Worker, result \in {"FAIL", "ERROR"} :
          Claim(w, result) /\ Claimable(w[1]) /\ history[w[1]].docId = d
    BY <1>5
  <2> DEFINE u == w[1]
             f == <<u, history[u].fails + 1>>
  <2>2. /\ u \in Upload /\ history[u] # NoRow /\ history[u] \in HistoryRow
        /\ history[u].fails \in Nat /\ history[u].passes \in Nat /\ history[u].runs \in Nat
    BY <1>0, <2>1, RestTyped DEF Claim, WorkerInv, HistoryRow
  <2>3. history[u].fails + 1 <= MaxRuns
    BY <1>0, <2>1, <2>2 DEF RunsInv, Claimable
  <2>4. history'[u] = Settled(history[u], result)
    BY <1>0, <2>1, <2>2 DEF Claim
  <2>5. history'[u] # NoRow /\ history'[u].docId = d /\ history'[u].fails = history[u].fails + 1
    BY <2>1, <2>2, <2>4, SettledRow, RowsAreRows
  <2>6. f \in G /\ f \notin F
    BY <2>2, <2>3, <2>5 DEF Failures, Rows
  <2>7. Cardinality(F \cup {f}) = Cardinality(F) + 1
    <3> HIDE DEF F, f
    <3>1. QED  BY <1>1, <2>6, FS_AddElement
  <2>8. Cardinality(F) + 1 <= Cardinality(G)
    <3>1. F \cup {f} \subseteq G
      BY <1>3, <2>6
    <3> HIDE DEF F, f, G
    <3>2. Cardinality(F \cup {f}) <= Cardinality(G)
      BY <1>2, <3>1, FS_Subset
    <3>3. QED  BY <2>7, <3>2
  <2>9. /\ \A x \in Worker : x # w => worker'[x] = worker[x]
        /\ worker[w].pc = "polling" /\ worker'[w].pc = "claimed"
    <3>1. worker' = [worker EXCEPT ![w].pc = "claimed", ![w].result = result] /\ worker[w].pc = "polling"
      BY <2>1 DEF Claim
    <3>2. QED  BY <1>0, <3>1 DEF WorkerState
  <2>10. D \subseteq C \cup {w}
    <3>1. ASSUME NEW x \in D, x # w
          PROVE  x \in C
      <4>1. x \in Worker /\ worker'[x].pc = "claimed" /\ history'[x[1]].docId = d /\ worker'[x] = worker[x]
        BY <1>0, <2>9, <3>1 DEF Claims
      <4>2. history'[x[1]].docId = history[x[1]].docId
        BY <1>4, <3>1, <4>1
      <4>3. QED  BY <4>1, <4>2 DEF Claims
    <3>2. QED  BY <3>1
  <2>11. Cardinality(D) <= Cardinality(C) + 1
    <3> HIDE DEF C, D
    <3>1. IsFiniteSet(C \cup {w}) /\ Cardinality(C \cup {w}) <= Cardinality(C) + 1
      <4>1. CASE w \in C
        <5>1. C \cup {w} = C
          BY <4>1
        <5>2. IsFiniteSet(C \cup {w}) /\ Cardinality(C \cup {w}) = Cardinality(C)
          BY <1>1, <5>1, Zenon
        <5>3. QED  BY <1>1, <5>2
      <4>2. CASE w \notin C
        <5>1. IsFiniteSet(C \cup {w}) /\ Cardinality(C \cup {w}) = Cardinality(C) + 1
          BY <1>1, <4>2, FS_AddElement
        <5>2. QED  BY <1>1, <5>1
      <4>3. QED  BY <4>1, <4>2
    <3>2. Cardinality(D) <= Cardinality(C \cup {w})
      BY <2>10, <3>1, FS_Subset
    <3>3. QED  BY <1>1, <1>2, <3>1, <3>2, FS_CardinalityType
  <2>12. ASSUME NEW x \in Worker, worker[x].pc = "claimed"
         PROVE  worker'[x].pc = "claimed"
    BY <1>0, <2>9, <2>12
  <2> HIDE DEF C, D, F, G
  <2>13. Cardinality(D) + Cardinality(F) <= Cardinality(C) + Cardinality(G)
    BY <1>1, <1>2, <2>8, <2>11
  <2>14. QED  BY <2>12, <2>13 DEF C, D, F, G
<1>6. CASE ~ \E w \in Worker, result \in {"FAIL", "ERROR"} :
               Claim(w, result) /\ Claimable(w[1]) /\ history[w[1]].docId = d
  <2>1. D \subseteq C
    <3>1. ASSUME NEW x \in D
          PROVE  x \in C
      <4>1. x \in Worker /\ worker'[x].pc = "claimed" /\ history'[x[1]].docId = d /\ x[1] \in Upload
        BY <3>1, RestTyped DEF Claims
      <4>2. WorkerMoves(x)
        BY WorkersMove, <4>1
      <4>3. CASE worker'[x] = worker[x]
        BY <1>4, <3>1, <4>1, <4>3 DEF Claims
      <4>4. ASSUME NEW result \in {"PASS", "FAIL", "ERROR"}, Claim(x, result), Claimable(x[1]),
                   worker'[x].pc = IF result = "PASS" THEN "apply" ELSE "claimed"
            PROVE  FALSE
        <5>1. history[x[1]] # NoRow
          BY <1>0, <4>1, <4>4 DEF WorkerInv, Claim
        <5>2. history'[x[1]].docId = history[x[1]].docId
          BY <4>1, <5>1, RowsGrow
        <5>3. QED  BY <1>6, <4>1, <4>4, <5>2
      <4>5. QED  BY <4>1, <4>2, <4>3, <4>4 DEF WorkerMoves
    <3>2. QED  BY <3>1
  <2>2. Cardinality(D) <= Cardinality(C) /\ Cardinality(F) <= Cardinality(G)
    <3> HIDE DEF C, D, F, G
    <3>1. QED  BY <1>1, <1>2, <1>3, <2>1, FS_Subset
  <2>3. ASSUME NEW w \in Worker, worker[w].pc = "claimed", history[w[1]].docId = d, worker'[w].pc # "claimed"
        PROVE  Cardinality(D) + 1 <= Cardinality(C)
    <3>1. w \in C /\ w \notin D
      BY <2>3 DEF Claims
    <3> HIDE DEF C, D
    <3>2. D \cup {w} \subseteq C
      BY <2>1, <3>1
    <3>3. Cardinality(D \cup {w}) = Cardinality(D) + 1
      BY <1>2, <3>1, FS_AddElement
    <3>4. Cardinality(D \cup {w}) <= Cardinality(C)
      BY <1>1, <3>2, FS_Subset
    <3>5. QED  BY <3>3, <3>4
  <2>4. /\ Cardinality(D) + Cardinality(F) <= Cardinality(C) + Cardinality(G)
        /\ \A w \in Worker :
             worker[w].pc = "claimed" /\ history[w[1]].docId = d /\ worker'[w].pc # "claimed" =>
               Cardinality(D) + 1 + Cardinality(F) <= Cardinality(C) + Cardinality(G)
    <3> HIDE DEF C, D, F, G
    <3>1. QED  BY <1>1, <1>2, <2>2, <2>3
  <2>5. QED  BY <2>4 DEF C, D, F, G
<1>7. QED  BY <1>5, <1>6

\* The strikes of a document grow only with the failures behind them.
LEMMA StrikesStep ==
  ASSUME AnnualTypeInv, AnnualTypeInv', RunsInv, StrikesInv, AnnualNext
  PROVE  StrikesInv'
<1>0. /\ worker \in [Worker -> WorkerState] /\ WorkerInv /\ RequestInv
      /\ history \in [Upload -> HistoryRow \cup {NoRow}] /\ documents \in Seq(DocumentItem)
      /\ \A i \in DOMAIN documents : documents[i] \in DocumentItem
      /\ \A i \in DOMAIN documents' : documents'[i] \in DocumentItem
      /\ worker' \in [Worker -> WorkerState] /\ ruled \subseteq DocId \X Verdict
      /\ NoVerdict # "RETURNED"
  BY DEF AnnualTypeInv, AnnualTypeOK, AnnualStoreTypeOK, UlbTypeOK, NoVerdict
<1>1. ruled \subseteq ruled'
  BY Zenon DEF AnnualNext, ReviewRequest, BeginDocument, BeginRuling, BeginSection, DecideDocument,
         DecideSection, BeginUndo, UndoApproval, RuleEntry, RuleRow
<1>2. ASSUME NEW w \in Worker, worker'[w].counts
      PROVE  /\ worker'[w].pc = "apply"
             /\ \/ worker'[w] = worker[w]
                \/ /\ worker[w].pc = "claimed"
                   /\ \E i \in EntriesOf(w[1]) :
                        Counts(documents[i]) /\ worker'[w].strikes = NextStrikes(documents[i])
  <2>1. WorkerMoves(w) /\ (worker[w].counts => worker[w].pc = "apply")
    BY WorkersMove DEF StrikesInv
  <2>2. worker[w].counts \in BOOLEAN /\ worker'[w].counts = TRUE
    BY <1>0, <1>2 DEF WorkerState
  <2>3. QED  BY <1>2, <2>1, <2>2 DEF WorkerMoves
<1>3. ASSUME NEW d \in DocId
      PROVE  StrikesOf(d)'
  <2> DEFINE c == Cardinality(Claims(d))
             f == Cardinality(Failures(d))
             e == Cardinality(Claims(d)')
             g == Cardinality(Failures(d)')
  <2>0. StrikesOf(d)
    BY DEF StrikesInv
  <2>1. c \in Nat /\ f \in Nat /\ e \in Nat /\ g \in Nat
    <3>1. c \in Nat /\ f \in Nat
      BY StrikesAreCounted
    <3>2. IsFiniteSet(0..MaxRuns) /\ IsFiniteSet(1..MaxRuns)
      BY CastAssumption, FS_Interval
    <3>3. IsFiniteSet(Upload \X (0..MaxRuns)) /\ IsFiniteSet(Upload \X (1..MaxRuns))
      BY <3>2, UploadAssumption, FS_Product
    <3>4. Claims(d)' \subseteq Upload \X (0..MaxRuns) /\ Failures(d)' \subseteq Upload \X (1..MaxRuns)
      BY DEF Claims, Failures, Worker
    <3>5. e \in Nat /\ g \in Nat
      BY <3>3, <3>4, FS_Subset, FS_CardinalityType
    <3>6. QED  BY <3>1, <3>5
  <2>2. /\ e + f <= c + g
        /\ \A w \in Worker :
             worker[w].pc = "claimed" /\ history[w[1]].docId = d /\ worker'[w].pc # "claimed" => e + 1 + f <= c + g
    BY StrikesAreBacked
  <2>3. /\ c <= f
        /\ \A i \in DOMAIN documents : documents[i].docId = d =>
             /\ documents[i].strikes + c <= f
             /\ documents[i].strikes > 0 \/ documents[i].review = "RETURNED" => <<d, "RETURNED">> \in ruled
        /\ \A w \in Worker : worker[w].counts /\ history[w[1]].docId = d =>
             worker[w].strikes + c <= f /\ <<d, "RETURNED">> \in ruled
    BY <2>0 DEF StrikesOf
  <2> HIDE DEF c, f, e, g
  <2>4. e <= g
    BY <2>1, <2>2, <2>3
  <2>5. ASSUME NEW n \in 0..MaxAttempts, n + c <= f
        PROVE  n + e <= g
    BY <2>1, <2>2, <2>5, MaxAttemptsAssumption
  <2>6. ASSUME NEW i \in DOMAIN documents', documents'[i].docId = d
        PROVE  /\ documents'[i].strikes + e <= g
               /\ documents'[i].strikes > 0 \/ documents'[i].review = "RETURNED" => <<d, "RETURNED">> \in ruled'
    <3>1. EntryMoves(i)
      BY EntriesMove
    <3>2. CASE /\ i \in DOMAIN documents /\ documents'[i].docId = documents[i].docId
               /\ documents'[i].strikes = documents[i].strikes
               /\ documents'[i].review \in {documents[i].review, NoVerdict}
      <4>1. documents[i].strikes \in 0..MaxAttempts
        BY <1>0, <3>2 DEF DocumentItem
      <4>2. QED  BY <1>0, <1>1, <2>3, <2>5, <2>6, <3>2, <4>1
    <3>3. CASE documents'[i].strikes = 0 /\ documents'[i].review = NoVerdict
      BY <1>0, <2>1, <2>4, <3>3
    <3>4. ASSUME NEW w \in Worker, i \in DOMAIN documents, ApplyResult(w), documents[i].docId = history[w[1]].docId,
                 documents'[i] = WithResult(documents[i], worker[w]), documents'[i].docId = documents[i].docId
          PROVE  /\ documents'[i].strikes + e <= g
                 /\ documents'[i].strikes > 0 \/ documents'[i].review = "RETURNED" => <<d, "RETURNED">> \in ruled'
      <4>1. documents[i] \in DocumentItem /\ worker[w] \in WorkerState
        BY <1>0, <3>4
      <4>2. /\ documents'[i].strikes =
                 IF worker[w].result = "PASS" THEN 0
                 ELSE IF worker[w].counts THEN worker[w].strikes ELSE documents[i].strikes
            /\ documents'[i].review = IF worker[w].result = "PASS" THEN NoVerdict ELSE documents[i].review
        BY <3>4, <4>1, ItemWithResult
      <4>3. worker[w].strikes \in 0..MaxAttempts /\ worker[w].counts \in BOOLEAN
        BY <4>1 DEF WorkerState
      <4>4. CASE worker[w].result = "PASS"
        BY <3>3, <4>2, <4>4
      <4>5. CASE worker[w].result # "PASS" /\ worker[w].counts = TRUE
        BY <1>1, <2>3, <2>5, <2>6, <3>4, <4>2, <4>3, <4>5
      <4>6. CASE worker[w].result # "PASS" /\ worker[w].counts = FALSE
        BY <3>2, <3>4, <4>2, <4>6
      <4>7. QED  BY <4>3, <4>4, <4>5, <4>6
    <3>5. ASSUME NEW h \in Handler, i \in DOMAIN documents, RuleEntry(h), documents[i].docId = req[h].docId,
                 documents'[i] = Ruling(documents[i], req[h].verdict), documents'[i].docId = documents[i].docId
          PROVE  /\ documents'[i].strikes + e <= g
                 /\ documents'[i].strikes > 0 \/ documents'[i].review = "RETURNED" => <<d, "RETURNED">> \in ruled'
      <4>1. documents[i] \in DocumentItem /\ req[h].verdict \in Verdict
        BY <1>0, <3>5 DEF RuleEntry, RequestInv
      <4>2. CASE req[h].verdict = "APPROVED"
        <5>1. documents'[i].strikes = documents[i].strikes /\ documents'[i].review = "APPROVED"
          BY <3>5, <4>1, <4>2, RulingItem
        <5>2. documents[i].strikes \in 0..MaxAttempts
          BY <4>1 DEF DocumentItem
        <5>3. QED  BY <1>1, <2>3, <2>5, <2>6, <3>5, <5>1, <5>2
      <4>3. CASE req[h].verdict = "RETURNED"
        <5>1. documents'[i].strikes = 0
          BY <3>5, <4>1, <4>3, RulingItem
        <5>2. <<d, "RETURNED">> \in ruled'
          BY <2>6, <3>5, <4>3 DEF RuleEntry
        <5>3. QED  BY <2>1, <2>4, <5>1, <5>2
      <4>4. QED  BY <4>1, <4>2, <4>3 DEF Verdict
    <3>6. QED
      BY <1>0, <3>1, <3>2, <3>3, <3>4, <3>5 DEF EntryMoves, SameFile, SetBack
  <2>7. ASSUME NEW w \in Worker, worker'[w].counts, history'[w[1]].docId = d
        PROVE  worker'[w].strikes + e <= g /\ <<d, "RETURNED">> \in ruled'
    <3>1. /\ worker'[w].pc = "apply"
          /\ \/ worker'[w] = worker[w]
             \/ /\ worker[w].pc = "claimed"
                /\ \E i \in EntriesOf(w[1]) :
                     Counts(documents[i]) /\ worker'[w].strikes = NextStrikes(documents[i])
      BY <1>2, <2>7
    <3>2. w[1] \in Upload /\ history[w[1]] # NoRow
      BY <1>0, <3>1, RestTyped DEF WorkerInv
    <3>3. history[w[1]].docId = d
      BY <2>7, <3>2, RowsGrow
    <3>4. CASE worker'[w] = worker[w]
      <4>1. worker[w].strikes \in 0..MaxAttempts
        BY <1>0 DEF WorkerState
      <4>2. QED  BY <1>1, <2>3, <2>5, <2>7, <3>3, <3>4, <4>1
    <3>5. ASSUME worker[w].pc = "claimed", NEW i \in EntriesOf(w[1]), Counts(documents[i]),
                 worker'[w].strikes = NextStrikes(documents[i])
          PROVE  worker'[w].strikes + e <= g /\ <<d, "RETURNED">> \in ruled'
      <4>1. i \in DOMAIN documents /\ documents[i].docId = d /\ documents[i] \in DocumentItem
        BY <1>0, <3>3 DEF EntriesOf, Entries
      <4>2. documents[i].strikes + c <= f /\ <<d, "RETURNED">> \in ruled
        BY <2>3, <3>5, <4>1 DEF Counts
      <4>3. documents[i].strikes \in Nat /\ NextStrikes(documents[i]) \in Nat
            /\ NextStrikes(documents[i]) <= documents[i].strikes + 1
        <5>1. documents[i].strikes \in 0..MaxAttempts
          BY <4>1 DEF DocumentItem
        <5>2. QED  BY <5>1, MaxAttemptsAssumption DEF NextStrikes
      <4>4. e + 1 + f <= c + g
        BY <2>2, <3>1, <3>3, <3>5
      <4>5. QED  BY <1>1, <2>1, <3>5, <4>2, <4>3, <4>4
    <3>6. QED  BY <3>1, <3>4, <3>5
  <2>8. QED  BY <2>4, <2>6, <2>7 DEF StrikesOf, e, g
<1>4. QED  BY <1>2, <1>3 DEF StrikesInv

\* An attempt of a document is used up only by a failed run of one of its uploads, one attempt at most
\* by each, and only once the ADMIN has returned a manual review of it, whatever runs overlap.
THEOREM EveryStrikeIsEarned == AnnualSpec => []StrikesAreEarned
<1>1. AnnualInit => RunsInv /\ StrikesInv
  <2> SUFFICES ASSUME AnnualInit
               PROVE  RunsInv /\ StrikesInv
    OBVIOUS
  <2>1. \A w \in Worker : worker[w].counts = FALSE /\ worker[w].pc = "unused"
    BY DEF AnnualInit, UlbInit, Unused
  <2>2. RunsInv
    BY NoRequestTyped DEF AnnualInit, AnnualStoreInit, UlbInit, RunsInv
  <2>3. ASSUME NEW d \in DocId
        PROVE  StrikesOf(d)
    <3>1. Claims(d) = {}
      BY <2>1 DEF Claims
    <3>2. Cardinality(Claims(d)) = 0 /\ Cardinality(Failures(d)) \in Nat
      BY <3>1, FS_EmptySet, StrikesAreCounted
    <3>3. QED  BY <2>1, <3>2 DEF StrikesOf, AnnualInit, AnnualStoreInit
  <2>4. QED  BY <2>1, <2>2, <2>3 DEF StrikesInv
<1>2. AnnualTypeInv /\ AnnualTypeInv' /\ RunsInv /\ StrikesInv /\ [AnnualNext]_annualVars
        => RunsInv' /\ StrikesInv'
  <2> SUFFICES ASSUME AnnualTypeInv, AnnualTypeInv', RunsInv, StrikesInv, [AnnualNext]_annualVars
               PROVE  RunsInv' /\ StrikesInv'
    OBVIOUS
  <2>1. CASE UNCHANGED annualVars
    <3>1. UNCHANGED <<documents, history, req, worker, ruled>>
      BY <2>1 DEF annualVars, ulbvars, annualStore
    <3>2. RunsInv'
      BY <3>1 DEF RunsInv
    <3>3. ASSUME NEW d \in DocId
          PROVE  StrikesOf(d)'
      <4>1. Claims(d)' = Claims(d) /\ Failures(d)' = Failures(d)
        BY <3>1 DEF Claims, Failures, Rows
      <4>2. StrikesOf(d)
        BY DEF StrikesInv
      <4>3. QED  BY <3>1, <4>1, <4>2 DEF StrikesOf
    <3>4. QED  BY <3>1, <3>2, <3>3 DEF StrikesInv
  <2>2. QED  BY <2>1, RunsStep, StrikesStep
<1>3. AnnualTypeInv /\ StrikesInv => StrikesAreEarned
  <2> SUFFICES ASSUME AnnualTypeInv, StrikesInv, NEW i \in DOMAIN documents, documents[i].strikes > 0
               PROVE  /\ <<documents[i].docId, "RETURNED">> \in ruled
                      /\ documents[i].strikes <= Cardinality(Failures(documents[i].docId))
    BY DEF StrikesAreEarned
  <2> DEFINE d == documents[i].docId
  <2>0. documents[i] \in DocumentItem
    BY DEF AnnualTypeInv, AnnualTypeOK, AnnualStoreTypeOK
  <2>1. d \in DocId /\ documents[i].strikes \in Nat
    BY <2>0, MaxAttemptsAssumption DEF DocumentItem
  <2>2. /\ documents[i].strikes + Cardinality(Claims(d)) <= Cardinality(Failures(d))
        /\ <<d, "RETURNED">> \in ruled
    BY <2>1 DEF StrikesInv, StrikesOf
  <2>3. \A x \in DocId : Cardinality(Claims(x)) \in Nat /\ Cardinality(Failures(x)) \in Nat
    BY StrikesAreCounted
  <2>4. QED  BY <2>1, <2>2, <2>3
<1>4. QED
  BY <1>1, <1>2, <1>3, AnnualTypeInvariant, PTL DEF AnnualSpec

-----------------------------------------------------------------------------
(* Annual accounts: one request at a time                                  *)

Busy(u) == filing[u].pc \notin {"new", "done"}

\* One request at a time, none of them a retry.
OneAtATime ==
  /\ \A u, v \in Upload : Busy(u) /\ Busy(v) => u = v
  /\ \A g, h \in Handler : req[g] # NoRequest /\ req[h] # NoRequest => g = h
  /\ \A u \in Upload, h \in Handler : Busy(u) => req[h] = NoRequest
  /\ \A h \in Handler : req[h].op \notin {"retry", "broken"}

NoneUnderWay == (\A u \in Upload : ~Busy(u)) /\ (\A h \in Handler : req[h] = NoRequest)

LEMMA NoneOpen ==
  ASSUME OneAtATime, Quiet, Cardinality(Open) < cast.open
  PROVE  NoneUnderWay
<1>1. ASSUME NEW x \in Open
      PROVE  Open = {x}
  BY DEF OneAtATime, Open, Busy
<1>2. Open = {}
  <2>1. ASSUME NEW x \in Open
        PROVE  FALSE
    <3>1. Open = {x}
      BY <1>1
    <3>2. Cardinality({x}) = 1
      BY FS_Singleton
    <3>3. QED  BY <3>1, <3>2 DEF Quiet
  <2>2. QED  BY <2>1
<1>3. QED  BY <1>2 DEF Open, Busy, NoneUnderWay

\* The scene stays.
LEMMA SceneStays == AnnualNext => cast' = cast
<1>1. \A u \in Upload : Confirm(u) => cast' = cast
  BY Zenon DEF Confirm, CheckUpload, ReadVersion, TouchSection, WriteEntry, PushEntry, CreateHistory, EnqueueUpload
<1>2. \A h \in Handler : UlbRequest(h) => cast' = cast
  BY ZenonT(40) DEF UlbRequest, BeginRetry, RetryHistory, RetryEntry, EnqueueRetry, BeginRemove, BeginAsk, RemoveFile,
         AskEntry, AskRow, BeginSubmit, SubmitSection
<1>3. OcrStep => cast' = cast
  BY ZenonT(40) DEF OcrStep, CronTick, StartRun, RecordJob, StillRunning, Claim, ReadStrikes, ApplyResult, WorkerFails,
         ocrUnchanged
<1>4. \A h \in Handler : ReviewRequest(h) => cast' = cast
  BY Zenon DEF ReviewRequest, BeginDocument, BeginRuling, BeginSection, DecideDocument, DecideSection, BeginUndo,
         UndoApproval, RuleEntry, RuleRow, reviewUnchanged
<1>5. QED  BY <1>1, <1>2, <1>3, <1>4 DEF AnnualNext, RequestDies

\* How the request of an upload moves: it is checked, has its version read, is told on, or ends.
FilingMoves(u) ==
  \/ filing'[u] = filing[u]
  \/ /\ \E d \in DocId : CheckUpload(u, d) /\ filing'[u].docId = d
     /\ filing'[u].pc = "checked" /\ filing'[u].uploadedAt = filing[u].uploadedAt
     /\ \A v \in Upload : v # u => filing'[v] = filing[v]
  \/ /\ ReadVersion(u)
     /\ filing'[u].pc = "counted" /\ filing'[u].docId = filing[u].docId /\ filing'[u].uploadedAt = Clock + 1
     /\ filing'[u].version = NextVersion(filing[u].docId)
  \/ /\ Busy(u)
     /\ filing'[u].docId = filing[u].docId /\ filing'[u].uploadedAt = filing[u].uploadedAt
     /\ filing'[u].version = filing[u].version
     /\ \/ TouchSection(u) /\ filing'[u].pc = "touched"
        \/ WriteEntry(u) /\ filing'[u].pc = IF HasEntry(filing[u].docId) THEN "slotted" ELSE "push"
        \/ PushEntry(u) /\ filing'[u].pc = "slotted"
        \/ CreateHistory(u) /\ filing'[u].pc = IF VersionTaken(u) THEN "done" ELSE "recorded"
        \/ EnqueueUpload(u) /\ filing'[u].pc = "done"
        \/ RequestDies /\ UNCHANGED annualStore /\ filing'[u].pc = "done"

LEMMA FilingsMove ==
  ASSUME AnnualTypeInv, AnnualNext
  PROVE  \A u \in Upload : FilingMoves(u)
<1>0. filing \in [Upload -> FilingState]
  BY DEF AnnualTypeInv, AnnualTypeOK, UlbTypeOK
<1>1. UNCHANGED filing => \A u \in Upload : FilingMoves(u)
  BY DEF FilingMoves
<1>2. ASSUME NEW u \in Upload, Confirm(u)
      PROVE  \A v \in Upload : FilingMoves(v)
  <2>1. ASSUME NEW v \in Upload, v # u
        PROVE  filing'[v] = filing[v]
    BY <1>0, <1>2, <2>1 DEF Confirm, CheckUpload, ReadVersion, TouchSection, WriteEntry, PushEntry, CreateHistory,
                       EnqueueUpload, FilingPc
  <2>2. FilingMoves(u)
    <3>1. ASSUME NEW d \in DocId, CheckUpload(u, d)
          PROVE  FilingMoves(u)
      BY <1>0, <2>1, <3>1 DEF FilingMoves, CheckUpload, FilingState
    <3>2. CASE ReadVersion(u)
      BY <1>0, <3>2 DEF FilingMoves, ReadVersion, FilingState
    <3>3. CASE TouchSection(u)
      BY <1>0, <3>3 DEF FilingMoves, TouchSection, FilingPc, Busy, FilingState
    <3>4. CASE WriteEntry(u)
      BY <1>0, <3>4 DEF FilingMoves, WriteEntry, FilingPc, Busy, FilingState
    <3>5. CASE PushEntry(u)
      BY <1>0, <3>5 DEF FilingMoves, PushEntry, FilingPc, Busy, FilingState
    <3>6. CASE CreateHistory(u)
      BY <1>0, <3>6 DEF FilingMoves, CreateHistory, FilingPc, Busy, FilingState
    <3>7. CASE EnqueueUpload(u)
      BY <1>0, <3>7 DEF FilingMoves, EnqueueUpload, FilingPc, Busy, FilingState
    <3>8. QED  BY <1>2, <3>1, <3>2, <3>3, <3>4, <3>5, <3>6, <3>7 DEF Confirm
  <2>3. QED  BY <2>1, <2>2 DEF FilingMoves
<1>3. ASSUME RequestDies
      PROVE  \A v \in Upload : FilingMoves(v)
  <2>1. ASSUME NEW u \in Upload, Busy(u), FilingPc(u, "done"), UNCHANGED annualStore
        PROVE  \A v \in Upload : FilingMoves(v)
    BY <1>0, <1>3, <2>1 DEF FilingMoves, FilingPc, FilingState
  <2>2. QED  BY <1>1, <1>3, <2>1 DEF RequestDies, Busy
<1>4. \A h \in Handler : UlbRequest(h) => UNCHANGED filing
  BY ZenonT(40) DEF UlbRequest, BeginRetry, RetryHistory, RetryEntry, EnqueueRetry, BeginRemove, BeginAsk, RemoveFile,
         AskEntry, AskRow, BeginSubmit, SubmitSection
<1>5. OcrStep => UNCHANGED filing
  BY ZenonT(40) DEF OcrStep, CronTick, StartRun, RecordJob, StillRunning, Claim, ReadStrikes, ApplyResult, WorkerFails,
         ocrUnchanged
<1>6. \A h \in Handler : ReviewRequest(h) => UNCHANGED filing
  BY Zenon DEF ReviewRequest, BeginDocument, BeginRuling, BeginSection, DecideDocument, DecideSection, BeginUndo,
         UndoApproval, RuleEntry, RuleRow, reviewUnchanged
<1>7. QED  BY <1>1, <1>2, <1>3, <1>4, <1>5, <1>6 DEF AnnualNext

\* A request that begins, other than a retry, and what it reads.
Begins(h) ==
  \/ \E d \in DocId : BeginRemove(h, d) /\ req'[h] = [NoRequest EXCEPT !.op = "remove", !.docId = d]
  \/ \E d \in DocId : BeginAsk(h, d) /\ req'[h] = [NoRequest EXCEPT !.op = "ask", !.docId = d, !.on = Entry(d).upload]
  \/ BeginSubmit(h) /\ req'[h] = [NoRequest EXCEPT !.op = "submit"]
  \/ \E d \in DocId, v \in Verdict \cup {NoVerdict} :
       /\ BeginDocument(h, d, v)
       /\ req'[h] = [NoRequest EXCEPT !.op = "document", !.docId = d, !.verdict = v, !.seen = Clock]
  \/ \E d \in DocId, v \in Verdict :
       /\ BeginRuling(h, d, v)
       /\ req'[h] = [NoRequest EXCEPT !.op = "decide", !.docId = d, !.verdict = v, !.on = Entry(d).upload]
  \/ \E v \in Verdict :
       /\ BeginSection(h, v)
       /\ req'[h] = [NoRequest EXCEPT
            !.op = "section", !.verdict = v, !.seen = Clock,
            !.sweep = {documents[i].docId :
                         i \in {j \in DOMAIN documents : Effective(documents[j]) = NoVerdict}}]
  \/ BeginUndo(h) /\ req'[h] = [NoRequest EXCEPT !.op = "undo"]

\* How a request other than an upload moves, when none is a retry: it begins with no other under way,
\* writes its entry, or ends.
RequestMoves(h) ==
  \/ req'[h] = req[h]
  \/ Begins(h) /\ NoneUnderWay /\ UNCHANGED <<annualStore, filing, worker>>
  \/ AskEntry(h) /\ documents[First(req[h].docId)].upload # NoUpload /\ req'[h] = [req[h] EXCEPT !.op = "askRow"]
  \/ RuleEntry(h) /\ req'[h] = [req[h] EXCEPT !.op = "decideRow"]
  \/ /\ req'[h] = NoRequest /\ req[h] # NoRequest
     /\ \/ RemoveFile(h) \/ AskRow(h) \/ SubmitSection(h) \/ DecideDocument(h) \/ DecideSection(h)
        \/ UndoApproval(h) \/ RuleRow(h)
        \/ AskEntry(h) /\ documents[First(req[h].docId)].upload = NoUpload
        \/ RequestDies /\ UNCHANGED annualStore

\* A request that is started.
LEMMA OneStarts ==
  ASSUME AnnualTypeInv, Quiet, OneAtATime, NEW h \in Handler, NEW r, Start(h, r)
  PROVE  /\ NoneUnderWay /\ req'[h] = r /\ r.op # "retry"
         /\ \A g \in Handler : g # h => req'[g] = req[g]
<1>1. req \in [Handler -> Request]
  BY DEF AnnualTypeInv, AnnualTypeOK, UlbTypeOK
<1>2. NoneUnderWay
  BY NoneOpen DEF Start
<1>3. QED  BY <1>1, <1>2 DEF Start, Quiet

LEMMA QuietRequestsMove ==
  ASSUME AnnualTypeInv, AnnualNext, Quiet, OneAtATime
  PROVE  \A h \in Handler : RequestMoves(h)
<1>0. req \in [Handler -> Request] /\ NoRequest.op = "none"
  BY NoRequestTyped DEF AnnualTypeInv, AnnualTypeOK, UlbTypeOK
<1>1. UNCHANGED req => \A h \in Handler : RequestMoves(h)
  BY DEF RequestMoves
<1>2. ASSUME NEW h \in Handler, UlbRequest(h)
      PROVE  \A g \in Handler : RequestMoves(g)
  <2>1. ASSUME NEW u \in Upload, BeginRetry(h, u)
        PROVE  FALSE
    <3> DEFINE r == [NoRequest EXCEPT !.op = "retry", !.on = u, !.docId = history[u].docId,
                                      !.left = {"history", "entry"}]
    <3>1. Start(h, r) /\ r.op = "retry"
      BY <2>1 DEF BeginRetry, NoRequest
    <3> HIDE DEF r
    <3>2. QED  BY <3>1, OneStarts
  <2>2. ~RetryHistory(h) /\ ~RetryEntry(h) /\ ~EnqueueRetry(h)
    BY DEF OneAtATime, RetryHistory, RetryEntry, EnqueueRetry
  <2>3. ASSUME NEW d \in DocId, BeginRemove(h, d)
        PROVE  \A g \in Handler : RequestMoves(g)
    <3> DEFINE r == [NoRequest EXCEPT !.op = "remove", !.docId = d]
    <3>1. Start(h, r)
      BY <2>3 DEF BeginRemove
    <3> HIDE DEF r
    <3>2. /\ NoneUnderWay /\ req'[h] = r
          /\ \A g \in Handler : g # h => req'[g] = req[g]
      BY <3>1, OneStarts
    <3>3. Begins(h)
      BY <2>3, <3>2 DEF Begins, r
    <3>4. QED  BY <2>3, <3>2, <3>3 DEF RequestMoves, BeginRemove
  <2>4. ASSUME NEW d \in DocId, BeginAsk(h, d)
        PROVE  \A g \in Handler : RequestMoves(g)
    <3> DEFINE r == [NoRequest EXCEPT !.op = "ask", !.docId = d, !.on = Entry(d).upload]
    <3>1. Start(h, r)
      BY <2>4 DEF BeginAsk
    <3> HIDE DEF r
    <3>2. /\ NoneUnderWay /\ req'[h] = r
          /\ \A g \in Handler : g # h => req'[g] = req[g]
      BY <3>1, OneStarts
    <3>3. Begins(h)
      BY <2>4, <3>2 DEF Begins, r
    <3>4. QED  BY <2>4, <3>2, <3>3 DEF RequestMoves, BeginAsk
  <2>5. CASE BeginSubmit(h)
    <3> DEFINE r == [NoRequest EXCEPT !.op = "submit"]
    <3>1. Start(h, r)
      BY <2>5 DEF BeginSubmit
    <3> HIDE DEF r
    <3>2. /\ NoneUnderWay /\ req'[h] = r
          /\ \A g \in Handler : g # h => req'[g] = req[g]
      BY <3>1, OneStarts
    <3>3. Begins(h)
      BY <2>5, <3>2 DEF Begins, r
    <3>4. QED  BY <2>5, <3>2, <3>3 DEF RequestMoves, BeginSubmit
  <2>6. CASE RemoveFile(h) \/ AskRow(h) \/ SubmitSection(h)
    <3>1. req[h].op # "none" /\ Finish(h)
      BY <2>6 DEF RemoveFile, AskRow, SubmitSection
    <3>2. req[h] # NoRequest /\ \A g \in Handler : req'[g] = IF g = h THEN NoRequest ELSE req[g]
      BY <1>0, <3>1 DEF Finish
    <3>3. QED  BY <2>6, <3>2 DEF RequestMoves
  <2>7. CASE AskEntry(h)
    BY <1>0, <2>7 DEF AskEntry, RequestMoves, Finish
  <2>8. QED  BY <1>2, <2>1, <2>2, <2>3, <2>4, <2>5, <2>6, <2>7 DEF UlbRequest
<1>3. ASSUME NEW h \in Handler, ReviewRequest(h)
      PROVE  \A g \in Handler : RequestMoves(g)
  <2>1. ASSUME NEW d \in DocId, NEW v \in Verdict \cup {NoVerdict}, BeginDocument(h, d, v)
        PROVE  \A g \in Handler : RequestMoves(g)
    <3> DEFINE r == [NoRequest EXCEPT !.op = "document", !.docId = d, !.verdict = v, !.seen = Clock]
    <3>1. Start(h, r)
      BY <2>1 DEF BeginDocument
    <3> HIDE DEF r
    <3>2. /\ NoneUnderWay /\ req'[h] = r
          /\ \A g \in Handler : g # h => req'[g] = req[g]
      BY <3>1, OneStarts
    <3>3. Begins(h)
      BY <2>1, <3>2 DEF Begins, r
    <3>4. QED  BY <2>1, <3>2, <3>3 DEF RequestMoves, BeginDocument
  <2>2. ASSUME NEW d \in DocId, NEW v \in Verdict, BeginRuling(h, d, v)
        PROVE  \A g \in Handler : RequestMoves(g)
    <3> DEFINE r == [NoRequest EXCEPT !.op = "decide", !.docId = d, !.verdict = v, !.on = Entry(d).upload]
    <3>1. Start(h, r)
      BY <2>2 DEF BeginRuling
    <3> HIDE DEF r
    <3>2. /\ NoneUnderWay /\ req'[h] = r
          /\ \A g \in Handler : g # h => req'[g] = req[g]
      BY <3>1, OneStarts
    <3>3. Begins(h)
      BY <2>2, <3>2 DEF Begins, r
    <3>4. QED  BY <2>2, <3>2, <3>3 DEF RequestMoves, BeginRuling
  <2>3. ASSUME NEW v \in Verdict, BeginSection(h, v)
        PROVE  \A g \in Handler : RequestMoves(g)
    <3> DEFINE r == [NoRequest EXCEPT !.op = "section", !.verdict = v, !.seen = Clock,
                        !.sweep = {documents[i].docId :
                                     i \in {j \in DOMAIN documents : Effective(documents[j]) = NoVerdict}}]
    <3>1. Start(h, r)
      BY <2>3 DEF BeginSection
    <3> HIDE DEF r
    <3>2. /\ NoneUnderWay /\ req'[h] = r
          /\ \A g \in Handler : g # h => req'[g] = req[g]
      BY <3>1, OneStarts
    <3>3. Begins(h)
      BY <2>3, <3>2, Zenon DEF Begins, r
    <3>4. QED  BY <2>3, <3>2, <3>3 DEF RequestMoves, BeginSection
  <2>4. CASE BeginUndo(h)
    <3> DEFINE r == [NoRequest EXCEPT !.op = "undo"]
    <3>1. Start(h, r)
      BY <2>4 DEF BeginUndo
    <3> HIDE DEF r
    <3>2. /\ NoneUnderWay /\ req'[h] = r
          /\ \A g \in Handler : g # h => req'[g] = req[g]
      BY <3>1, OneStarts
    <3>3. Begins(h)
      BY <2>4, <3>2 DEF Begins, r
    <3>4. QED  BY <2>4, <3>2, <3>3 DEF RequestMoves, BeginUndo
  <2>5. CASE DecideDocument(h) \/ DecideSection(h) \/ UndoApproval(h) \/ RuleRow(h)
    <3>1. req[h].op # "none" /\ Finish(h)
      BY <2>5 DEF DecideDocument, DecideSection, UndoApproval, RuleRow
    <3>2. req[h] # NoRequest /\ \A g \in Handler : req'[g] = IF g = h THEN NoRequest ELSE req[g]
      BY <1>0, <3>1 DEF Finish
    <3>3. QED  BY <2>5, <3>2 DEF RequestMoves
  <2>6. CASE RuleEntry(h)
    BY <1>0, <2>6 DEF RuleEntry, RequestMoves
  <2>7. QED  BY <1>3, <2>1, <2>2, <2>3, <2>4, <2>5, <2>6 DEF ReviewRequest
<1>4. ASSUME RequestDies
      PROVE  \A g \in Handler : RequestMoves(g)
  <2>1. ASSUME NEW h \in Handler, req[h] # NoRequest, Finish(h), UNCHANGED annualStore
        PROVE  \A g \in Handler : RequestMoves(g)
    BY <1>0, <1>4, <2>1 DEF RequestMoves, Finish
  <2>2. QED  BY <1>1, <1>4, <2>1 DEF RequestDies
<1>5. \A u \in Upload : Confirm(u) => UNCHANGED req
  BY Zenon DEF Confirm, CheckUpload, ReadVersion, TouchSection, WriteEntry, PushEntry, CreateHistory, EnqueueUpload
<1>6. OcrStep => UNCHANGED req
  BY Zenon DEF OcrStep, CronTick, StartRun, RecordJob, StillRunning, Claim, ReadStrikes, ApplyResult, WorkerFails,
         ocrUnchanged
<1>7. QED  BY <1>1, <1>2, <1>3, <1>4, <1>5, <1>6 DEF AnnualNext

\* One request at a time stays so.
LEMMA OneAtATimeStays ==
  ASSUME AnnualTypeInv, AnnualNext, Quiet, OneAtATime
  PROVE  OneAtATime'
<1>0. /\ req \in [Handler -> Request] /\ filing \in [Upload -> FilingState]
      /\ NoRequest.op = "none" /\ NoRequest \in Request
  BY NoRequestTyped DEF AnnualTypeInv, AnnualTypeOK, UlbTypeOK
<1>1. \A u \in Upload : FilingMoves(u)
  BY FilingsMove
<1>2. \A h \in Handler : RequestMoves(h)
  BY QuietRequestsMove
<1>3. ASSUME NEW u \in Upload, Busy(u)', ~Busy(u)
      PROVE  /\ \A v \in Upload : v # u => ~Busy(v)'
             /\ \A h \in Handler : req'[h] = NoRequest
  <2>1. \E d \in DocId : CheckUpload(u, d)
    BY <1>1, <1>3, Zenon DEF FilingMoves, Busy, ReadVersion
  <2>2. NoneUnderWay /\ UNCHANGED req
    BY <2>1, NoneOpen DEF CheckUpload
  <2>3. \A v \in Upload : v # u => filing'[v] = filing[v]
    BY <1>0, <2>1 DEF CheckUpload
  <2>4. QED  BY <2>2, <2>3 DEF NoneUnderWay, Busy
<1>4. ASSUME NEW h \in Handler, req'[h] # NoRequest, req[h] = NoRequest
      PROVE  /\ \A g \in Handler : g # h => req'[g] = NoRequest
             /\ \A u \in Upload : ~Busy(u)'
  <2>1. Begins(h) /\ NoneUnderWay /\ UNCHANGED filing
    BY <1>0, <1>2, <1>4 DEF RequestMoves, AskEntry, RuleEntry, annualStore
  <2>2. \A g \in Handler : g # h => req'[g] = req[g]
    BY <1>0, <2>1 DEF Begins, BeginRemove, BeginAsk, BeginSubmit, BeginDocument, BeginRuling, BeginSection,
                      BeginUndo, Start
  <2>3. QED  BY <2>1, <2>2 DEF NoneUnderWay, Busy
<1>5. \A h \in Handler : req'[h].op \notin {"retry", "broken"}
  <2>1. ASSUME NEW h \in Handler, Begins(h)
        PROVE  req'[h].op \notin {"retry", "broken"}
    BY <2>1 DEF Begins, NoRequest
  <2>2. ASSUME NEW h \in Handler
        PROVE  req'[h].op \notin {"retry", "broken"}
    <3>1. req[h] \in Request /\ RequestMoves(h) /\ req[h].op \notin {"retry", "broken"}
      BY <1>0, <1>2 DEF OneAtATime
    <3>2. \A op : [req[h] EXCEPT !.op = op].op = op
      BY <3>1 DEF Request
    <3>3. QED  BY <1>0, <2>1, <3>1, <3>2 DEF RequestMoves
  <2>3. QED  BY <2>2
<1>6. \A u, v \in Upload : Busy(u)' /\ Busy(v)' => u = v
  BY <1>3 DEF OneAtATime
<1>7. \A g, h \in Handler : req'[g] # NoRequest /\ req'[h] # NoRequest => g = h
  BY <1>4 DEF OneAtATime
<1>8. \A u \in Upload, h \in Handler : Busy(u)' => req'[h] = NoRequest
  BY <1>3, <1>4 DEF OneAtATime
<1>9. QED  BY <1>5, <1>6, <1>7, <1>8 DEF OneAtATime

-----------------------------------------------------------------------------
(* Annual accounts: a file that is reviewed stays                          *)

\* The run has seen the end of the OCR and has yet to tell the entry.
Claiming(w) == worker[w].pc \in {"claimed", "apply"}

\* The OCR of u has ended, and the entry was told.
Over(u) ==
  /\ history[u] # NoRow /\ history[u].processing # "PROCESSING"
  /\ \A w \in Worker : w[1] = u => ~Claiming(w)

\* An upload is claimed once.
OneClaim ==
  /\ \A w \in Worker : Claiming(w) => history[w[1]].processing # "PROCESSING"
  /\ \A v, w \in Worker : v[1] = w[1] /\ Claiming(v) /\ Claiming(w) => v = w

\* A row that has left PROCESSING does not come back without a retry.
LEMMA SettledStays ==
  ASSUME AnnualTypeInv, AnnualNext, OneAtATime, NEW u \in Upload,
         history[u] # NoRow, history[u].processing # "PROCESSING"
  PROVE  history'[u] # NoRow /\ history'[u].processing # "PROCESSING"
<1>1. RowMoves(u)
  BY RowsMove
<1>2. QED  BY <1>1 DEF RowMoves, OneAtATime, RetryHistory, Claimable

\* What begins to be claimed was PROCESSING, and is claimed by this run alone.
LEMMA ClaimsBegin ==
  ASSUME AnnualTypeInv, AnnualNext, OneClaim, NEW w \in Worker, Claiming(w)', ~Claiming(w)
  PROVE  /\ history[w[1]] # NoRow /\ history[w[1]].processing = "PROCESSING"
         /\ history'[w[1]] # NoRow /\ history'[w[1]].processing # "PROCESSING"
         /\ \A v \in Worker : v # w => worker'[v] = worker[v]
<1>0. /\ worker \in [Worker -> WorkerState] /\ history \in [Upload -> HistoryRow \cup {NoRow}] /\ w[1] \in Upload
      /\ WorkerInv
  BY RestTyped DEF AnnualTypeInv, AnnualTypeOK, AnnualStoreTypeOK, UlbTypeOK
<1>1. WorkerMoves(w)
  BY WorkersMove
<1>2. PICK result \in {"PASS", "FAIL", "ERROR"} : Claim(w, result) /\ Claimable(w[1])
  BY <1>1 DEF WorkerMoves, Claiming
<1>3. history[w[1]] # NoRow /\ history[w[1]] \in HistoryRow /\ history[w[1]].processing = "PROCESSING"
  BY <1>0, <1>2 DEF Claim, Claimable, WorkerInv
<1>4. history'[w[1]] = Settled(history[w[1]], result)
  BY <1>0, <1>2 DEF Claim
<1>5. history'[w[1]] # NoRow /\ history'[w[1]].processing # "PROCESSING"
  BY <1>3, <1>4, SettledRow, RowsAreRows, ZenonT(40) DEF Settled, HistoryRow
<1>6. \A v \in Worker : v # w => worker'[v] = worker[v]
  BY <1>0, <1>2 DEF Claim
<1>7. QED  BY <1>3, <1>5, <1>6

\* What is over stays over.
LEMMA OverStays ==
  ASSUME AnnualTypeInv, AnnualNext, OneAtATime, OneClaim, NEW u \in Upload, Over(u)
  PROVE  Over(u)'
<1>1. history'[u] # NoRow /\ history'[u].processing # "PROCESSING"
  BY SettledStays DEF Over
<1>2. \A w \in Worker : w[1] = u => ~Claiming(w)'
  BY ClaimsBegin DEF Over
<1>3. QED  BY <1>1, <1>2 DEF Over

LEMMA OneClaimStays ==
  ASSUME AnnualTypeInv, AnnualNext, OneAtATime, OneClaim
  PROVE  OneClaim'
<1>0. WorkerInv /\ \A w \in Worker : w[1] \in Upload
  BY RestTyped DEF AnnualTypeInv
<1>1. ASSUME NEW w \in Worker, Claiming(w)'
      PROVE  history'[w[1]].processing # "PROCESSING"
  <2>1. CASE Claiming(w)
    BY <1>0, <2>1, SettledStays DEF OneClaim, WorkerInv, Claiming
  <2>2. CASE ~Claiming(w)
    BY <1>1, <2>2, ClaimsBegin
  <2>3. QED  BY <2>1, <2>2
<1>2. ASSUME NEW v \in Worker, NEW w \in Worker, v[1] = w[1], Claiming(v)', Claiming(w)', v # w, ~Claiming(v)
      PROVE  FALSE
  <2>1. history[w[1]].processing = "PROCESSING" /\ worker'[w] = worker[w]
    BY <1>2, ClaimsBegin
  <2>2. QED  BY <1>2, <2>1 DEF OneClaim, Claiming
<1>3. QED  BY <1>1, <1>2 DEF OneClaim

\* A document has one entry, and a file is in the entry of its document only.
OneEntry ==
  /\ \A i, j \in DOMAIN documents : documents[i].docId = documents[j].docId => i = j
  /\ \A i \in DOMAIN documents : documents[i].upload # NoUpload =>
       /\ filing[documents[i].upload].docId = documents[i].docId
       /\ filing[documents[i].upload].pc \in {"slotted", "recorded", "done"}
  /\ \A u \in Upload, i \in DOMAIN documents :
       filing[u].pc = "push" => documents[i].docId # filing[u].docId

\* What passed or has a verdict is not changed by the OCR any more, and only such a file is reviewed.
VerdictStands ==
  \A i \in DOMAIN documents :
    /\ documents[i].upload # NoUpload /\ (Passed(documents[i]) \/ documents[i].validation # "NONE") =>
         Over(documents[i].upload)
    /\ documents[i].requested => documents[i].upload # NoUpload /\ documents[i].validation # "NONE"
    /\ documents[i].upload = NoUpload => documents[i].processing = "NOT_STARTED"

\* What an open request has read of the entry of its document still holds.
ReadsHold ==
  \A i \in DOMAIN documents :
    /\ \A u \in Upload :
         filing[u].pc \in {"checked", "counted", "touched"} /\ filing[u].docId = documents[i].docId =>
           ~Awaiting(documents[i])
    /\ \A h \in Handler : req[h].docId = documents[i].docId =>
         /\ req[h].op = "remove" => ~Awaiting(documents[i])
         /\ req[h].op = "ask" => /\ documents[i].upload = req[h].on /\ documents[i].validation # "NONE"
                                 /\ ~documents[i].requested
         /\ req[h].op = "decide" => documents[i].upload = req[h].on /\ documents[i].requested

QuietReviews == OneAtATime /\ OneClaim /\ OneEntry /\ VerdictStands /\ ReadsHold

QuietInv == Quiet => QuietReviews

LEMMA OnlyEntry ==
  ASSUME documents \in Seq(DocumentItem), OneEntry, NEW i \in DOMAIN documents
  PROVE  HasEntry(documents[i].docId) /\ First(documents[i].docId) = i /\ Entry(documents[i].docId) = documents[i]
<1>1. HasEntry(documents[i].docId)
  BY DEF HasEntry, Entries
<1>2. QED  BY <1>1, FirstIsEntry DEF OneEntry, Entry

\* Entries never go.
LEMMA EntriesStay ==
  ASSUME AnnualTypeInv, AnnualNext, NEW i \in DOMAIN documents
  PROVE  i \in DOMAIN documents' /\ documents'[i].docId = documents[i].docId
<1>1. DOMAIN documents \subseteq DOMAIN documents'
  <2>1. ASSUME NEW u \in Upload, Confirm(u)
        PROVE  DOMAIN documents \subseteq DOMAIN documents'
    <3>1. documents \in Seq(DocumentItem)
      BY DEF AnnualTypeInv, AnnualTypeOK, AnnualStoreTypeOK
    <3>2. CASE PushEntry(u)
      BY <3>1, <3>2 DEF PushEntry
    <3>3. CASE WriteEntry(u)
      BY <3>3 DEF WriteEntry
    <3>4. CASE UNCHANGED documents
      BY <3>4
    <3>5. QED
      BY <2>1, <3>2, <3>3, <3>4 DEF Confirm, CheckUpload, ReadVersion, TouchSection, CreateHistory, EnqueueUpload,
                                   annualStore
  <2>2. ASSUME NEW h \in Handler, UlbRequest(h)
        PROVE  DOMAIN documents = DOMAIN documents'
    <3>1. CASE RetryEntry(h) \/ RemoveFile(h) \/ AskEntry(h)
      BY <3>1 DEF RetryEntry, RemoveFile, AskEntry
    <3>2. CASE UNCHANGED documents
      BY <3>2
    <3>3. QED
      BY <2>2, <3>1, <3>2, Zenon DEF UlbRequest, BeginRetry, RetryHistory, EnqueueRetry, BeginRemove, BeginAsk, AskRow,
                              BeginSubmit, SubmitSection, annualStore
  <2>3. OcrStep => DOMAIN documents = DOMAIN documents'
    BY Zenon DEF OcrStep, CronTick, StartRun, RecordJob, StillRunning, Claim, ReadStrikes, ApplyResult, WorkerFails
  <2>4. CooldownEnds => DOMAIN documents = DOMAIN documents'
    BY DEF CooldownEnds
  <2>5. ASSUME NEW h \in Handler, ReviewRequest(h)
        PROVE  DOMAIN documents = DOMAIN documents'
    <3>1. CASE DecideDocument(h) \/ DecideSection(h) \/ UndoApproval(h) \/ RuleEntry(h)
      BY <3>1 DEF DecideDocument, DecideSection, UndoApproval, RuleEntry
    <3>2. CASE UNCHANGED documents
      BY <3>2
    <3>3. QED
      BY <2>5, <3>1, <3>2 DEF ReviewRequest, BeginDocument, BeginRuling, BeginSection, BeginUndo, RuleRow, annualStore
  <2>6. RequestDies => UNCHANGED documents
    BY DEF RequestDies, annualStore
  <2>7. QED  BY <2>1, <2>2, <2>3, <2>4, <2>5, <2>6 DEF AnnualNext
<1>2. i \in DOMAIN documents' /\ EntryMoves(i)
  BY <1>1, EntriesMove
<1>3. QED  BY <1>2 DEF EntryMoves

\* The OCR tells only an entry that is not reviewed.
LEMMA ResultsBeforeReview ==
  ASSUME AnnualTypeInv, OneClaim, VerdictStands, NEW w \in Worker, NEW i \in DOMAIN documents,
         ApplyResult(w), documents[i].upload = w[1]
  PROVE  /\ documents[i].validation = "NONE" /\ ~Passed(documents[i]) /\ documents[i].requested = FALSE
         /\ Claiming(w) /\ documents[i].upload # NoUpload
<1>0. documents[i] \in DocumentItem /\ w[1] \in Upload /\ w[1] # NoUpload
  BY RestTyped, UploadAssumption DEF AnnualTypeInv, AnnualTypeOK, AnnualStoreTypeOK
<1>1. Claiming(w)
  BY DEF ApplyResult, Claiming
<1>2. ~Over(w[1])
  BY <1>1 DEF Over
<1>3. QED  BY <1>0, <1>1, <1>2 DEF VerdictStands, DocumentItem

\* A result goes to an entry that is not reviewed, and leaves what it says of the review.
LEMMA ResultGiven ==
  ASSUME AnnualTypeInv, OneClaim, VerdictStands, NEW w \in Worker, NEW i \in DOMAIN documents,
         ApplyResult(w), documents[i].upload = w[1], documents'[i] = WithResult(documents[i], worker[w])
  PROVE  /\ documents'[i].upload = documents[i].upload /\ documents'[i].requested = FALSE
         /\ documents[i].requested = FALSE /\ documents[i].validation = "NONE" /\ ~Passed(documents[i])
         /\ documents'[i].processing # "NOT_STARTED"
<1>1. documents[i] \in DocumentItem /\ worker[w] \in WorkerState
  BY DEF AnnualTypeInv, AnnualTypeOK, AnnualStoreTypeOK, UlbTypeOK
<1>2. /\ documents'[i].upload = documents[i].upload /\ documents'[i].requested = documents[i].requested
      /\ documents'[i].processing \in {"PASSED", "FAILED"}
  BY <1>1, ItemWithResult
<1>3. QED  BY <1>2, ResultsBeforeReview

\* The upload whose result is told is over then.
LEMMA OverWhenTold ==
  ASSUME AnnualTypeInv, AnnualNext, OneAtATime, OneClaim, NEW w \in Worker, ApplyResult(w)
  PROVE  Over(w[1])'
<1>1. /\ w[1] \in Upload /\ history[w[1]] # NoRow /\ history[w[1]].processing # "PROCESSING" /\ Claiming(w)
  BY RestTyped DEF AnnualTypeInv, WorkerInv, ApplyResult, OneClaim, Claiming
<1>2. history'[w[1]] # NoRow /\ history'[w[1]].processing # "PROCESSING"
  BY <1>1, SettledStays
<1>3. ASSUME NEW v \in Worker, v[1] = w[1], Claiming(v)'
      PROVE  FALSE
  <2>1. Claiming(v)
    BY <1>1, <1>3, ClaimsBegin
  <2>2. v = w
    BY <1>1, <1>3, <2>1 DEF OneClaim
  <2>3. worker'[w].pc = Rest(w).pc
    BY DEF ApplyResult, AnnualTypeInv, AnnualTypeOK, UlbTypeOK
  <2>4. QED  BY <1>3, <2>2, <2>3, RestTyped DEF Claiming
<1>4. QED  BY <1>2, <1>3 DEF Over

\* What the ADMIN's decision leaves of an entry.
LEMMA RulingKeeps ==
  ASSUME NEW item \in DocumentItem, NEW v \in Verdict
  PROVE  /\ Ruling(item, v).validation = item.validation /\ Ruling(item, v).decision = item.decision
         /\ Ruling(item, v).processing \in {item.processing, "PASSED"}
BY DEF Ruling, DocumentItem

LEMMA RuledEntry ==
  ASSUME AnnualTypeInv, NEW h \in Handler, NEW i \in DOMAIN documents, RuleEntry(h),
         documents'[i] = Ruling(documents[i], req[h].verdict)
  PROVE  /\ documents'[i].upload = documents[i].upload /\ documents'[i].requested = documents[i].requested
         /\ documents'[i].validation = documents[i].validation /\ documents'[i].decision = documents[i].decision
         /\ documents'[i].processing \in {documents[i].processing, "PASSED"}
<1>1. documents[i] \in DocumentItem /\ req[h].verdict \in Verdict
  BY DEF AnnualTypeInv, AnnualTypeOK, AnnualStoreTypeOK, RequestInv, RuleEntry
<1>2. QED  BY <1>1, RulingItem, RulingKeeps

LEMMA VerdictStandsStays ==
  ASSUME AnnualTypeInv, AnnualTypeInv', AnnualNext, Quiet, QuietReviews
  PROVE  VerdictStands'
<1>0. OneAtATime /\ OneClaim /\ OneEntry /\ VerdictStands /\ ReadsHold
  BY DEF QuietReviews
<1>1. ASSUME NEW i \in DOMAIN documents'
      PROVE  /\ documents'[i].upload # NoUpload /\ (Passed(documents'[i]) \/ documents'[i].validation # "NONE") =>
                  \A u \in Upload : documents'[i].upload = u => Over(u)'
             /\ documents'[i].requested => documents'[i].upload # NoUpload /\ documents'[i].validation # "NONE"
             /\ documents'[i].upload = NoUpload => documents'[i].processing = "NOT_STARTED"
  <2>0. EntryMoves(i) /\ documents'[i] \in DocumentItem /\ (i \in DOMAIN documents => documents[i] \in DocumentItem)
    BY EntriesMove DEF AnnualTypeInv, AnnualTypeOK, AnnualStoreTypeOK
  <2>1. CASE documents'[i].validation = "NONE" /\ documents'[i].requested = FALSE
             /\ (\/ documents'[i].processing = "PROCESSING" /\ documents'[i].upload # NoUpload
                 \/ documents'[i].processing = "NOT_STARTED")
    BY <2>1 DEF Passed
  <2>2. CASE i \in DOMAIN documents /\ SameFile(i) /\ documents'[i].requested = documents[i].requested
    <3>1. documents[i].upload # NoUpload => documents[i].upload \in Upload
      BY <2>0, <2>2 DEF DocumentItem
    <3>2. QED  BY <1>0, <2>2, <3>1, OverStays DEF VerdictStands, SameFile, Passed
  <2>3. ASSUME NEW h \in Handler, i \in DOMAIN documents, AskEntry(h), documents[i].docId = req[h].docId,
               documents[i].upload # NoUpload, SameFile(i)
        PROVE  /\ documents'[i].validation # "NONE" /\ documents'[i].upload # NoUpload
               /\ \A u \in Upload : documents'[i].upload = u => Over(u)'
    <3>1. documents[i].upload \in Upload /\ documents[i].validation # "NONE"
      BY <1>0, <2>0, <2>3 DEF DocumentItem, ReadsHold, AskEntry
    <3>2. QED  BY <1>0, <2>3, <3>1, OverStays DEF VerdictStands, SameFile
  <2>4. ASSUME NEW w \in Worker, i \in DOMAIN documents, ApplyResult(w), documents[i].upload = w[1],
               documents'[i] = WithResult(documents[i], worker[w])
        PROVE  /\ documents'[i].requested = FALSE /\ documents'[i].upload # NoUpload /\ \A u \in Upload : documents'[i].upload = u => Over(u)'
    BY <1>0, <2>4, ResultGiven, OverWhenTold, ResultsBeforeReview
  <2>5. ASSUME NEW h \in Handler, i \in DOMAIN documents, RuleEntry(h), documents[i].docId = req[h].docId,
               documents'[i] = Ruling(documents[i], req[h].verdict)
        PROVE  /\ documents'[i].validation # "NONE" /\ documents'[i].upload # NoUpload
               /\ \A u \in Upload : documents'[i].upload = u => Over(u)'
    <3>1. documents[i].requested
      BY <1>0, <2>5 DEF ReadsHold, RuleEntry
    <3>2. documents[i].upload # NoUpload /\ documents[i].upload \in Upload /\ documents[i].validation # "NONE"
      BY <1>0, <2>0, <2>5, <3>1 DEF DocumentItem, VerdictStands
    <3>3. QED  BY <1>0, <2>5, <3>2, OverStays, RuledEntry DEF VerdictStands
  <2>6. \A h \in Handler : ~RetryEntry(h)
    BY <1>0 DEF OneAtATime, RetryEntry
  <2>7. QED
    BY <2>0, <2>1, <2>2, <2>3, <2>4, <2>5, <2>6, UploadAssumption DEF EntryMoves, SetBack
<1>2. ASSUME NEW i \in DOMAIN documents', documents'[i].upload # NoUpload
      PROVE  documents'[i].upload \in Upload
  <2>1. documents'[i] \in DocumentItem
    BY <1>2 DEF AnnualTypeInv, AnnualTypeOK, AnnualStoreTypeOK
  <2>2. QED  BY <1>2, <2>1 DEF DocumentItem
<1>3. QED  BY <1>1, <1>2 DEF VerdictStands, Passed, Over, Claiming

\* The upload that has its file in an entry keeps its document.
LEMMA SlottedStays ==
  ASSUME AnnualTypeInv, AnnualNext, NEW u \in Upload, filing[u].pc \in {"slotted", "recorded", "done"}
  PROVE  filing'[u].docId = filing[u].docId /\ filing'[u].pc \in {"slotted", "recorded", "done"}
<1>1. FilingMoves(u)
  BY FilingsMove
<1>2. QED
  BY <1>1 DEF FilingMoves, CheckUpload, ReadVersion, TouchSection, WriteEntry, PushEntry, CreateHistory, EnqueueUpload

LEMMA OneEntryStays ==
  ASSUME AnnualTypeInv, AnnualNext, Quiet, QuietReviews
  PROVE  OneEntry'
<1>0. /\ OneAtATime /\ OneClaim /\ OneEntry /\ VerdictStands /\ NoUpload \notin Upload
      /\ \A i \in DOMAIN documents : documents[i] \in DocumentItem
  BY UploadAssumption DEF QuietReviews, AnnualTypeInv, AnnualTypeOK, AnnualStoreTypeOK
<1>1. \A i \in DOMAIN documents' : EntryMoves(i)
  BY EntriesMove
<1>2. \A u \in Upload : FilingMoves(u)
  BY FilingsMove
<1>3. ASSUME NEW u \in Upload, PushEntry(u) \/ WriteEntry(u)
      PROVE  /\ filing'[u].docId = filing[u].docId /\ filing'[u].pc \in {"push", "slotted"}
             /\ PushEntry(u) \/ ~UNCHANGED documents => filing'[u].pc = "slotted"
  BY <1>3 DEF PushEntry, WriteEntry, FilingPc, AnnualTypeInv, AnnualTypeOK, UlbTypeOK, FilingState
<1>4. ASSUME NEW i \in DOMAIN documents', NEW j \in DOMAIN documents', documents'[i].docId = documents'[j].docId
      PROVE  i = j
  <2>1. ASSUME NEW k \in DOMAIN documents', NEW l \in DOMAIN documents, k \notin DOMAIN documents
        PROVE  documents'[k].docId # documents[l].docId
    <3>1. PICK u \in Upload : PushEntry(u) /\ documents'[k].docId = filing[u].docId
      BY <1>1, <2>1 DEF EntryMoves
    <3>2. filing[u].pc = "push"
      BY <3>1 DEF PushEntry
    <3>3. QED  BY <1>0, <2>1, <3>1, <3>2 DEF OneEntry
  <2>2. ASSUME NEW k \in DOMAIN documents', k \in DOMAIN documents
        PROVE  documents'[k].docId = documents[k].docId
    BY <1>1, <2>2 DEF EntryMoves
  <2>3. CASE i \in DOMAIN documents /\ j \in DOMAIN documents
    BY <1>0, <1>4, <2>2, <2>3 DEF OneEntry
  <2>4. CASE i \notin DOMAIN documents /\ j \notin DOMAIN documents
    BY <1>1, <2>4 DEF EntryMoves
  <2>5. QED  BY <1>4, <2>1, <2>2, <2>3, <2>4
<1>5. ASSUME NEW i \in DOMAIN documents', NEW u \in Upload, documents'[i].upload = u
      PROVE  filing'[u].docId = documents'[i].docId /\ filing'[u].pc \in {"slotted", "recorded", "done"}
  <2>1. CASE i \in DOMAIN documents /\ documents[i].upload = u
    BY <1>0, <1>1, <2>1, SlottedStays DEF OneEntry, EntryMoves
  <2>2. ASSUME NEW w \in Worker, i \in DOMAIN documents, ApplyResult(w), documents[i].upload = w[1],
               documents'[i] = WithResult(documents[i], worker[w])
        PROVE  documents[i].upload = u
    BY <1>0, <1>5, <2>2, ResultGiven
  <2>3. ASSUME NEW h \in Handler, i \in DOMAIN documents, RuleEntry(h),
               documents'[i] = Ruling(documents[i], req[h].verdict)
        PROVE  documents[i].upload = u
    BY <1>5, <2>3, RuledEntry
  <2>4. CASE PushEntry(u) /\ documents'[i].docId = filing[u].docId
    BY <1>3, <2>4
  <2>5. ASSUME WriteEntry(u), i \in DOMAIN documents, documents[i].docId = filing[u].docId,
               documents'[i].docId = documents[i].docId, documents[i].upload # u
        PROVE  filing'[u].docId = documents'[i].docId /\ filing'[u].pc \in {"slotted", "recorded", "done"}
    BY <1>3, <1>5, <2>5
  <2>6. QED
    BY <1>0, <1>1, <1>5, <2>1, <2>2, <2>3, <2>4, <2>5 DEF EntryMoves, SameFile
<1>6. ASSUME NEW u \in Upload, NEW i \in DOMAIN documents', filing'[u].pc = "push"
      PROVE  documents'[i].docId # filing'[u].docId
  <2>1. CASE WriteEntry(u)
    <3>1. documents' = documents /\ filing'[u].docId = filing[u].docId
      BY <1>3, <1>6, <2>1
    <3>2. ~HasEntry(filing[u].docId)
      BY <1>6, <2>1 DEF WriteEntry, FilingPc, AnnualTypeInv, AnnualTypeOK, UlbTypeOK, FilingState
    <3>3. QED  BY <3>1, <3>2 DEF HasEntry, Entries
  <2>2. CASE filing'[u] = filing[u] /\ i \in DOMAIN documents
    BY <1>0, <1>1, <1>6, <2>2 DEF OneEntry, EntryMoves
  <2>3. CASE filing'[u] = filing[u] /\ i \notin DOMAIN documents
    <3>1. PICK v \in Upload : PushEntry(v)
      BY <1>1, <2>3 DEF EntryMoves
    <3>2. v = u
      BY <1>0, <1>6, <2>3, <3>1 DEF OneAtATime, Busy, PushEntry
    <3>3. QED  BY <1>3, <1>6, <3>1, <3>2
  <2>4. QED  BY <1>2, <1>6, <2>1, <2>2, <2>3 DEF FilingMoves
<1>7. \A i \in DOMAIN documents' : documents'[i].upload # NoUpload => documents'[i].upload \in Upload
  <2>1. ASSUME NEW i \in DOMAIN documents', documents'[i].upload # NoUpload
        PROVE  documents'[i].upload \in Upload
    <3>1. CASE i \in DOMAIN documents /\ documents'[i].upload = documents[i].upload
      BY <1>0, <2>1, <3>1 DEF DocumentItem
    <3>2. ASSUME NEW w \in Worker, i \in DOMAIN documents, ApplyResult(w), documents[i].upload = w[1],
                 documents'[i] = WithResult(documents[i], worker[w])
          PROVE  documents'[i].upload = documents[i].upload
      BY <1>0, <3>2, ResultGiven
    <3>3. ASSUME NEW h \in Handler, i \in DOMAIN documents, RuleEntry(h),
                 documents'[i] = Ruling(documents[i], req[h].verdict)
          PROVE  documents'[i].upload = documents[i].upload
      BY <3>3, RuledEntry
    <3>4. QED  BY <1>1, <2>1, <3>1, <3>2, <3>3 DEF EntryMoves, SameFile
  <2>2. QED  BY <2>1
<1>8. QED  BY <1>4, <1>5, <1>6, <1>7 DEF OneEntry

\* A step that is no request's, and no upload's, leaves an entry as it is or gives it a result.
LEMMA EntryOfOthers ==
  ASSUME AnnualTypeInv, AnnualNext, OneAtATime, OneClaim, VerdictStands, NEW i \in DOMAIN documents,
         \A u \in Upload : ~PushEntry(u) /\ ~WriteEntry(u),
         \A h \in Handler : ~RemoveFile(h) /\ ~AskEntry(h) /\ ~RuleEntry(h)
  PROVE  \/ /\ SameFile(i) /\ documents'[i].requested = documents[i].requested
            /\ documents'[i].review = documents[i].review
         \/ /\ documents'[i].requested = FALSE /\ documents[i].requested = FALSE
            /\ documents[i].validation = "NONE" /\ documents'[i].upload = documents[i].upload
<1>1. i \in DOMAIN documents' /\ EntryMoves(i)
  BY EntriesStay, EntriesMove
<1>2. \A h \in Handler : ~RetryEntry(h)
  BY DEF OneAtATime, RetryEntry
<1>3. QED  BY <1>1, <1>2, ResultGiven DEF EntryMoves

LEMMA ReadsHoldStays ==
  ASSUME AnnualTypeInv, AnnualNext, Quiet, QuietReviews
  PROVE  ReadsHold'
<1>0. /\ OneAtATime /\ OneClaim /\ OneEntry /\ VerdictStands /\ ReadsHold
      /\ documents \in Seq(DocumentItem) /\ req \in [Handler -> Request] /\ NoRequest.op = "none"
      /\ filing \in [Upload -> FilingState]
  BY NoRequestTyped DEF QuietReviews, AnnualTypeInv, AnnualTypeOK, AnnualStoreTypeOK, UlbTypeOK
<1>1. ASSUME NEW i \in DOMAIN documents', NEW u \in Upload, filing'[u].pc \in {"checked", "counted", "touched"},
             filing'[u].docId = documents'[i].docId
      PROVE  ~Awaiting(documents'[i])
  <2>1. FilingMoves(u)
    BY FilingsMove
  <2>2. ASSUME NEW d \in DocId, CheckUpload(u, d), filing'[u].docId = d
        PROVE  ~Awaiting(documents'[i])
    <3>1. /\ documents' = documents /\ documents[i].docId = d
          /\ HasEntry(d) => OpenToUlb(Entry(d))
      BY <1>1, <2>2 DEF CheckUpload, annualStore
    <3>2. QED  BY <1>0, <3>1, OnlyEntry DEF OpenToUlb
  <2>3. CASE Busy(u) /\ filing'[u].docId = filing[u].docId
             /\ filing[u].pc \in {"checked", "counted", "touched"}
    <3>1. \A v \in Upload : ~PushEntry(v) /\ ~WriteEntry(v)
      <4>1. ASSUME NEW v \in Upload, PushEntry(v) \/ WriteEntry(v)
            PROVE  v = u /\ filing'[v].pc \in {"push", "slotted"}
        BY <1>0, <2>3, <4>1 DEF OneAtATime, Busy, PushEntry, WriteEntry, FilingPc, FilingState
      <4>2. QED  BY <1>1, <4>1
    <3>2. \A h \in Handler : ~RemoveFile(h) /\ ~AskEntry(h) /\ ~RuleEntry(h)
      BY <1>0, <2>3 DEF OneAtATime, RemoveFile, AskEntry, RuleEntry
    <3>3. i \in DOMAIN documents /\ documents'[i].docId = documents[i].docId
      BY <1>1, <3>1, EntriesMove DEF EntryMoves
    <3>4. ~Awaiting(documents[i])
      BY <1>0, <1>1, <2>3, <3>3 DEF ReadsHold
    <3>5. QED  BY <1>0, <3>1, <3>2, <3>3, <3>4, EntryOfOthers DEF Awaiting
  <2>4. QED
    BY <1>1, <2>1, <2>2, <2>3 DEF FilingMoves, Busy, ReadVersion, TouchSection
<1>2. ASSUME NEW i \in DOMAIN documents', NEW h \in Handler, req'[h].docId = documents'[i].docId,
             req'[h].op \in {"remove", "ask", "decide"}
      PROVE  /\ req'[h].op = "remove" => ~Awaiting(documents'[i])
             /\ req'[h].op = "ask" => /\ documents'[i].upload = req'[h].on /\ documents'[i].validation # "NONE"
                                      /\ ~documents'[i].requested
             /\ req'[h].op = "decide" => documents'[i].upload = req'[h].on /\ documents'[i].requested
  <2>1. RequestMoves(h)
    BY <1>0, QuietRequestsMove
  <2>2. CASE req'[h] = req[h]
    <3>1. req[h] # NoRequest
      BY <1>0, <1>2, <2>2
    <3>2. \A v \in Upload : ~PushEntry(v) /\ ~WriteEntry(v)
      BY <1>0, <3>1 DEF OneAtATime, Busy, PushEntry, WriteEntry
    <3>3. \A g \in Handler : ~RemoveFile(g) /\ ~AskEntry(g) /\ ~RuleEntry(g)
      <4>1. ASSUME NEW g \in Handler, RemoveFile(g) \/ AskEntry(g) \/ RuleEntry(g)
            PROVE  FALSE
        <5>1. req[g].op \in {"remove", "ask", "decide"} /\ req[g] # NoRequest
          BY <1>0, <4>1 DEF RemoveFile, AskEntry, RuleEntry
        <5>2. g = h
          BY <1>0, <3>1, <5>1 DEF OneAtATime
        <5>3. req'[g] = NoRequest \/ req'[g].op \in {"askRow", "decideRow"}
          BY <1>0, <4>1 DEF RemoveFile, AskEntry, RuleEntry, Finish, Request
        <5>4. QED  BY <1>0, <1>2, <5>2, <5>3
      <4>2. QED  BY <4>1
    <3>4. i \in DOMAIN documents /\ documents'[i].docId = documents[i].docId
      BY <1>2, <3>2, EntriesMove DEF EntryMoves
    <3>5. /\ req[h].op = "remove" => ~Awaiting(documents[i])
          /\ req[h].op = "ask" => /\ documents[i].upload = req[h].on /\ documents[i].validation # "NONE"
                                  /\ ~documents[i].requested
          /\ req[h].op = "decide" => documents[i].upload = req[h].on /\ documents[i].requested
      BY <1>0, <1>2, <2>2, <3>4 DEF ReadsHold
    <3>6. documents[i] \in DocumentItem
      BY <1>0, <3>4
    <3>7. CASE /\ SameFile(i) /\ documents'[i].requested = documents[i].requested
               /\ documents'[i].review = documents[i].review
      BY <2>2, <3>5, <3>7 DEF SameFile, Awaiting
    <3>8. CASE /\ documents'[i].requested = FALSE /\ documents[i].requested = FALSE
               /\ documents[i].validation = "NONE"
      BY SMTT(30), <2>2, <3>5, <3>8 DEF Awaiting
    <3>9. QED  BY <1>0, <3>2, <3>3, <3>4, <3>7, <3>8, EntryOfOthers
  <2>3. CASE Begins(h) /\ UNCHANGED annualStore
    <3>1. documents' = documents
      BY <2>3 DEF annualStore
    <3>2. documents[i] = Entry(documents[i].docId) /\ documents[i] \in DocumentItem
      BY <1>0, <1>2, <3>1, OnlyEntry
    <3>3. ASSUME NEW d \in DocId, BeginRemove(h, d), req'[h] = [NoRequest EXCEPT !.op = "remove", !.docId = d]
          PROVE  req'[h].docId = d /\ req'[h].op = "remove" /\ ~Awaiting(Entry(d))
      BY <3>3 DEF NoRequest, BeginRemove, OpenToUlb
    <3>4. ASSUME NEW d \in DocId, BeginAsk(h, d),
                 req'[h] = [NoRequest EXCEPT !.op = "ask", !.docId = d, !.on = Entry(d).upload]
          PROVE  /\ req'[h].docId = d /\ req'[h].op = "ask" /\ req'[h].on = Entry(d).upload
                 /\ Entry(d).validation # "NONE" /\ ~Entry(d).requested
      BY <3>4 DEF NoRequest, BeginAsk, CanAsk
    <3>5. ASSUME NEW d \in DocId, NEW v \in Verdict, BeginRuling(h, d, v),
                 req'[h] = [NoRequest EXCEPT !.op = "decide", !.docId = d, !.verdict = v, !.on = Entry(d).upload]
          PROVE  req'[h].docId = d /\ req'[h].op = "decide" /\ req'[h].on = Entry(d).upload /\ Entry(d).requested
      BY <3>5 DEF NoRequest, BeginRuling
    <3> DEFINE e == documents[i]
    <3>6. req'[h].docId = e.docId /\ e = Entry(e.docId) /\ documents'[i] = e
      BY <1>2, <3>1, <3>2
    <3> HIDE DEF e
    <3>7. ASSUME NEW d \in DocId, BeginRemove(h, d), req'[h] = [NoRequest EXCEPT !.op = "remove", !.docId = d]
          PROVE  req'[h].op = "remove" /\ ~Awaiting(e)
      BY <3>3, <3>6, <3>7
    <3>8. ASSUME NEW d \in DocId, BeginAsk(h, d),
                 req'[h] = [NoRequest EXCEPT !.op = "ask", !.docId = d, !.on = Entry(d).upload]
          PROVE  /\ req'[h].op = "ask" /\ e.upload = req'[h].on /\ e.validation # "NONE" /\ ~e.requested
      <4>1. d = e.docId
        BY <3>4, <3>6, <3>8
      <4>2. e = Entry(d)
        BY <3>6, <4>1
      <4>3. QED  BY <3>4, <3>8, <4>2
    <3>9. ASSUME NEW d \in DocId, NEW v \in Verdict, BeginRuling(h, d, v),
                 req'[h] = [NoRequest EXCEPT !.op = "decide", !.docId = d, !.verdict = v, !.on = Entry(d).upload]
          PROVE  req'[h].op = "decide" /\ e.upload = req'[h].on /\ e.requested
      <4>1. d = e.docId
        BY <3>5, <3>6, <3>9
      <4>2. QED  BY <3>5, <3>6, <3>9, <4>1, ZenonT(40)
    <3>10. \/ \E d \in DocId : BeginRemove(h, d) /\ req'[h] = [NoRequest EXCEPT !.op = "remove", !.docId = d]
           \/ \E d \in DocId : BeginAsk(h, d) /\ req'[h] = [NoRequest EXCEPT !.op = "ask", !.docId = d, !.on = Entry(d).upload]
           \/ \E d \in DocId, v \in Verdict :
                /\ BeginRuling(h, d, v)
                /\ req'[h] = [NoRequest EXCEPT !.op = "decide", !.docId = d, !.verdict = v, !.on = Entry(d).upload]
      BY <1>2, <2>3 DEF Begins, NoRequest
    <3>11. QED  BY <3>6, <3>7, <3>8, <3>9, <3>10
  <2>4. req'[h] # NoRequest /\ \A op : [req[h] EXCEPT !.op = op].op = op
    BY <1>0, <1>2 DEF Request
  <2>5. QED  BY <1>2, <2>1, <2>2, <2>3, <2>4, ZenonT(40) DEF RequestMoves
<1>3. QED  BY <1>1, <1>2 DEF ReadsHold

LEMMA QuietInit == AnnualInit => QuietReviews
<1> SUFFICES ASSUME AnnualInit
             PROVE  QuietReviews
  OBVIOUS
<1>1. /\ documents = <<>>
      /\ \A h \in Handler : req[h] = NoRequest
      /\ \A u \in Upload : ~Busy(u)
      /\ \A w \in Worker : ~Claiming(w)
  BY DEF AnnualInit, AnnualStoreInit, UlbInit, Busy, Claiming, Unused
<1>2. OneAtATime /\ OneClaim
  <2>1. \A h \in Handler : req[h].op \notin {"retry", "broken"}
    BY <1>1, NoRequestTyped
  <2>2. OneAtATime
    BY <1>1, <2>1 DEF OneAtATime
  <2>3. QED  BY <1>1, <2>2 DEF OneClaim
<1>3. DOMAIN documents = {} /\ \A u \in Upload : filing[u].pc = "new"
  BY <1>1 DEF AnnualInit, UlbInit
<1>4. OneEntry /\ VerdictStands /\ ReadsHold
  BY <1>3 DEF OneEntry, VerdictStands, ReadsHold
<1>5. QED  BY <1>2, <1>4 DEF QuietReviews

LEMMA QuietStep == AnnualTypeInv /\ AnnualTypeInv' /\ QuietInv /\ [AnnualNext]_annualVars => QuietInv'
<1> SUFFICES ASSUME AnnualTypeInv, AnnualTypeInv', QuietInv, [AnnualNext]_annualVars, Quiet'
             PROVE  QuietReviews'
  BY DEF QuietInv
<1>1. CASE UNCHANGED annualVars
  BY <1>1 DEF annualVars, ulbvars, annualStore, QuietInv, Quiet, QuietReviews, OneAtATime, Busy, OneClaim, Claiming,
              OneEntry, VerdictStands, Over, ReadsHold
<1>2. CASE AnnualNext
  <2>1. Quiet
    BY <1>2, SceneStays DEF Quiet
  <2>2. QED
    BY <1>2, <2>1, OneAtATimeStays, OneClaimStays, OneEntryStays, VerdictStandsStays, ReadsHoldStays
    DEF QuietInv, QuietReviews
<1>3. QED  BY <1>1, <1>2

\* Without overlap and retries, what requests and runs have read stays true.
LEMMA QuietInvariant == AnnualSpec => []QuietInv
<1>1. AnnualInit => QuietInv
  BY QuietInit DEF QuietInv
<1>2. QED  BY <1>1, QuietStep, AnnualTypeInvariant, PTL DEF AnnualSpec

\* Without overlap and retries, the file whose manual review is pending is neither replaced nor
\* removed, whatever the OCR still does.
THEOREM ReviewedStays == AnnualSpec => ReviewedFileStays
<1>1. ASSUME AnnualTypeInv, AnnualTypeInv', QuietInv, AnnualNext, Quiet, NEW i \in DOMAIN documents, Awaiting(documents[i])
      PROVE  documents'[i].upload = documents[i].upload
  <2>0. OneAtATime /\ OneClaim /\ VerdictStands /\ ReadsHold
    BY <1>1 DEF QuietInv, QuietReviews
  <2>1. i \in DOMAIN documents' /\ EntryMoves(i) /\ documents'[i].docId = documents[i].docId
    BY <1>1, EntriesStay, EntriesMove
  <2>2. ASSUME NEW w \in Worker, ApplyResult(w), documents[i].upload = w[1],
               documents'[i] = WithResult(documents[i], worker[w])
        PROVE  FALSE
    BY <1>1, <2>0, <2>2, ResultGiven DEF Awaiting
  <2>3. ASSUME NEW h \in Handler, RuleEntry(h), documents'[i] = Ruling(documents[i], req[h].verdict)
        PROVE  documents'[i].upload = documents[i].upload
    BY <1>1, <2>3, RuledEntry
  <2>4. ASSUME NEW u \in Upload, WriteEntry(u), documents[i].docId = filing[u].docId
        PROVE  FALSE
    BY <1>1, <2>0, <2>4 DEF ReadsHold, WriteEntry
  <2>5. ASSUME NEW h \in Handler, RemoveFile(h), documents[i].docId = req[h].docId
        PROVE  FALSE
    BY <1>1, <2>0, <2>5 DEF ReadsHold, RemoveFile
  <2>6. QED  BY <2>1, <2>2, <2>3, <2>4, <2>5 DEF EntryMoves, SameFile
<1>2. AnnualTypeInv /\ AnnualTypeInv' /\ QuietInv /\ [AnnualNext]_annualVars =>
        [Quiet => \A i \in DOMAIN documents :
           Awaiting(documents[i]) => documents'[i].upload = documents[i].upload]_annualVars
  BY <1>1
<1>3. QED
  BY <1>2, AnnualTypeInvariant, QuietInvariant, PTL DEF AnnualSpec, ReviewedFileStays

-----------------------------------------------------------------------------
(* Annual accounts: an approved section                                    *)

\* No upload was made later than now.
TimesInv == \A u \in Upload : filing[u].uploadedAt <= Clock

\* Time moves with the uploads that read their version.
LEMMA ClockMoves ==
  ASSUME AnnualTypeInv, AnnualNext
  PROVE  \/ /\ \A u \in Upload : filing'[u].uploadedAt = filing[u].uploadedAt
            /\ Clock' = Clock
         \/ /\ \E u \in Upload : /\ ReadVersion(u) /\ filing'[u].uploadedAt = Clock + 1
                                 /\ \A v \in Upload : v # u => filing'[v] = filing[v]
            /\ Clock' = Clock + 1
<1>0. filing \in [Upload -> FilingState] /\ FilingInv /\ \A u \in Upload : FilingMoves(u)
  BY FilingsMove DEF AnnualTypeInv, AnnualTypeOK, UlbTypeOK
<1> DEFINE T == {v \in Upload : filing[v].uploadedAt > 0}
<1>1. ASSUME NEW u \in Upload, ReadVersion(u)
      PROVE  /\ filing'[u].uploadedAt = Clock + 1 /\ Clock' = Clock + 1
             /\ \A v \in Upload : v # u => filing'[v] = filing[v]
  <2>1. /\ filing'[u].uploadedAt = Clock + 1 /\ filing[u].uploadedAt = 0
        /\ \A v \in Upload : v # u => filing'[v] = filing[v]
    BY <1>0, <1>1 DEF ReadVersion, FilingInv, FilingState
  <2>2. Clock \in Nat
    BY ClockTyped, UploadsAreCounted
  <2>3. {v \in Upload : filing'[v].uploadedAt > 0} = T \cup {u} /\ u \notin T
    BY <2>1, <2>2
  <2>4. IsFiniteSet(T)
    BY UploadAssumption, FS_Subset
  <2>5. Cardinality(T \cup {u}) = Cardinality(T) + 1
    BY <2>3, <2>4, FS_AddElement
  <2>6. QED  BY <2>1, <2>3, <2>5 DEF Clock
<1>2. CASE \A u \in Upload : ~ReadVersion(u)
  <2>1. \A u \in Upload : filing'[u].uploadedAt = filing[u].uploadedAt
    BY <1>0, <1>2 DEF FilingMoves
  <2>2. QED  BY <2>1 DEF Clock
<1>3. QED  BY <1>1, <1>2

LEMMA TimesStay ==
  ASSUME AnnualTypeInv, AnnualNext, TimesInv
  PROVE  TimesInv'
<1>1. Clock \in Nat /\ \A u \in Upload : filing[u].uploadedAt \in Nat
  BY ClockTyped, UploadsAreCounted DEF AnnualTypeInv, AnnualTypeOK, UlbTypeOK, FilingState
<1>2. \A u \in Upload : filing'[u].uploadedAt <= Clock'
  BY <1>1, ClockMoves DEF TimesInv
<1>3. QED  BY <1>2 DEF TimesInv

\* How the section moves.
SectionMoves ==
  \/ section' = section
  \/ \E u \in Upload : TouchSection(u) /\ section' = "IN_PROGRESS"
  \/ \E h \in Handler :
       \/ SubmitSection(h) /\ UNCHANGED documents /\ section' = "UNDER_REVIEW_BY_STATE"
       \/ DecideSection(h) \/ UndoApproval(h)

LEMMA SectionsMove == AnnualNext => SectionMoves
<1>1. \A u \in Upload : Confirm(u) => SectionMoves
  BY Zenon DEF Confirm, CheckUpload, ReadVersion, TouchSection, WriteEntry, PushEntry, CreateHistory, EnqueueUpload,
         annualStore, SectionMoves
<1>2. \A h \in Handler : UlbRequest(h) => SectionMoves
  BY ZenonT(40) DEF UlbRequest, BeginRetry, RetryHistory, RetryEntry, EnqueueRetry, BeginRemove, BeginAsk, RemoveFile,
         AskEntry, AskRow, BeginSubmit, SubmitSection, annualStore, SectionMoves
<1>3. OcrStep \/ CooldownEnds \/ RequestDies => UNCHANGED section
  BY ZenonT(40) DEF OcrStep, CronTick, StartRun, RecordJob, StillRunning, Claim, ReadStrikes, ApplyResult, WorkerFails,
         ocrUnchanged, CooldownEnds, RequestDies, annualStore
<1>4. \A h \in Handler : ReviewRequest(h) => SectionMoves
  BY Zenon DEF ReviewRequest, BeginDocument, BeginRuling, BeginSection, DecideDocument, BeginUndo,
         RuleEntry, RuleRow, annualStore, SectionMoves
<1>5. QED  BY <1>1, <1>2, <1>3, <1>4 DEF AnnualNext, SectionMoves

\* The decision of the State on an entry moves with a decision of the State only.
DecisionMoves(i) ==
  \/ documents'[i].decision = documents[i].decision
  \/ \E h \in Handler : DecideDocument(h) \/ DecideSection(h) \/ UndoApproval(h)

LEMMA DecisionsMove ==
  ASSUME AnnualTypeInv, AnnualNext, NEW i \in DOMAIN documents
  PROVE  DecisionMoves(i)
<1>0. /\ documents \in Seq(DocumentItem) /\ documents[i] \in DocumentItem
      /\ DOMAIN documents = 1..Len(documents) /\ Len(documents) \in Nat
      /\ \A j \in DOMAIN documents : documents[j] \in DocumentItem
  BY DEF AnnualTypeInv, AnnualTypeOK, AnnualStoreTypeOK
<1>1. ASSUME NEW k, NEW e, documents' = [documents EXCEPT ![k] = e],
             k \in DOMAIN documents => e.decision = documents[k].decision
      PROVE  DecisionMoves(i)
  BY <1>1 DEF DecisionMoves
<1>2. UNCHANGED documents => DecisionMoves(i)
  BY DEF DecisionMoves
<1>3. ASSUME NEW u \in Upload, Confirm(u)
      PROVE  DecisionMoves(i)
  <2>1. CASE WriteEntry(u) /\ HasEntry(filing[u].docId)
    <3> DEFINE k == First(filing[u].docId)
               e == WithUpload(documents[k], u)
    <3>1. documents' = [documents EXCEPT ![k] = e]
      BY <2>1 DEF WriteEntry
    <3>2. k \in DOMAIN documents => e.decision = documents[k].decision
      BY <1>0 DEF WithUpload, DocumentItem
    <3> HIDE DEF k, e
    <3>3. QED  BY <1>1, <3>1, <3>2
  <2>2. CASE PushEntry(u)
    <3>1. documents'[i] = documents[i]
      BY <1>0, <2>2 DEF PushEntry
    <3>2. QED  BY <3>1 DEF DecisionMoves
  <2>3. QED
    BY <1>2, <1>3, <2>1, <2>2 DEF Confirm, CheckUpload, ReadVersion, TouchSection, WriteEntry, CreateHistory,
                                 EnqueueUpload, annualStore
<1>4. ASSUME NEW h \in Handler, UlbRequest(h)
      PROVE  DecisionMoves(i)
  <2> DEFINE k == First(req[h].docId)
  <2>1. CASE RetryEntry(h)
    <3> DEFINE e == WithUpload(documents[k], documents[k].upload)
    <3>1. documents' = [documents EXCEPT ![k] = e] \/ UNCHANGED documents
      BY <2>1 DEF RetryEntry
    <3>2. k \in DOMAIN documents => e.decision = documents[k].decision
      BY <1>0 DEF WithUpload, DocumentItem
    <3> HIDE DEF k, e
    <3>3. QED  BY <1>1, <1>2, <3>1, <3>2
  <2>2. CASE RemoveFile(h)
    <3> DEFINE e == [documents[k] EXCEPT !.upload = NoUpload, !.processing = "NOT_STARTED", !.validation = "NONE",
                                         !.requested = FALSE]
    <3>1. documents' = [documents EXCEPT ![k] = e]
      BY <2>2 DEF RemoveFile
    <3>2. k \in DOMAIN documents => e.decision = documents[k].decision
      BY <1>0 DEF DocumentItem
    <3> HIDE DEF k, e
    <3>3. QED  BY <1>1, <3>1, <3>2
  <2>3. CASE AskEntry(h)
    <3> DEFINE e == [documents[k] EXCEPT !.requested = TRUE, !.review = NoVerdict]
    <3>1. UNCHANGED documents \/ documents' = [documents EXCEPT ![k].requested = TRUE, ![k].review = NoVerdict]
      BY <2>3 DEF AskEntry
    <3>2. documents' = [documents EXCEPT ![k] = e] \/ UNCHANGED documents
      BY <3>1, Zenon
    <3>3. k \in DOMAIN documents => e.decision = documents[k].decision
      BY <1>0 DEF DocumentItem
    <3> HIDE DEF k, e
    <3>4. QED  BY <1>1, <1>2, <3>2, <3>3
  <2>4. QED
    BY <1>2, <1>4, <2>1, <2>2, <2>3, Zenon DEF UlbRequest, BeginRetry, RetryHistory, EnqueueRetry, BeginRemove, BeginAsk,
       AskRow, BeginSubmit, SubmitSection, annualStore
<1>5. ASSUME OcrStep
      PROVE  DecisionMoves(i)
  <2>1. ASSUME NEW w \in Worker, ApplyResult(w)
        PROVE  DecisionMoves(i)
    <3>1. documents'[i] \in {documents[i], WithResult(documents[i], worker[w])}
      BY <2>1 DEF ApplyResult
    <3>2. WithResult(documents[i], worker[w]).decision = documents[i].decision
      BY <1>0 DEF WithResult, DocumentItem
    <3>3. QED  BY <3>1, <3>2 DEF DecisionMoves
  <2>2. QED
    BY <1>2, <1>5, <2>1, Zenon DEF OcrStep, CronTick, StartRun, RecordJob, StillRunning, Claim, ReadStrikes, WorkerFails
<1>6. ASSUME CooldownEnds
      PROVE  DecisionMoves(i)
  <2>1. PICK k \in DOMAIN documents : documents' = [documents EXCEPT ![k] = [documents[k] EXCEPT !.blocked = "over"]]
    BY <1>6 DEF CooldownEnds
  <2>2. [documents[k] EXCEPT !.blocked = "over"].decision = documents[k].decision
    BY <1>0 DEF DocumentItem
  <2>3. QED  BY <1>1, <2>1, <2>2
<1>7. ASSUME NEW h \in Handler, ReviewRequest(h)
      PROVE  DecisionMoves(i)
  <2>1. CASE RuleEntry(h)
    <3> DEFINE k == First(req[h].docId)
               e == Ruling(documents[k], req[h].verdict)
    <3>1. documents' = [documents EXCEPT ![k] = e] /\ req[h].verdict \in Verdict
      BY <2>1 DEF RuleEntry, AnnualTypeInv, RequestInv
    <3>2. k \in DOMAIN documents => e.decision = documents[k].decision
      BY <1>0, <3>1, RulingKeeps
    <3> HIDE DEF k, e
    <3>3. QED  BY <1>1, <3>1, <3>2
  <2>2. CASE DecideDocument(h) \/ DecideSection(h) \/ UndoApproval(h)
    BY <2>2 DEF DecisionMoves
  <2>3. QED
    BY <1>2, <1>7, <2>1, <2>2 DEF ReviewRequest, BeginDocument, BeginRuling, BeginSection, BeginUndo, RuleRow, annualStore
<1>8. RequestDies => UNCHANGED documents
  BY DEF RequestDies, annualStore
<1>9. QED  BY <1>2, <1>3, <1>4, <1>5, <1>6, <1>7, <1>8 DEF AnnualNext

AllPassed == \A i \in DOMAIN documents : Passed(documents[i])

\* The document is approved, alone, or will be by the decision on the section that r makes.
Approving(i, r) == documents[i].docId \in r.sweep \/ Effective(documents[i]) = "APPROVED"

\* A ULB changes a section only while it may; what the State has before it has passed, and is approved
\* in all that it approves.
SectionFacts ==
  /\ \A u \in Upload : Busy(u) => section \in UlbEditable
  /\ \A h \in Handler :
       /\ req[h].op \in {"submit", "remove"} => section \in UlbEditable
       /\ req[h].op = "submit" => AllPassed
       /\ req[h].op \in {"document", "section"} => UnderReview /\ req[h].seen = Clock
       /\ req[h].op = "undo" => section = "APPROVED_BY_STATE"
       /\ req[h].op = "section" /\ req[h].verdict = "APPROVED" =>
            \A i \in DOMAIN documents : Approving(i, req[h])
  /\ section \in {"UNDER_REVIEW_BY_STATE", "APPROVED_BY_STATE"} => AllPassed
  /\ section = "APPROVED_BY_STATE" => \A i \in DOMAIN documents : Effective(documents[i]) = "APPROVED"

SectionInv == Quiet => SectionFacts

\* Without an upload or a removal the files stay, and those that passed remain so.
LEMMA FilesStay ==
  ASSUME AnnualTypeInv, AnnualNext, Quiet, QuietReviews,
         \A u \in Upload : ~PushEntry(u) /\ ~WriteEntry(u), \A h \in Handler : ~RemoveFile(h)
  PROVE  /\ DOMAIN documents' = DOMAIN documents
         /\ \A i \in DOMAIN documents :
              /\ documents'[i].upload = documents[i].upload /\ documents'[i].docId = documents[i].docId
              /\ Passed(documents[i]) => Passed(documents'[i])
<1>1. \A i \in DOMAIN documents' : EntryMoves(i) /\ i \in DOMAIN documents
  BY EntriesMove DEF EntryMoves
<1>2. \A i \in DOMAIN documents : i \in DOMAIN documents' /\ EntryMoves(i) /\ documents'[i].docId = documents[i].docId
  BY EntriesStay, EntriesMove
<1>3. ASSUME NEW i \in DOMAIN documents
      PROVE  /\ documents'[i].upload = documents[i].upload
             /\ Passed(documents[i]) => Passed(documents'[i])
  <2>1. \A h \in Handler : ~RetryEntry(h)
    BY DEF QuietReviews, OneAtATime, RetryEntry
  <2>2. ASSUME NEW w \in Worker, ApplyResult(w), documents[i].upload = w[1],
               documents'[i] = WithResult(documents[i], worker[w])
        PROVE  documents'[i].upload = documents[i].upload /\ ~Passed(documents[i])
    BY <2>2, ResultGiven DEF QuietReviews
  <2>3. ASSUME NEW h \in Handler, RuleEntry(h), documents'[i] = Ruling(documents[i], req[h].verdict)
        PROVE  /\ documents'[i].upload = documents[i].upload
               /\ documents'[i].processing \in {documents[i].processing, "PASSED"}
    BY <2>3, RuledEntry
  <2>4. QED  BY <1>2, <2>1, <2>2, <2>3 DEF EntryMoves, SameFile, Passed
<1>4. QED  BY <1>1, <1>2, <1>3

\* The time of the file in an entry stays while the file does.
LEMMA FileTimeStays ==
  ASSUME AnnualTypeInv, AnnualNext, OneEntry, NEW i \in DOMAIN documents, documents[i].upload # NoUpload
  PROVE  filing'[documents[i].upload].uploadedAt = filing[documents[i].upload].uploadedAt
<1>0. documents[i] \in DocumentItem
  BY DEF AnnualTypeInv, AnnualTypeOK, AnnualStoreTypeOK
<1>1. documents[i].upload \in Upload
  BY <1>0 DEF DocumentItem
<1>2. FilingMoves(documents[i].upload)
  BY <1>1, FilingsMove
<1>3. filing[documents[i].upload].pc \in {"slotted", "recorded", "done"}
  BY DEF OneEntry
<1>4. QED  BY <1>2, <1>3 DEF FilingMoves, ReadVersion

\* With the file and the decision of an entry, what the decision counts for stays.
LEMMA EffectiveStays ==
  ASSUME AnnualTypeInv, AnnualNext, OneEntry, NEW i \in DOMAIN documents,
         documents'[i].upload = documents[i].upload, documents'[i].decision = documents[i].decision
  PROVE  Effective(documents[i])' = Effective(documents[i])
BY FileTimeStays DEF Effective

LEMMA SectionStep ==
  ASSUME AnnualTypeInv, AnnualNext, Quiet, QuietReviews, TimesInv, SectionFacts
  PROVE  SectionFacts'
<1>0. /\ OneAtATime /\ OneEntry
      /\ documents \in Seq(DocumentItem) /\ req \in [Handler -> Request] /\ NoRequest.op = "none"
      /\ \A i \in DOMAIN documents : documents[i] \in DocumentItem
      /\ filing \in [Upload -> FilingState] /\ section \in FormStatus
  BY NoRequestTyped DEF QuietReviews, AnnualTypeInv, AnnualTypeOK, AnnualStoreTypeOK, UlbTypeOK
<1>1. SectionMoves /\ (\A u \in Upload : FilingMoves(u)) /\ (\A h \in Handler : RequestMoves(h))
  BY <1>0, SectionsMove, FilingsMove, QuietRequestsMove
<1>2. UlbEditable \cap {"UNDER_REVIEW_BY_STATE", "APPROVED_BY_STATE"} = {} /\ "IN_PROGRESS" \in UlbEditable
  BY DEF UlbEditable
\* While an upload is under way nobody but itself writes the section.
<1>3. ASSUME NEW u \in Upload, Busy(u)'
      PROVE  section' \in UlbEditable
  <2>1. CASE Busy(u)
    <3>1. \A h \in Handler : ~SubmitSection(h) /\ ~DecideSection(h) /\ ~UndoApproval(h)
      BY <1>0, <2>1 DEF OneAtATime, SubmitSection, DecideSection, UndoApproval
    <3>2. QED  BY <1>1, <1>2, <2>1, <3>1 DEF SectionMoves, SectionFacts
  <2>2. CASE ~Busy(u)
    <3>1. PICK d \in DocId : CheckUpload(u, d)
      BY <1>1, <1>3, <2>2, Zenon DEF FilingMoves, Busy, ReadVersion
    <3>2. QED  BY <3>1 DEF CheckUpload, annualStore
  <2>3. QED  BY <2>1, <2>2
\* While a request is, no upload writes.
<1>4. ASSUME NEW h \in Handler, req[h] # NoRequest
      PROVE  /\ \A u \in Upload : ~PushEntry(u) /\ ~WriteEntry(u) /\ ~TouchSection(u) /\ ~ReadVersion(u)
             /\ \A g \in Handler : g # h => req[g].op = "none"
  BY <1>0, <1>4 DEF OneAtATime, Busy, PushEntry, WriteEntry, TouchSection, ReadVersion
<1>5. ASSUME NEW h \in Handler, req'[h] = req[h], req[h].op \in {"submit", "remove", "document", "section", "undo"}
      PROVE  /\ section' = section /\ Clock' = Clock
             /\ \A u \in Upload : ~PushEntry(u) /\ ~WriteEntry(u)
             /\ \A g \in Handler : /\ ~RemoveFile(g) /\ ~DecideDocument(g) /\ ~DecideSection(g) /\ ~UndoApproval(g)
  <2>1. req[h] # NoRequest
    BY <1>0, <1>5
  <2>2. ASSUME NEW g \in Handler,
               RemoveFile(g) \/ SubmitSection(g) \/ DecideDocument(g) \/ DecideSection(g) \/ UndoApproval(g)
        PROVE  FALSE
    <3>1. req[g].op # "none" /\ Finish(g)
      BY <2>2 DEF RemoveFile, SubmitSection, DecideDocument, DecideSection, UndoApproval
    <3>2. g = h
      BY <1>4, <2>1, <3>1
    <3>3. req'[g] = NoRequest
      BY <1>0, <3>1 DEF Finish
    <3>4. QED  BY <1>5, <2>1, <3>2, <3>3
  <2>3. section' = section
    BY <1>1, <1>4, <2>1, <2>2 DEF SectionMoves
  <2>4. Clock' = Clock
    BY <1>4, <2>1, ClockMoves
  <2>5. QED  BY <1>4, <2>1, <2>2, <2>3, <2>4
\* Entries that passed remain so while the ULB may not change them.
<1>6. ASSUME AllPassed, \A u \in Upload : ~PushEntry(u) /\ ~WriteEntry(u), \A h \in Handler : ~RemoveFile(h)
      PROVE  AllPassed'
  <2>1. \A i \in DOMAIN documents' : Passed(documents'[i])
    BY <1>6, FilesStay DEF AllPassed
  <2>2. QED  BY <2>1 DEF AllPassed, Passed
<1>7. ASSUME section \notin UlbEditable
      PROVE  /\ \A u \in Upload : ~PushEntry(u) /\ ~WriteEntry(u) /\ ~TouchSection(u)
             /\ \A h \in Handler : ~RemoveFile(h) /\ ~SubmitSection(h)
  BY <1>7 DEF SectionFacts, Busy, PushEntry, WriteEntry, TouchSection, RemoveFile, SubmitSection
\* A decision on the section: only decisions change.
<1>8. ASSUME NEW h \in Handler, DecideSection(h) \/ UndoApproval(h)
      PROVE  AllPassed' /\ section \notin UlbEditable
  <2>1. section \in {"UNDER_REVIEW_BY_STATE", "APPROVED_BY_STATE"}
    BY <1>8 DEF DecideSection, UndoApproval, SectionFacts, UnderReview
  <2>2. AllPassed
    BY <2>1 DEF SectionFacts
  <2>3. section \notin UlbEditable
    BY <1>2, <2>1
  <2>4. QED  BY <1>6, <1>7, <2>2, <2>3
<1>9. section' \in {"UNDER_REVIEW_BY_STATE", "APPROVED_BY_STATE"} => AllPassed'
  <2> SUFFICES ASSUME section' \in {"UNDER_REVIEW_BY_STATE", "APPROVED_BY_STATE"}
               PROVE  AllPassed'
    OBVIOUS
  <2>1. CASE section' = section
    <3>1. AllPassed /\ section \notin UlbEditable
      BY <1>2, <2>1 DEF SectionFacts
    <3>2. QED  BY <1>6, <1>7, <3>1
  <2>2. ASSUME NEW h \in Handler, SubmitSection(h), UNCHANGED documents
        PROVE  AllPassed'
    <3>1. AllPassed
      BY <2>2 DEF SubmitSection, SectionFacts
    <3>2. QED  BY <2>2, <3>1 DEF AllPassed, Passed
  <2>3. QED  BY <1>1, <1>8, <2>1, <2>2 DEF SectionMoves
<1>10. section' = "APPROVED_BY_STATE" => \A i \in DOMAIN documents' : Effective(documents[i])' = "APPROVED"
  <2> SUFFICES ASSUME section' = "APPROVED_BY_STATE", NEW i \in DOMAIN documents'
               PROVE  Effective(documents[i])' = "APPROVED"
    OBVIOUS
  <2>1. CASE section' = section
    <3>1. section = "APPROVED_BY_STATE" /\ section \notin UlbEditable
      BY <1>2, <2>1
    <3>2. i \in DOMAIN documents /\ documents'[i].upload = documents[i].upload
      BY <1>7, <3>1, FilesStay
    <3>3. \A h \in Handler : ~DecideDocument(h) /\ ~DecideSection(h) /\ ~UndoApproval(h)
      BY <2>1, <3>1 DEF DecideDocument, DecideSection, UndoApproval, SectionFacts, UnderReview
    <3>4. documents'[i].decision = documents[i].decision
      BY <3>2, <3>3, DecisionsMove DEF DecisionMoves
    <3>5. QED  BY <1>0, <3>1, <3>2, <3>4, EffectiveStays DEF SectionFacts
  <2>2. ASSUME NEW h \in Handler, DecideSection(h), req[h].verdict = "APPROVED"
        PROVE  Effective(documents[i])' = "APPROVED"
    <3>1. /\ req[h].seen = Clock /\ Clock \in Nat /\ i \in DOMAIN documents
          /\ Approving(i, req[h])
      BY <2>2, ClockTyped, UploadsAreCounted DEF DecideSection, SectionFacts
    <3>2. PICK decision \in Decided(req[h]) :
            documents' = [j \in DOMAIN documents |->
              IF documents[j].docId \in req[h].sweep
              THEN [documents[j] EXCEPT !.decision = decision] ELSE documents[j]]
      BY <2>2 DEF DecideSection
    <3>3. CASE documents[i].docId \in req[h].sweep
      <4>1. decision = [status |-> "APPROVED", at |-> Clock]
        BY <2>2, <3>1, <3>2 DEF Decided, NoVerdict
      <4>2. documents'[i].upload = documents[i].upload /\ documents'[i].decision = decision
        BY <1>0, <3>1, <3>2, <3>3 DEF DocumentItem
      <4>3. documents[i].upload # NoUpload => filing'[documents[i].upload].uploadedAt <= Clock
        <5>1. documents[i].upload # NoUpload => documents[i].upload \in Upload
          BY <1>0, <3>1 DEF DocumentItem
        <5>2. QED  BY <1>0, <3>1, <5>1, FileTimeStays DEF TimesInv
      <4>4. documents[i].upload # NoUpload => filing'[documents[i].upload].uploadedAt \in Nat
        <5>1. documents[i].upload # NoUpload => documents[i].upload \in Upload
          BY <1>0, <3>1 DEF DocumentItem
        <5>2. documents[i].upload # NoUpload => filing[documents[i].upload].uploadedAt \in Nat
          BY <1>0, <5>1, UploadsAreCounted DEF FilingState
        <5>3. QED  BY <1>0, <3>1, <5>2, FileTimeStays
      <4>5. QED  BY <3>1, <4>1, <4>2, <4>3, <4>4 DEF Effective
    <3>4. CASE documents[i].docId \notin req[h].sweep
      <4>1. documents'[i] = documents[i] /\ Effective(documents[i]) = "APPROVED"
        BY <3>1, <3>2, <3>4 DEF Approving
      <4>2. QED  BY <1>0, <3>1, <4>1, EffectiveStays
    <3>5. QED  BY <3>3, <3>4
  <2>3. QED  BY <1>1, <2>1, <2>2 DEF SectionMoves, DecideSection, UndoApproval
<1>11. ASSUME NEW h \in Handler
       PROVE  /\ req'[h].op \in {"submit", "remove"} => section' \in UlbEditable
              /\ req'[h].op = "submit" => AllPassed'
              /\ req'[h].op \in {"document", "section"} => UnderReview' /\ req'[h].seen = Clock'
              /\ req'[h].op = "undo" => section' = "APPROVED_BY_STATE"
              /\ req'[h].op = "section" /\ req'[h].verdict = "APPROVED" =>
                   \A i \in DOMAIN documents' : documents'[i].docId \in req'[h].sweep \/ Effective(documents[i])' = "APPROVED"
  <2>1. CASE req'[h] = req[h] /\ req[h].op \in {"submit", "remove", "document", "section", "undo"}
    <3>1. AllPassed => AllPassed'
      BY <1>5, <1>6, <2>1
    <3>2. DOMAIN documents' = DOMAIN documents /\ \A i \in DOMAIN documents :
            documents'[i].docId = documents[i].docId /\ Effective(documents[i])' = Effective(documents[i])
      <4>1. /\ DOMAIN documents' = DOMAIN documents
            /\ \A i \in DOMAIN documents :
                 documents'[i].docId = documents[i].docId /\ documents'[i].upload = documents[i].upload
        BY <1>5, <2>1, FilesStay
      <4>2. \A i \in DOMAIN documents : documents'[i].decision = documents[i].decision
        BY <1>5, <2>1, DecisionsMove DEF DecisionMoves
      <4>3. QED  BY <1>0, <4>1, <4>2, EffectiveStays
    <3>3. QED
      BY <1>5, <2>1, <3>1, <3>2 DEF SectionFacts, Approving, UnderReview
  <2>2. CASE Begins(h) /\ UNCHANGED <<annualStore, filing>>
    <3>1. section' = section /\ documents' = documents /\ filing' = filing /\ Clock' = Clock
      BY <2>2 DEF annualStore, Clock
    <3>2. AllPassed' = AllPassed /\ \A i \in DOMAIN documents : Effective(documents[i])' = Effective(documents[i])
      BY <3>1 DEF AllPassed, Passed, Effective
    <3>3. ASSUME NEW d \in DocId, BeginRemove(h, d)
          PROVE  section \in UlbEditable
      BY <3>3 DEF BeginRemove, CanReupload
    <3>4. BeginSubmit(h) => section \in UlbEditable /\ AllPassed
      BY DEF BeginSubmit, AllPassed, Passed
    <3>5. ASSUME NEW v \in Verdict, BeginSection(h, v),
                 req'[h] = [NoRequest EXCEPT
                   !.op = "section", !.verdict = v, !.seen = Clock,
                   !.sweep = {documents[i].docId :
                                i \in {j \in DOMAIN documents : Effective(documents[j]) = NoVerdict}}]
          PROVE  /\ UnderReview /\ req'[h].op = "section" /\ req'[h].seen = Clock
                 /\ req'[h].verdict = "APPROVED" =>
                      \A i \in DOMAIN documents : documents[i].docId \in req'[h].sweep \/ Effective(documents[i]) = "APPROVED"
      <4> DEFINE T == {documents[i].docId : i \in {j \in DOMAIN documents : Effective(documents[j]) = NoVerdict}}
      <4>1. req'[h].op = "section" /\ req'[h].seen = Clock /\ req'[h].sweep = T /\ req'[h].verdict = v
        BY <3>5 DEF NoRequest
      <4>2. v = "APPROVED" => \A i \in DOMAIN documents : Effective(documents[i]) # "RETURNED"
        BY <3>5 DEF BeginSection, NoneReturned
      <4>3. \A i \in DOMAIN documents : Effective(documents[i]) \in {"APPROVED", "RETURNED", NoVerdict}
        <5>1. ASSUME NEW i \in DOMAIN documents
              PROVE  documents[i].decision.status \in {"APPROVED", "RETURNED", NoVerdict}
          BY <1>0, <5>1 DEF DocumentItem, StateDecision, Verdict
        <5>2. QED  BY <5>1 DEF Effective
      <4>4. \A i \in DOMAIN documents : Effective(documents[i]) = NoVerdict => documents[i].docId \in T
        OBVIOUS
      <4> HIDE DEF T
      <4>5. UnderReview
        BY <3>5 DEF BeginSection
      <4>6. QED  BY <4>1, <4>2, <4>3, <4>4, <4>5
    <3>6. ASSUME NEW d \in DocId, NEW v \in Verdict \cup {NoVerdict}, BeginDocument(h, d, v)
          PROVE  UnderReview
      BY <3>6 DEF BeginDocument
    <3>7. BeginUndo(h) => section = "APPROVED_BY_STATE"
      BY DEF BeginUndo
    <3>8. UnderReview' = UnderReview
      BY <3>1 DEF UnderReview
    <3>9. CASE req'[h].op = "section"
      <4>1. PICK v \in Verdict :
               /\ BeginSection(h, v)
               /\ req'[h] = [NoRequest EXCEPT
                    !.op = "section", !.verdict = v, !.seen = Clock,
                    !.sweep = {documents[i].docId :
                                 i \in {j \in DOMAIN documents : Effective(documents[j]) = NoVerdict}}]
        BY <2>2, <3>9 DEF Begins, NoRequest
      <4>2. QED  BY <3>1, <3>2, <3>5, <3>8, <3>9, <4>1, Zenon
    <3>10. CASE req'[h].op # "section"
      <4>1. \/ req'[h].op \notin {"submit", "remove", "document", "undo"}
            \/ req'[h].op = "submit" /\ BeginSubmit(h)
            \/ req'[h].op = "remove" /\ \E d \in DocId : BeginRemove(h, d)
            \/ req'[h].op = "document" /\ req'[h].seen = Clock
               /\ \E d \in DocId, v \in Verdict \cup {NoVerdict} : BeginDocument(h, d, v)
            \/ req'[h].op = "undo" /\ BeginUndo(h)
        BY <2>2, <3>10 DEF Begins, NoRequest
      <4>2. QED  BY <3>1, <3>2, <3>3, <3>4, <3>6, <3>7, <3>8, <3>10, <4>1
    <3>11. QED  BY <3>9, <3>10
  <2>3. CASE req'[h].op \notin {"submit", "remove", "document", "section", "undo"}
    BY <2>3
  <2>4. \A op : [req[h] EXCEPT !.op = op].op = op
    BY <1>0 DEF Request
  <2>5. QED  BY <1>0, <1>1, <2>1, <2>2, <2>3, <2>4 DEF RequestMoves
<1>12. QED  BY <1>3, <1>9, <1>10, <1>11 DEF SectionFacts, Approving

\* Without overlap and retries, what the State has approved holds only documents that passed, each
\* approved since it was uploaded.
THEOREM ApprovedSections == AnnualSpec => []ApprovedIsWhole
<1>1. AnnualInit => TimesInv /\ SectionInv
  <2> SUFFICES ASSUME AnnualInit
               PROVE  TimesInv /\ SectionFacts
    BY DEF SectionInv
  <2>1. /\ \A h \in Handler : req[h] = NoRequest
        /\ \A u \in Upload : ~Busy(u) /\ filing[u].uploadedAt = 0
        /\ section = "NOT_STARTED"
    BY DEF AnnualInit, AnnualStoreInit, UlbInit, Busy
  <2>2. TimesInv
    BY <2>1, ClockTyped, UploadsAreCounted DEF TimesInv
  <2>3. \A h \in Handler : req[h].op = "none"
    BY <2>1, NoRequestTyped
  <2>4. QED  BY <2>1, <2>2, <2>3 DEF SectionFacts
<1>2. AnnualTypeInv /\ TimesInv /\ [AnnualNext]_annualVars => TimesInv'
  <2>1. UNCHANGED annualVars /\ TimesInv => TimesInv'
    BY DEF annualVars, ulbvars, TimesInv, Clock
  <2>2. QED  BY <2>1, TimesStay
<1>3. AnnualTypeInv /\ QuietInv /\ TimesInv /\ SectionInv /\ [AnnualNext]_annualVars => SectionInv'
  <2> SUFFICES ASSUME AnnualTypeInv, QuietInv, TimesInv, SectionInv, [AnnualNext]_annualVars, Quiet'
               PROVE  SectionFacts'
    BY DEF SectionInv
  <2>1. CASE UNCHANGED annualVars
    BY <2>1 DEF annualVars, ulbvars, annualStore, SectionInv, Quiet, SectionFacts, Busy, AllPassed, Passed, UnderReview,
                Approving, Effective, Clock
  <2>2. CASE AnnualNext
    <3>1. Quiet
      BY <2>2, SceneStays DEF Quiet
    <3>2. QED  BY <2>2, <3>1, SectionStep DEF SectionInv, QuietInv
  <2>3. QED  BY <2>1, <2>2
<1>4. SectionInv => ApprovedIsWhole
  BY DEF SectionInv, SectionFacts, AllPassed, ApprovedIsWhole
<1>5. QED
  BY <1>1, <1>2, <1>3, <1>4, AnnualTypeInvariant, QuietInvariant, PTL DEF AnnualSpec

-----------------------------------------------------------------------------
(* Annual accounts: the queue of the ADMIN                                 *)

AwaitsFile(u) == \E i \in DOMAIN documents : documents[i].upload = u /\ Awaiting(documents[i])

\* A request that has written its entry has yet to write its row.
RowToWrite(h) == req[h].op \in {"askRow", "decideRow"}

\* An upload has one pending row when its review waits in the entry, none otherwise; a request
\* between its two writes has the two apart.
QueueOf(u) ==
  /\ pending[u] \in {0, 1}
  /\ (\A h \in Handler : RowToWrite(h) => req[h].on # u) => (pending[u] = 1 <=> AwaitsFile(u))
  /\ \A h \in Handler : req[h].on = u =>
       /\ req[h].op = "askRow" => AwaitsFile(u) /\ pending[u] = 0
       /\ req[h].op = "decideRow" => ~AwaitsFile(u)

QueueInv == Quiet /\ ~cast.faults => \A u \in Upload : QueueOf(u)

\* Reviews begin to wait when they are asked for, and end when they are decided.
LEMMA AwaitingMoves ==
  ASSUME AnnualTypeInv, AnnualNext, Quiet, QuietReviews, NEW i \in DOMAIN documents'
  PROVE  \/ i \notin DOMAIN documents /\ ~Awaiting(documents'[i])
         \/ /\ i \in DOMAIN documents /\ documents'[i].docId = documents[i].docId
            /\ \/ /\ Awaiting(documents'[i]) <=> Awaiting(documents[i])
                  /\ Awaiting(documents[i]) => documents'[i].upload = documents[i].upload
               \/ \E h \in Handler : AskEntry(h) /\ documents[i].docId = req[h].docId
               \/ \E h \in Handler : RuleEntry(h) /\ documents[i].docId = req[h].docId
<1>0. /\ OneAtATime /\ OneClaim /\ OneEntry /\ VerdictStands /\ ReadsHold
      /\ EntryMoves(i)
  BY EntriesMove DEF QuietReviews
<1>1. ASSUME NEW w \in Worker, i \in DOMAIN documents, ApplyResult(w), documents[i].upload = w[1],
             documents'[i] = WithResult(documents[i], worker[w])
      PROVE  ~Awaiting(documents'[i]) /\ ~Awaiting(documents[i])
  BY <1>0, <1>1, ResultGiven DEF Awaiting
<1>2. ASSUME NEW u \in Upload, i \in DOMAIN documents, WriteEntry(u), documents[i].docId = filing[u].docId
      PROVE  ~Awaiting(documents[i])
  BY <1>0, <1>2 DEF ReadsHold, WriteEntry
<1>3. ASSUME NEW h \in Handler, i \in DOMAIN documents, RemoveFile(h), documents[i].docId = req[h].docId
      PROVE  ~Awaiting(documents[i])
  BY <1>0, <1>3 DEF ReadsHold, RemoveFile
<1>4. \A h \in Handler : ~RetryEntry(h)
  BY <1>0 DEF OneAtATime, RetryEntry
<1>5. QED
  BY <1>0, <1>1, <1>2, <1>3, <1>4 DEF EntryMoves, SetBack, SameFile, Awaiting

\* Where no review is asked for or decided, the queue that the documents make up stays.
LEMMA AwaitedStays ==
  ASSUME AnnualTypeInv, AnnualNext, Quiet, QuietReviews, NEW u \in Upload,
         \A h \in Handler : AskEntry(h) \/ RuleEntry(h) =>
           \A i \in DOMAIN documents : documents[i].docId = req[h].docId => documents[i].upload # u /\ documents'[i].upload # u
  PROVE  AwaitsFile(u)' <=> AwaitsFile(u)
<1>1. \A i \in DOMAIN documents' :
        \/ i \notin DOMAIN documents /\ ~Awaiting(documents'[i])
        \/ /\ i \in DOMAIN documents
           /\ \/ /\ Awaiting(documents'[i]) <=> Awaiting(documents[i])
                 /\ Awaiting(documents[i]) => documents'[i].upload = documents[i].upload
              \/ documents[i].upload # u /\ documents'[i].upload # u
  BY AwaitingMoves
<1>2. \A i \in DOMAIN documents : i \in DOMAIN documents'
  BY EntriesStay
<1>3. QED  BY <1>1, <1>2 DEF AwaitsFile, Awaiting

\* The rows of the ADMIN's queue are written by the request that asks and the one that decides.
LEMMA PendingMoves ==
  ASSUME AnnualNext, \A h \in Handler : ~AskRow(h) /\ ~RuleRow(h)
  PROVE  pending' = pending
<1>1. \A u \in Upload : Confirm(u) => UNCHANGED pending
  BY Zenon DEF Confirm, CheckUpload, ReadVersion, TouchSection, WriteEntry, PushEntry, CreateHistory, EnqueueUpload,
         annualStore
<1>2. \A h \in Handler : UlbRequest(h) => UNCHANGED pending
  BY ZenonT(40) DEF UlbRequest, BeginRetry, RetryHistory, RetryEntry, EnqueueRetry, BeginRemove, BeginAsk, RemoveFile,
         AskEntry, BeginSubmit, SubmitSection, annualStore
<1>3. OcrStep \/ CooldownEnds \/ RequestDies => UNCHANGED pending
  BY ZenonT(40) DEF OcrStep, CronTick, StartRun, RecordJob, StillRunning, Claim, ReadStrikes, ApplyResult, WorkerFails,
         ocrUnchanged, CooldownEnds, RequestDies, annualStore
<1>4. \A h \in Handler : ReviewRequest(h) => UNCHANGED pending
  BY Zenon DEF ReviewRequest, BeginDocument, BeginRuling, BeginSection, DecideDocument, DecideSection, BeginUndo,
         UndoApproval, RuleEntry, annualStore
<1>5. QED  BY <1>1, <1>2, <1>3, <1>4 DEF AnnualNext

LEMMA QueueStep ==
  ASSUME AnnualTypeInv, AnnualNext, Quiet, ~cast.faults, QuietReviews, \A u \in Upload : QueueOf(u)
  PROVE  \A u \in Upload : QueueOf(u)'
<1>0. /\ OneAtATime /\ OneEntry /\ ReadsHold /\ RequestInv
      /\ documents \in Seq(DocumentItem) /\ req \in [Handler -> Request] /\ NoRequest.op = "none"
      /\ \A i \in DOMAIN documents : documents[i] \in DocumentItem
      /\ pending \in [Upload -> Nat]
  BY NoRequestTyped DEF QuietReviews, AnnualTypeInv, AnnualTypeOK, AnnualStoreTypeOK, UlbTypeOK
<1>1. \A h \in Handler : RequestMoves(h)
  BY <1>0, QuietRequestsMove
<1>2. ASSUME NEW g \in Handler, req[g] # NoRequest
      PROVE  \A h \in Handler : h # g => req[h].op = "none"
  BY <1>0, <1>2 DEF OneAtATime
\* An entry is written, the row is yet to be.
<1>3. ASSUME NEW g \in Handler, AskEntry(g) \/ RuleEntry(g)
      PROVE  \A u \in Upload : QueueOf(u)'
  <2> DEFINE v == req[g].on
             k == First(req[g].docId)
             op == IF req[g].op = "ask" THEN "askRow" ELSE "decideRow"
  <2>1. req[g].op \in {"ask", "decide"} /\ req[g] # NoRequest /\ v \in Upload /\ HasEntry(req[g].docId)
    BY <1>0, <1>3 DEF AskEntry, RuleEntry, RequestInv
  <2>2. /\ k \in DOMAIN documents /\ documents[k].docId = req[g].docId
        /\ \A i \in DOMAIN documents : documents[i].docId = req[g].docId => i = k
    BY <1>0, <2>1, FirstIsEntry DEF OneEntry
  <2>3. /\ documents[k].upload = v /\ v # NoUpload
        /\ req[g].op = "ask" => ~Awaiting(documents[k])
    BY <1>0, <2>1, <2>2, UploadAssumption DEF ReadsHold, Awaiting
  <2>4. /\ req' = [req EXCEPT ![g].op = op]
        /\ documents' = [documents EXCEPT ![k] = documents'[k]]
        /\ documents'[k].upload = v /\ (Awaiting(documents'[k]) <=> req[g].op = "ask")
    <3>1. CASE req[g].op = "ask"
      <4>1. AskEntry(g)
        BY <1>3, <3>1 DEF RuleEntry
      <4>2. /\ documents' = [documents EXCEPT ![k].requested = TRUE, ![k].review = NoVerdict]
            /\ req' = [req EXCEPT ![g].op = "askRow"]
        BY <2>3, <4>1 DEF AskEntry
      <4>3. documents' = [documents EXCEPT ![k] = [documents[k] EXCEPT !.requested = TRUE, !.review = NoVerdict]]
        BY <4>2
      <4>4. QED  BY <1>0, <2>2, <2>3, <3>1, <4>2, <4>3, ZenonT(40) DEF DocumentItem, Awaiting
    <3>2. CASE req[g].op = "decide"
      <4>1. RuleEntry(g)
        BY <1>3, <3>2 DEF AskEntry
      <4>2. /\ documents' = [documents EXCEPT ![k] = Ruling(documents[k], req[g].verdict)]
            /\ req' = [req EXCEPT ![g].op = "decideRow"] /\ req[g].verdict \in Verdict
        BY <1>0, <4>1 DEF RuleEntry, RequestInv
      <4>3. /\ Ruling(documents[k], req[g].verdict).upload = v
            /\ Ruling(documents[k], req[g].verdict).review = req[g].verdict
        BY <1>0, <2>2, <2>3, <4>2, RulingItem
      <4>4. req[g].verdict # NoVerdict
        BY <4>2 DEF Verdict, NoVerdict
      <4>5. documents'[k] = Ruling(documents[k], req[g].verdict)
        BY <1>0, <2>2, <4>2
      <4>6. QED  BY <3>2, <4>2, <4>3, <4>4, <4>5 DEF Awaiting
    <3>3. QED  BY <2>1, <3>1, <3>2
  <2> HIDE DEF k
  <2>5. \A i \in DOMAIN documents : documents[i].upload = v => i = k
    BY <1>0, <2>2, <2>3 DEF OneEntry
  <2>6. DOMAIN documents' = DOMAIN documents /\ \A i \in DOMAIN documents : i # k => documents'[i] = documents[i]
    BY <1>0, <2>2, <2>4
  <2>7. AwaitsFile(v)' <=> req[g].op = "ask"
    BY <2>2, <2>4, <2>5, <2>6 DEF AwaitsFile, Awaiting
  <2>8. req[g].op = "ask" => ~AwaitsFile(v)
    BY <2>3, <2>5 DEF AwaitsFile
  <2>9. pending' = pending
    BY <1>3 DEF AskEntry, RuleEntry
  <2>10. /\ req'[g].op = op /\ req'[g].on = v
         /\ \A h \in Handler : h # g => req'[h].op = "none" /\ req'[h] = req[h]
    BY <1>0, <1>2, <2>1, <2>4 DEF Request
  <2>11. \A h \in Handler : ~RowToWrite(h)
    BY <1>2, <2>1 DEF RowToWrite
  <2>12. ASSUME NEW u \in Upload
         PROVE  QueueOf(u)'
    <3>1. pending[u] \in {0, 1} /\ (pending[u] = 1 <=> AwaitsFile(u))
      BY <2>11 DEF QueueOf
    <3>2. CASE u = v
      BY <2>1, <2>7, <2>8, <2>9, <2>10, <3>1, <3>2 DEF QueueOf, RowToWrite
    <3>3. CASE u # v
      <4>1. AwaitsFile(u)' <=> AwaitsFile(u)
        BY <2>2, <2>3, <2>4, <2>6, <3>3 DEF AwaitsFile, Awaiting
      <4>2. QED  BY <2>9, <2>10, <3>1, <3>3, <4>1 DEF QueueOf, RowToWrite
    <3>4. QED  BY <3>2, <3>3
  <2>13. QED  BY <2>12
\* The row is written.
<1>4. ASSUME NEW g \in Handler, AskRow(g) \/ RuleRow(g)
      PROVE  \A u \in Upload : QueueOf(u)'
  <2> DEFINE v == req[g].on
  <2>1. RowToWrite(g) /\ req[g] # NoRequest /\ v \in Upload /\ UNCHANGED documents /\ Finish(g)
    BY <1>0, <1>4 DEF AskRow, RuleRow, RequestInv, RowToWrite
  <2>2. \A h \in Handler : req'[h].op = "none"
    BY <1>0, <1>2, <2>1 DEF Finish
  <2>3. \A h \in Handler : RowToWrite(h) => h = g
    BY <1>2, <2>1 DEF RowToWrite
  <2>4. \A u \in Upload : AwaitsFile(u)' <=> AwaitsFile(u)
    BY <2>1 DEF AwaitsFile, Awaiting
  <2>5. \A u \in Upload : u # v => pending'[u] = pending[u]
    BY <1>0, <1>4 DEF AskRow, RuleRow
  <2>6. QueueOf(v)
    BY <2>1
  <2>7. IF req[g].op = "askRow" THEN AwaitsFile(v) /\ pending'[v] = 1 ELSE ~AwaitsFile(v) /\ pending'[v] = 0
    <3>1. CASE AskRow(g)
      BY <1>0, <2>1, <2>6, <3>1 DEF AskRow, QueueOf
    <3>2. CASE RuleRow(g)
      BY <1>0, <2>1, <2>6, <3>2 DEF RuleRow, QueueOf, PendingAfter
    <3>3. QED  BY <1>4, <3>1, <3>2
  <2>8. ASSUME NEW u \in Upload
        PROVE  QueueOf(u)'
    <3>1. CASE u = v
      BY <2>2, <2>4, <2>7, <3>1 DEF QueueOf, RowToWrite
    <3>2. CASE u # v
      <4>1. pending[u] \in {0, 1} /\ (pending[u] = 1 <=> AwaitsFile(u))
        BY <2>3, <3>2 DEF QueueOf
      <4>2. QED  BY <2>2, <2>4, <2>5, <3>2, <4>1 DEF QueueOf, RowToWrite
    <3>3. QED  BY <3>1, <3>2
  <2>9. QED  BY <2>8
\* All else leaves both as they are.
<1>5. ASSUME \A g \in Handler : ~AskEntry(g) /\ ~RuleEntry(g) /\ ~AskRow(g) /\ ~RuleRow(g)
      PROVE  \A u \in Upload : QueueOf(u)'
  <2>1. pending' = pending
    BY <1>5, PendingMoves
  <2>2. \A u \in Upload : AwaitsFile(u)' <=> AwaitsFile(u)
    BY <1>5, AwaitedStays
  <2>3. ASSUME NEW h \in Handler
        PROVE  /\ RowToWrite(h) => req'[h] = req[h]
               /\ RowToWrite(h)' => req'[h] = req[h]
    <3>1. ~RequestDies
      BY DEF RequestDies
    <3>2. Begins(h) => ~RowToWrite(h)' /\ req[h] = NoRequest
      BY DEF Begins, NoRequest, RowToWrite, BeginRemove, BeginAsk, BeginSubmit, BeginDocument, BeginRuling, BeginSection,
             BeginUndo, Start
    <3>3. RemoveFile(h) \/ SubmitSection(h) \/ DecideDocument(h) \/ DecideSection(h) \/ UndoApproval(h) => ~RowToWrite(h)
      BY DEF RemoveFile, SubmitSection, DecideDocument, DecideSection, UndoApproval, RowToWrite
    <3>4. QED  BY <1>0, <1>1, <1>5, <3>1, <3>2, <3>3 DEF RequestMoves, RowToWrite
  <2>4. ASSUME NEW u \in Upload
        PROVE  QueueOf(u)'
    <3>1. QueueOf(u)
      OBVIOUS
    <3>2. (\A h \in Handler : RowToWrite(h)' => req'[h].on # u) => \A h \in Handler : RowToWrite(h) => req[h].on # u
      BY <2>3 DEF RowToWrite
    <3>3. pending'[u] = pending[u]
      BY <2>1
    <3>4. \A h \in Handler : req'[h].on = u =>
            /\ req'[h].op = "askRow" => AwaitsFile(u) /\ pending[u] = 0
            /\ req'[h].op = "decideRow" => ~AwaitsFile(u)
      BY <2>3, <3>1 DEF QueueOf, RowToWrite
    <3>5. QED  BY <2>2, <3>1, <3>2, <3>3, <3>4 DEF QueueOf
  <2>5. QED  BY <2>4
<1>6. QED  BY <1>3, <1>4, <1>5

\* Without overlap, retries and failures, the queue that the documents make up and the PENDING rows of
\* the history agree whenever no request is open.
THEOREM QueueAgrees == AnnualSpec => []QueueMatchesHistory
<1>1. AnnualInit => QueueInv
  <2> SUFFICES ASSUME AnnualInit, NEW u \in Upload
               PROVE  QueueOf(u)
    BY DEF QueueInv
  <2>1. /\ \A h \in Handler : req[h] = NoRequest
        /\ pending[u] = 0 /\ documents = <<>>
    BY DEF AnnualInit, AnnualStoreInit, UlbInit
  <2>2. \A h \in Handler : req[h].op = "none"
    BY <2>1, NoRequestTyped
  <2>3. ~AwaitsFile(u)
    BY <2>1 DEF AwaitsFile
  <2>4. QED  BY <2>1, <2>2, <2>3 DEF QueueOf
<1>2. AnnualTypeInv /\ QuietInv /\ QueueInv /\ [AnnualNext]_annualVars => QueueInv'
  <2> SUFFICES ASSUME AnnualTypeInv, QuietInv, QueueInv, [AnnualNext]_annualVars, Quiet', ~cast'.faults
               PROVE  \A u \in Upload : QueueOf(u)'
    BY DEF QueueInv
  <2>1. CASE UNCHANGED annualVars
    BY <2>1 DEF annualVars, ulbvars, annualStore, QueueInv, Quiet, QueueOf, AwaitsFile, Awaiting, RowToWrite
  <2>2. CASE AnnualNext
    <3>1. Quiet /\ ~cast.faults
      BY <2>2, SceneStays DEF Quiet
    <3>2. QED  BY <2>2, <3>1, QueueStep DEF QueueInv, QuietInv
  <2>3. QED  BY <2>1, <2>2
<1>3. QueueInv => QueueMatchesHistory
  <2> SUFFICES ASSUME QueueInv, Quiet, Open = {}, ~cast.faults, NEW u \in Upload
               PROVE  (pending[u] > 0) <=> AwaitsFile(u)
    BY DEF QueueMatchesHistory, AwaitsFile
  <2>1. \A h \in Handler : req[h].op = "none"
    BY NoRequestTyped DEF Open
  <2>2. QED  BY <2>1 DEF QueueInv, QueueOf, RowToWrite
<1>4. QED
  BY <1>1, <1>2, <1>3, AnnualTypeInvariant, QuietInvariant, PTL DEF AnnualSpec

-----------------------------------------------------------------------------
(* Annual accounts: no document is stranded                                *)

\* How a row moves without a retry.
RowChanges(u) ==
  \/ history'[u] = history[u]
  \/ /\ CreateHistory(u) /\ history[u] = NoRow /\ history'[u] # NoRow
     /\ history'[u].docId = filing[u].docId /\ history'[u].version = filing[u].version
     /\ history'[u].processing = "PROCESSING"
     /\ \A v \in Upload : v # u => history'[v] = history[v]
  \/ /\ history[u] # NoRow /\ history'[u] # NoRow
     /\ history'[u].docId = history[u].docId /\ history'[u].version = history[u].version
     /\ \/ \E w \in Worker : /\ StartRun(w) /\ w[1] = u /\ history'[u].processing = history[u].processing
                             /\ history'[u].started = TRUE /\ history'[u].job = history[u].job
        \/ \E w \in Worker : /\ RecordJob(w) /\ w[1] = u /\ history'[u].processing = history[u].processing
                             /\ history'[u].started = history[u].started /\ history'[u].job = TRUE
        \/ \E w \in Worker, result \in {"PASS", "FAIL", "ERROR"} :
             /\ Claim(w, result) /\ w[1] = u /\ Claimable(u)
             /\ history'[u].started = history[u].started /\ history'[u].job = history[u].job

LEMMA RowsChange ==
  ASSUME AnnualTypeInv, AnnualNext, OneAtATime
  PROVE  \A u \in Upload : RowChanges(u)
<1>0. /\ RowInv /\ WorkerInv /\ FilingInv
      /\ filing \in [Upload -> FilingState] /\ history \in [Upload -> HistoryRow \cup {NoRow}]
  BY DEF AnnualTypeInv, AnnualTypeOK, AnnualStoreTypeOK, UlbTypeOK
<1>1. UNCHANGED history => \A u \in Upload : RowChanges(u)
  BY DEF RowChanges
<1>2. ASSUME NEW u \in Upload, CreateHistory(u)
      PROVE  \A v \in Upload : RowChanges(v)
  <2> DEFINE row == [docId |-> filing[u].docId, version |-> filing[u].version, processing |-> "PROCESSING",
                     started |-> FALSE, job |-> FALSE, runs |-> 1, passes |-> 0, fails |-> 0]
  <2>1. history[u] = NoRow
    BY <1>0, <1>2 DEF CreateHistory, RowInv
  <2>2. row.docId = filing[u].docId /\ row.version = filing[u].version /\ row.processing = "PROCESSING"
    OBVIOUS
  <2>3. row # NoRow
    BY <2>2, RowsAreRows
  <2>4. UNCHANGED history \/ history' = [history EXCEPT ![u] = row]
    BY <1>2 DEF CreateHistory
  <2> HIDE DEF row
  <2>5. CASE history' = [history EXCEPT ![u] = row]
    <3>1. history'[u] = row /\ \A v \in Upload : v # u => history'[v] = history[v]
      BY <1>0, <2>5
    <3>2. QED  BY <1>2, <2>1, <2>2, <2>3, <3>1 DEF RowChanges
  <2>6. QED  BY <1>1, <2>4, <2>5
<1>3. ASSUME NEW w \in Worker, NEW row, history' = [history EXCEPT ![w[1]] = row], row # NoRow, history[w[1]] # NoRow,
             row.docId = history[w[1]].docId, row.version = history[w[1]].version,
             \/ /\ StartRun(w) /\ row.processing = history[w[1]].processing
                /\ row.started = TRUE /\ row.job = history[w[1]].job
             \/ /\ RecordJob(w) /\ row.processing = history[w[1]].processing
                /\ row.started = history[w[1]].started /\ row.job = TRUE
             \/ /\ \E result \in {"PASS", "FAIL", "ERROR"} : Claim(w, result) /\ Claimable(w[1])
                /\ row.started = history[w[1]].started /\ row.job = history[w[1]].job
      PROVE  \A v \in Upload : RowChanges(v)
  <2>1. w[1] \in Upload
    BY RestTyped
  <2>2. history'[w[1]] = row /\ \A v \in Upload : v # w[1] => history'[v] = history[v]
    BY <1>0, <1>3, <2>1
  <2>3. RowChanges(w[1])
    BY <1>3, <2>2 DEF RowChanges
  <2>4. QED  BY <2>2, <2>3 DEF RowChanges
<1>4. ASSUME NEW w \in Worker, worker[w].pc \notin {"unused", "ended"}
      PROVE  w[1] \in Upload /\ history[w[1]] # NoRow /\ history[w[1]] \in HistoryRow
  BY <1>0, <1>4, RestTyped DEF WorkerInv
<1>5. ASSUME NEW w \in Worker, StartRun(w)
      PROVE  \A v \in Upload : RowChanges(v)
  <2> DEFINE row == [history[w[1]] EXCEPT !.started = TRUE]
  <2>1. w[1] \in Upload /\ history[w[1]] # NoRow /\ history[w[1]] \in HistoryRow
    BY <1>4, <1>5 DEF StartRun
  <2>2. /\ row \in HistoryRow /\ row.docId = history[w[1]].docId /\ row.version = history[w[1]].version
        /\ row.processing = history[w[1]].processing /\ row.started = TRUE /\ row.job = history[w[1]].job
    BY <2>1 DEF HistoryRow
  <2>3. history' = [history EXCEPT ![w[1]] = row]
    BY <1>5 DEF StartRun
  <2> HIDE DEF row
  <2>4. row # NoRow
    BY <2>2, RowsAreRows
  <2>5. QED  BY <1>3, <1>5, <2>1, <2>2, <2>3, <2>4
<1>6. ASSUME NEW w \in Worker, RecordJob(w)
      PROVE  \A v \in Upload : RowChanges(v)
  <2> DEFINE row == [history[w[1]] EXCEPT !.job = TRUE]
  <2>1. w[1] \in Upload /\ history[w[1]] # NoRow /\ history[w[1]] \in HistoryRow
    BY <1>4, <1>6 DEF RecordJob
  <2>2. /\ row \in HistoryRow /\ row.docId = history[w[1]].docId /\ row.version = history[w[1]].version
        /\ row.processing = history[w[1]].processing /\ row.started = history[w[1]].started /\ row.job = TRUE
    BY <2>1 DEF HistoryRow
  <2>3. history' = [history EXCEPT ![w[1]] = row]
    BY <1>6 DEF RecordJob
  <2> HIDE DEF row
  <2>4. row # NoRow
    BY <2>2, RowsAreRows
  <2>5. QED  BY <1>3, <1>6, <2>1, <2>2, <2>3, <2>4
<1>7. ASSUME NEW w \in Worker, NEW result \in {"PASS", "FAIL", "ERROR"}, Claim(w, result)
      PROVE  \A v \in Upload : RowChanges(v)
  <2> DEFINE row == Settled(history[w[1]], result)
  <2>1. w[1] \in Upload /\ history[w[1]] # NoRow /\ history[w[1]] \in HistoryRow
    BY <1>4, <1>7 DEF Claim
  <2>2. /\ row \in HistoryRow /\ row.docId = history[w[1]].docId
    BY <2>1, SettledRow
  <2>3. /\ row.version = history[w[1]].version
        /\ row.started = history[w[1]].started /\ row.job = history[w[1]].job
    BY <2>1 DEF HistoryRow, Settled
  <2>4. (Claimable(w[1]) /\ history' = [history EXCEPT ![w[1]] = row]) \/ UNCHANGED history
    BY <1>7 DEF Claim
  <2> HIDE DEF row
  <2>5. row # NoRow
    BY <2>2, RowsAreRows
  <2>6. QED  BY <1>1, <1>3, <1>7, <2>1, <2>2, <2>3, <2>4, <2>5
<1>8. ASSUME NEW u \in Upload, Confirm(u)
      PROVE  \A v \in Upload : RowChanges(v)
  BY <1>1, <1>2, <1>8, Zenon DEF Confirm, CheckUpload, ReadVersion, TouchSection, WriteEntry, PushEntry, EnqueueUpload, annualStore
<1>9. ASSUME NEW h \in Handler, UlbRequest(h)
      PROVE  UNCHANGED history
  BY <1>9, Zenon DEF OneAtATime, UlbRequest, BeginRetry, RetryHistory, RetryEntry, EnqueueRetry, BeginRemove, BeginAsk, RemoveFile,
              AskEntry, AskRow, BeginSubmit, SubmitSection, annualStore
<1>10. OcrStep => \A v \in Upload : RowChanges(v)
  BY <1>1, <1>5, <1>6, <1>7, ZenonT(40) DEF OcrStep, CronTick, StillRunning, ReadStrikes, ApplyResult, WorkerFails
<1>11. RequestDies \/ CooldownEnds \/ (\E h \in Handler : ReviewRequest(h)) => UNCHANGED history
  BY Zenon DEF RequestDies, CooldownEnds, ReviewRequest, BeginDocument, BeginRuling, BeginSection, DecideDocument,
         DecideSection, BeginUndo, UndoApproval, RuleEntry, RuleRow, reviewUnchanged, annualStore
<1>12. QED  BY <1>1, <1>8, <1>9, <1>10, <1>11 DEF AnnualNext

\* How a run moves without a retry and failures.
RunChanges(w) ==
  \/ worker'[w].pc = worker[w].pc
  \/ EnqueueUpload(w[1]) /\ worker[w].pc = "unused" /\ worker'[w].pc = "waiting"
  \/ CronTick(w[1]) /\ worker[w].pc = "unused" /\ worker'[w].pc = "polling"
  \/ StartRun(w) /\ worker'[w].pc = "active"
  \/ /\ RecordJob(w)
     /\ IF Entry(history[w[1]].docId).upload # NoUpload THEN worker'[w].pc = "polling"
        ELSE worker'[w].pc \in {"waiting", "ended"}
  \/ worker[w].pc = "polling" /\ worker'[w].pc \in {"unused", "ended", "claimed", "apply"}
  \/ worker[w].pc = "claimed" /\ worker'[w].pc = "apply"
  \/ ApplyResult(w) /\ worker'[w].pc \in {"unused", "ended"}

LEMMA RunsChange ==
  ASSUME AnnualTypeInv, AnnualNext, OneAtATime, ~cast.faults
  PROVE  \A w \in Worker : RunChanges(w)
<1>0. worker \in [Worker -> WorkerState] /\ MaxRuns \in Nat
  BY CastAssumption DEF AnnualTypeInv, AnnualTypeOK, UlbTypeOK
<1>1. UNCHANGED worker => \A w \in Worker : RunChanges(w)
  BY DEF RunChanges
<1>3. ASSUME NEW u \in Upload, EnqueueUpload(u)
      PROVE  \A x \in Worker : RunChanges(x)
  <2>1. PICK n \in 1..MaxRuns : worker[<<u, n>>].pc = "unused" /\ worker' = [worker EXCEPT ![<<u, n>>].pc = "waiting"]
    BY <1>3 DEF EnqueueUpload, Enqueue
  <2> DEFINE w == <<u, n>>
  <2>2. w \in Worker /\ w[1] = u
    BY <1>0 DEF Worker
  <2>3. worker'[w].pc = "waiting" /\ \A x \in Worker : x # w => worker'[x] = worker[x]
    BY <1>0, <2>1, <2>2 DEF WorkerState
  <2>4. RunChanges(w)
    BY <1>3, <2>1, <2>2, <2>3 DEF RunChanges
  <2> HIDE DEF w
  <2>5. QED  BY <2>3, <2>4 DEF RunChanges
<1>4. ASSUME NEW u \in Upload, CronTick(u)
      PROVE  \A x \in Worker : RunChanges(x)
  <2> DEFINE w == <<u, 0>>
  <2>1. w \in Worker /\ w[1] = u
    BY <1>0 DEF Worker
  <2>2. worker[w].pc = "unused" /\ worker'[w].pc = "polling" /\ \A x \in Worker : x # w => worker'[x] = worker[x]
    BY <1>0, <1>4, <2>1 DEF CronTick, WorkerPc, WorkerState
  <2>3. RunChanges(w)
    BY <1>4, <2>1, <2>2 DEF RunChanges
  <2> HIDE DEF w
  <2>4. QED  BY <2>2, <2>3 DEF RunChanges
<1>5. ASSUME NEW w \in Worker, StartRun(w) \/ RecordJob(w) \/ StillRunning(w) \/ ReadStrikes(w) \/ ApplyResult(w)
                               \/ \E result \in {"PASS", "FAIL", "ERROR"} : Claim(w, result)
      PROVE  \A x \in Worker : RunChanges(x)
  <2>1. \A x \in Worker : x # w => worker'[x] = worker[x]
    BY <1>0, <1>5 DEF StartRun, RecordJob, StillRunning, ReadStrikes, ApplyResult, Claim, WorkerPc
  <2>2. Rest(w).pc \in {"unused", "ended"} /\ worker[w] \in WorkerState
    BY <1>0, RestTyped
  <2>3. RunChanges(w)
    <3>1. CASE StartRun(w)
      BY <1>0, <3>1 DEF StartRun, WorkerPc, RunChanges, WorkerState
    <3>2. CASE RecordJob(w)
      BY <1>0, <3>2 DEF RecordJob, WorkerPc, RunChanges, WorkerState
    <3>3. CASE StillRunning(w)
      BY <1>0, <2>2, <3>3 DEF StillRunning, RunChanges
    <3>4. CASE ReadStrikes(w)
      BY <1>0, <3>4, ZenonT(40) DEF ReadStrikes, WorkerPc, RunChanges, WorkerState
    <3>5. CASE ApplyResult(w)
      BY <1>0, <2>2, <3>5 DEF ApplyResult, RunChanges
    <3>6. ASSUME NEW result \in {"PASS", "FAIL", "ERROR"}, Claim(w, result)
          PROVE  RunChanges(w)
      BY <1>0, <2>2, <3>6 DEF Claim, RunChanges, WorkerState
    <3>7. QED  BY <1>5, <3>1, <3>2, <3>3, <3>4, <3>5, <3>6
  <2>4. QED  BY <2>1, <2>3 DEF RunChanges
<1>6. OcrStep => \A x \in Worker : RunChanges(x)
  BY <1>4, <1>5 DEF OcrStep, WorkerFails
<1>7. ASSUME NEW u \in Upload, Confirm(u)
      PROVE  \A x \in Worker : RunChanges(x)
  BY <1>1, <1>3, <1>7 DEF Confirm, CheckUpload, ReadVersion, TouchSection, WriteEntry, PushEntry, CreateHistory
<1>8. ASSUME NEW h \in Handler, UlbRequest(h)
      PROVE  UNCHANGED worker
  BY <1>8, ZenonT(40) DEF OneAtATime, UlbRequest, BeginRetry, RetryHistory, RetryEntry, EnqueueRetry, BeginRemove, BeginAsk, RemoveFile,
              AskEntry, AskRow, BeginSubmit, SubmitSection
<1>9. RequestDies \/ (\E h \in Handler : ReviewRequest(h)) => UNCHANGED worker
  BY Zenon DEF RequestDies, ReviewRequest, BeginDocument, BeginRuling, BeginSection, DecideDocument,
         DecideSection, BeginUndo, UndoApproval, RuleEntry, RuleRow, reviewUnchanged
<1>10. QED  BY <1>1, <1>6, <1>7, <1>8, <1>9 DEF AnnualNext

\* An upload has the version after those of its document's rows, until it has a row itself.
VersionsInv ==
  /\ \A u \in Upload : history[u] # NoRow =>
       history[u].docId = filing[u].docId /\ history[u].version <= Cardinality(Rows(history[u].docId))
  /\ \A u \in Upload : filing[u].pc \in {"counted", "touched", "push", "slotted"} =>
       filing[u].version = Cardinality(Rows(filing[u].docId)) + 1

\* A run has left in the row what the cron looks for.
RunsTell ==
  \A w \in Worker :
    /\ worker[w].pc = "active" => history[w[1]].started
    /\ worker[w].pc = "polling" => history[w[1]].started /\ history[w[1]].job

\* The result of the file of u is still to come.
Coming(u) ==
  /\ history[u] # NoRow
  /\ \/ /\ history[u].processing = "PROCESSING"
        /\ \/ filing[u].pc = "recorded"
           \/ history[u].started /\ history[u].job
           \/ \E w \in Worker : w[1] = u /\ worker[w].pc \in {"waiting", "active"}
     \/ \E w \in Worker : w[1] = u /\ Claiming(w)

ComingInv ==
  \A i \in DOMAIN documents :
    LET u == documents[i].upload
    IN documents[i].processing = "PROCESSING" /\ filing[u].pc \in {"recorded", "done"} => Coming(u)

StrandFacts == VersionsInv /\ RunsTell /\ ComingInv

StrandInv == Quiet /\ ~cast.faults => StrandFacts

\* The rows of a document change when an upload gets its row.
LEMMA RowsOfDocument ==
  ASSUME AnnualTypeInv, AnnualNext, OneAtATime, NEW d
  PROVE  \/ /\ Rows(d)' = Rows(d)
            /\ \A u \in Upload : history[u] = NoRow => history'[u] = NoRow
         \/ \E u \in Upload : /\ CreateHistory(u) /\ history[u] = NoRow /\ history'[u] # NoRow
                              /\ history'[u].docId = filing[u].docId /\ history'[u].version = filing[u].version
                              /\ Rows(d)' = IF d = filing[u].docId THEN Rows(d) \cup {u} ELSE Rows(d)
<1>0. \A u \in Upload : RowChanges(u)
  BY RowsChange
<1>1. CASE \E u \in Upload : history[u] = NoRow /\ history'[u] # NoRow
  <2>1. PICK u \in Upload : history[u] = NoRow /\ history'[u] # NoRow
    BY <1>1
  <2>2. /\ CreateHistory(u) /\ history'[u].docId = filing[u].docId /\ history'[u].version = filing[u].version
        /\ \A v \in Upload : v # u => history'[v] = history[v]
    BY <1>0, <2>1 DEF RowChanges
  <2>3. Rows(d)' = IF d = filing[u].docId THEN Rows(d) \cup {u} ELSE Rows(d)
    BY <2>1, <2>2 DEF Rows
  <2>4. QED  BY <2>1, <2>2, <2>3
<1>2. CASE \A u \in Upload : history[u] = NoRow => history'[u] = NoRow
  <2>1. \A u \in Upload : history[u] # NoRow => history'[u] # NoRow /\ history'[u].docId = history[u].docId
    BY <1>0 DEF RowChanges
  <2>2. Rows(d)' = Rows(d)
    BY <1>2, <2>1 DEF Rows
  <2>3. QED  BY <1>2, <2>2
<1>3. QED  BY <1>1, <1>2

LEMMA RowsCounted ==
  ASSUME NEW d
  PROVE  IsFiniteSet(Rows(d)) /\ Cardinality(Rows(d)) \in Nat
BY UploadAssumption, FS_Subset, FS_CardinalityType DEF Rows

LEMMA VersionsStay ==
  ASSUME AnnualTypeInv, AnnualNext, OneAtATime, VersionsInv
  PROVE  VersionsInv'
<1> DEFINE RowsNext(d) == {v \in Upload : history'[v] # NoRow /\ history'[v].docId = d}
<1>0. /\ RowInv /\ FilingInv /\ \A u \in Upload : FilingMoves(u) /\ RowChanges(u)
      /\ filing \in [Upload -> FilingState] /\ history \in [Upload -> HistoryRow \cup {NoRow}]
  BY FilingsMove, RowsChange DEF AnnualTypeInv, AnnualTypeOK, AnnualStoreTypeOK, UlbTypeOK
<1>1. \A d : Cardinality(Rows(d)) \in Nat /\ IsFiniteSet(Rows(d))
  BY RowsCounted
<1>2. \A d : \A u \in Upload : history[u] = NoRow => Cardinality(Rows(d) \cup {u}) = Cardinality(Rows(d)) + 1
  <2>1. ASSUME NEW d, NEW u \in Upload, history[u] = NoRow
        PROVE  Cardinality(Rows(d) \cup {u}) = Cardinality(Rows(d)) + 1
    <3>1. u \notin Rows(d)
      BY <2>1 DEF Rows
    <3>2. QED  BY <1>1, <3>1, FS_AddElement
  <2>2. QED  BY <2>1
<1>3. ASSUME NEW d
      PROVE  Cardinality(RowsNext(d)) \in Nat /\ Cardinality(RowsNext(d)) >= Cardinality(Rows(d))
  <2>1. CASE RowsNext(d) = Rows(d)
    <3>1. Cardinality(Rows(d)) \in Nat
      BY <1>1
    <3>2. \A n \in Nat : n >= n
      OBVIOUS
    <3>3. Cardinality(RowsNext(d)) = Cardinality(Rows(d))
      BY <2>1
    <3>4. QED  BY <3>1, <3>2, <3>3
  <2>2. ASSUME NEW u \in Upload, history[u] = NoRow, RowsNext(d) = Rows(d) \cup {u}
        PROVE  Cardinality(RowsNext(d)) = Cardinality(Rows(d)) + 1
    BY <1>2, <2>2
  <2>3. RowsNext(d) = Rows(d) \/ \E u \in Upload : history[u] = NoRow /\ RowsNext(d) = Rows(d) \cup {u}
    <3>1. Rows(d)' = RowsNext(d)
      BY DEF Rows
    <3> HIDE DEF RowsNext
    <3>2. QED  BY <3>1, RowsOfDocument
  <2>4. QED  BY <1>1, <2>1, <2>2, <2>3
<1>4. ASSUME NEW u \in Upload, history'[u] # NoRow
      PROVE  history'[u].docId = filing'[u].docId /\ history'[u].version <= Cardinality(RowsNext(history'[u].docId))
  <2>1. CASE history[u] # NoRow
    <3>1. /\ history'[u].docId = history[u].docId /\ history'[u].version = history[u].version
          /\ history[u].version \in Nat
      <4>1. history[u] \in HistoryRow
        BY <1>0, <2>1
      <4>2. history[u].version \in Nat
        BY <4>1, UploadsAreCounted DEF HistoryRow
      <4>3. QED  BY <1>0, <2>1, <4>2 DEF RowChanges
    <3>2. filing'[u].docId = filing[u].docId
      BY <1>0, <2>1, SlottedStays DEF RowInv
    <3>3. history[u].docId = filing[u].docId /\ history[u].version <= Cardinality(Rows(history[u].docId))
      BY <2>1 DEF VersionsInv
    <3>4. QED  BY <1>1, <1>3, <3>1, <3>2, <3>3
  <2>2. CASE history[u] = NoRow
    <3> DEFINE d == filing[u].docId
    <3>1. CreateHistory(u) /\ history'[u].docId = d /\ history'[u].version = filing[u].version
      BY <1>0, <1>4, <2>2 DEF RowChanges
    <3>2. filing[u].pc = "slotted"
      BY <3>1 DEF CreateHistory
    <3>3. filing'[u].docId = d /\ filing[u].version = Cardinality(Rows(d)) + 1
      BY <3>2, SlottedStays DEF VersionsInv
    <3>4. RowsNext(d) = Rows(d) \cup {u}
      <4>1. \A v \in Upload : v # u => history'[v] = history[v]
        BY <1>0, <1>4, <2>2 DEF RowChanges
      <4>2. QED  BY <1>4, <2>2, <3>1, <4>1 DEF Rows
    <3>5. Cardinality(RowsNext(d)) = Cardinality(Rows(d)) + 1
      BY <1>2, <2>2, <3>4
    <3>6. QED  BY <1>1, <3>1, <3>3, <3>5
  <2>3. QED  BY <2>1, <2>2
<1>5. ASSUME NEW u \in Upload, filing'[u].pc \in {"counted", "touched", "push", "slotted"}
      PROVE  filing'[u].version = Cardinality(RowsNext(filing'[u].docId)) + 1
  <2>1. /\ filing'[u].docId = filing[u].docId
        /\ \/ ReadVersion(u) /\ filing'[u].version = NextVersion(filing[u].docId)
           \/ filing[u].pc \in {"counted", "touched", "push", "slotted"} /\ filing'[u].version = filing[u].version
    BY <1>0, <1>5 DEF FilingMoves, TouchSection, WriteEntry, PushEntry
  <2>2. ASSUME NEW v \in Upload, CreateHistory(v)
        PROVE  FALSE
    <3>1. Busy(u) /\ filing[v].pc = "slotted" /\ filing'[v].pc \in {"recorded", "done"}
      BY <1>0, <2>1, <2>2 DEF Busy, ReadVersion, CreateHistory, FilingPc, FilingState
    <3>2. u = v
      BY <3>1 DEF OneAtATime, Busy
    <3>3. QED  BY <1>5, <3>1, <3>2
  <2>3. \A d : Rows(d)' = Rows(d)
    BY <2>2, RowsOfDocument
  <2>4. \A d : Rows(d)' = RowsNext(d)
    BY DEF Rows
  <2> HIDE DEF RowsNext
  <2>5. QED  BY <2>1, <2>3, <2>4 DEF VersionsInv, NextVersion
<1>6. QED
  BY <1>4, <1>5 DEF VersionsInv, Rows

\* A row keeps what the runs have left in it.
LEMMA ToldStays ==
  ASSUME AnnualTypeInv, AnnualNext, OneAtATime, NEW u \in Upload, history[u] # NoRow
  PROVE  /\ history'[u] # NoRow /\ history'[u].docId = history[u].docId
         /\ history[u].started = TRUE => history'[u].started = TRUE
         /\ history[u].job = TRUE => history'[u].job = TRUE
<1>1. RowChanges(u)
  BY RowsChange
<1>2. QED  BY <1>1 DEF RowChanges

\* The marks of a row are TRUE or FALSE.
LEMMA MarksTyped ==
  ASSUME AnnualTypeInv, NEW u \in Upload, history[u] # NoRow
  PROVE  history[u].started \in BOOLEAN /\ history[u].job \in BOOLEAN
<1>1. history[u] \in HistoryRow
  BY DEF AnnualTypeInv, AnnualTypeOK, AnnualStoreTypeOK
<1>2. QED  BY <1>1 DEF HistoryRow

LEMMA TellingStays ==
  ASSUME AnnualTypeInv, AnnualTypeInv', AnnualNext, OneAtATime, ~cast.faults, RunsTell
  PROVE  RunsTell'
<1>1. ASSUME NEW w \in Worker, worker'[w].pc \in {"active", "polling"}
      PROVE  /\ history'[w[1]].started = TRUE
             /\ worker'[w].pc = "polling" => history'[w[1]].job = TRUE
  <2> DEFINE u == w[1]
  <2>1. u \in Upload /\ RunChanges(w) /\ history \in [Upload -> HistoryRow \cup {NoRow}] /\ WorkerInv
    BY RestTyped, RunsChange DEF AnnualTypeInv, AnnualTypeOK, AnnualStoreTypeOK
  <2>2. CASE worker'[w].pc = worker[w].pc
    <3>1. history[u] # NoRow
      BY <1>1, <2>1, <2>2 DEF WorkerInv
    <3>2. /\ history[u].started = TRUE
          /\ worker[w].pc = "polling" => history[u].job = TRUE
      BY <1>1, <2>1, <2>2, <3>1, MarksTyped DEF RunsTell
    <3> HIDE DEF u
    <3>3. QED  BY <2>1, <2>2, <3>1, <3>2, ToldStays DEF u
  <2>3. CASE CronTick(u)
    <3>1. history[u] # NoRow /\ history[u].started /\ history[u].job /\ history' = history
      BY <2>3, RowsAreRows DEF CronTick
    <3>2. history[u].started = TRUE /\ history[u].job = TRUE
      BY <2>1, <3>1, MarksTyped
    <3>3. QED  BY <3>1, <3>2
  <2>4. CASE StartRun(w) /\ worker'[w].pc = "active"
    <3>1. history[u] # NoRow /\ history[u] \in HistoryRow
      BY <2>1, <2>4 DEF StartRun, WorkerInv
    <3>2. history'[u] = [history[u] EXCEPT !.started = TRUE]
      BY <2>1, <2>4 DEF StartRun
    <3>3. history'[u].started = TRUE
      BY <3>1, <3>2 DEF HistoryRow
    <3>4. QED  BY <2>4, <3>3
  <2>5. CASE RecordJob(w)
    <3>1. history[u] # NoRow /\ history[u] \in HistoryRow /\ worker[w].pc = "active"
      BY <2>1, <2>5 DEF RecordJob, WorkerInv
    <3>2. history'[u] = [history[u] EXCEPT !.job = TRUE]
      BY <2>1, <2>5 DEF RecordJob
    <3>3. history'[u].job = TRUE /\ history'[u].started = history[u].started
      BY <3>1, <3>2 DEF HistoryRow
    <3>4. history[u].started = TRUE
      BY <2>1, <3>1, MarksTyped DEF RunsTell
    <3>5. QED  BY <3>3, <3>4
  <2>6. QED
    BY <1>1, <2>1, <2>2, <2>3, <2>4, <2>5 DEF RunChanges
<1>2. QED  BY <1>1 DEF RunsTell

\* The result to come is not lost on its way to the entry that holds the file.
LEMMA ComingStays ==
  ASSUME AnnualTypeInv, AnnualTypeInv', AnnualNext, OneAtATime, OneEntry, ~cast.faults, VersionsInv, RunsTell',
         NEW i \in DOMAIN documents, NEW u \in Upload, documents[i].upload = u, Coming(u),
         \A w \in Worker : w[1] = u => ~ApplyResult(w)
  PROVE  Coming(u)'
<1>0. /\ \A w \in Worker : RunChanges(w)
      /\ history[u] # NoRow /\ history'[u] # NoRow
      /\ history[u].started = TRUE => history'[u].started = TRUE
      /\ history[u].job = TRUE => history'[u].job = TRUE
  BY RunsChange, ToldStays DEF Coming
<1>1. ASSUME NEW w \in Worker, w[1] = u, Claiming(w)
      PROVE  Claiming(w)'
  <2>1. RunChanges(w) /\ ~ApplyResult(w)
    BY <1>0, <1>1
  <2>2. QED  BY <1>1, <2>1 DEF RunChanges, Claiming, StartRun, RecordJob
<1>2. ASSUME history[u].processing = "PROCESSING", history'[u].processing # "PROCESSING"
      PROVE  \E w \in Worker : w[1] = u /\ Claiming(w)'
  <2>1. RowChanges(u)
    BY RowsChange
  <2>2. PICK w \in Worker, result \in {"PASS", "FAIL", "ERROR"} : Claim(w, result) /\ w[1] = u /\ Claimable(u)
    BY <1>0, <1>2, <2>1 DEF RowChanges
  <2>3. worker'[w].pc \in {"apply", "claimed"}
    BY <2>2 DEF Claim, AnnualTypeInv, AnnualTypeOK, UlbTypeOK, WorkerState
  <2>4. QED  BY <2>2, <2>3 DEF Claiming
<1>3. ASSUME filing[u].pc = "recorded"
      PROVE  \/ filing'[u].pc = "recorded"
             \/ \E w \in Worker : w[1] = u /\ worker'[w].pc = "waiting"
  <2>1. FilingMoves(u)
    BY FilingsMove
  <2>2. filing'[u].pc = "recorded" \/ EnqueueUpload(u)
    BY <1>3, <2>1 DEF FilingMoves, CheckUpload, ReadVersion, TouchSection, WriteEntry, PushEntry, CreateHistory, RequestDies
  <2>3. ASSUME EnqueueUpload(u)
        PROVE  \E w \in Worker : w[1] = u /\ worker'[w].pc = "waiting"
    <3>1. PICK n \in 1..MaxRuns : worker' = [worker EXCEPT ![<<u, n>>].pc = "waiting"]
      BY <2>3 DEF EnqueueUpload, Enqueue
    <3>2. <<u, n>> \in Worker /\ <<u, n>>[1] = u
      BY CastAssumption DEF Worker
    <3>3. worker'[<<u, n>>].pc = "waiting"
      BY <3>1, <3>2 DEF AnnualTypeInv, AnnualTypeOK, UlbTypeOK, WorkerState
    <3>4. QED  BY <3>2, <3>3
  <2>4. QED  BY <2>2, <2>3
<1>4. ASSUME NEW w \in Worker, w[1] = u, worker[w].pc \in {"waiting", "active"}
      PROVE  \/ worker'[w].pc \in {"waiting", "active"}
             \/ history'[u].started = TRUE /\ history'[u].job = TRUE
  <2>1. RunChanges(w) /\ ~ApplyResult(w)
    BY <1>0, <1>4
  <2>2. worker'[w].pc = "polling" => history'[u].started = TRUE /\ history'[u].job = TRUE
    <3>1. ASSUME worker'[w].pc = "polling"
          PROVE  history'[u].started /\ history'[u].job
      BY <1>4, <3>1 DEF RunsTell
    <3>2. history'[u].started \in BOOLEAN /\ history'[u].job \in BOOLEAN
      <4>1. history'[u] \in HistoryRow
        BY <1>0 DEF AnnualTypeInv, AnnualTypeOK, AnnualStoreTypeOK
      <4>2. QED  BY <4>1 DEF HistoryRow
    <3>3. QED  BY <3>1, <3>2
  <2>3. Entry(history[u].docId).upload # NoUpload
    <3>1. history[u].docId = documents[i].docId
      BY <1>0, UploadAssumption DEF VersionsInv, OneEntry
    <3>2. Entry(documents[i].docId) = documents[i]
      BY OnlyEntry DEF AnnualTypeInv, AnnualTypeOK, AnnualStoreTypeOK
    <3>3. QED  BY <3>1, <3>2, UploadAssumption
  <2>4. QED  BY <1>4, <2>1, <2>2, <2>3 DEF RunChanges
<1>5. CASE \E w \in Worker : w[1] = u /\ Claiming(w)
  BY <1>0, <1>1, <1>5 DEF Coming, Claiming
<1>6. CASE history[u].processing = "PROCESSING" /\ history'[u].processing # "PROCESSING"
  BY <1>0, <1>2, <1>6 DEF Coming, Claiming
<1>7. CASE history[u].processing = "PROCESSING" /\ history'[u].processing = "PROCESSING"
  <2>1. history[u].started \in BOOLEAN /\ history[u].job \in BOOLEAN
    BY <1>0, MarksTyped
  <2>2. CASE filing[u].pc = "recorded"
    BY <1>0, <1>3, <1>7, <2>2 DEF Coming
  <2>3. CASE history[u].started = TRUE /\ history[u].job = TRUE
    BY <1>0, <1>7, <2>3 DEF Coming
  <2>4. CASE \E w \in Worker : w[1] = u /\ worker[w].pc \in {"waiting", "active"}
    BY <1>0, <1>4, <1>7, <2>4 DEF Coming
  <2>5. CASE \E w \in Worker : w[1] = u /\ Claiming(w)
    BY <1>5, <2>5
  <2>6. QED  BY <2>1, <2>2, <2>3, <2>4, <2>5 DEF Coming
<1>8. QED  BY <1>5, <1>6, <1>7 DEF Coming

\* What is told to the entry of a file is PASSED or FAILED.
LEMMA ToldIsSettled ==
  ASSUME AnnualTypeInv, OneEntry, VersionsInv, NEW w \in Worker, ApplyResult(w), NEW i \in DOMAIN documents,
         documents[i].upload = w[1]
  PROVE  documents'[i].processing # "PROCESSING"
<1>1. /\ w[1] \in Upload /\ w[1] # NoUpload /\ documents[i] \in DocumentItem /\ worker[w] \in WorkerState
      /\ history[w[1]] # NoRow
  <2>1. w[1] \in Upload /\ w[1] # NoUpload
    BY RestTyped, UploadAssumption
  <2>2. documents[i] \in DocumentItem /\ worker[w] \in WorkerState
    BY DEF AnnualTypeInv, AnnualTypeOK, AnnualStoreTypeOK, UlbTypeOK
  <2>3. worker[w].pc = "apply" /\ WorkerInv
    BY DEF ApplyResult, AnnualTypeInv
  <2>4. history[w[1]] # NoRow
    BY <2>3 DEF WorkerInv
  <2>5. QED  BY <2>1, <2>2, <2>4
<1>2. i \in EntriesOf(w[1])
  BY <1>1 DEF EntriesOf, Entries, VersionsInv, OneEntry
<1>3. documents'[i] = WithResult(documents[i], worker[w])
  BY <1>2 DEF ApplyResult
<1>4. documents'[i].processing \in {"PASSED", "FAILED"}
  BY <1>1, <1>3, ItemWithResult
<1>5. QED  BY <1>4

\* An upload that gets its row has a version of its own, and its run is still to be queued.
LEMMA RowIsComing ==
  ASSUME AnnualTypeInv, AnnualNext, ~cast.faults, VersionsInv, NEW u \in Upload,
         filing[u].pc = "slotted", filing'[u].pc \in {"recorded", "done"}
  PROVE  Coming(u)'
<1>0. /\ filing \in [Upload -> FilingState] /\ history \in [Upload -> HistoryRow \cup {NoRow}]
  BY DEF AnnualTypeInv, AnnualTypeOK, AnnualStoreTypeOK, UlbTypeOK
<1> DEFINE d == filing[u].docId
<1>1. ~VersionTaken(u)
  <2>1. filing[u].version = Cardinality(Rows(d)) + 1 /\ Cardinality(Rows(d)) \in Nat
    BY RowsCounted DEF VersionsInv
  <2>2. ASSUME NEW v \in Rows(d)
        PROVE  history[v].version <= Cardinality(Rows(d)) /\ history[v].version \in Nat
    <3>1. v \in Upload /\ history[v] # NoRow /\ history[v].docId = d /\ history[v] \in HistoryRow
      BY <1>0, <2>2 DEF Rows
    <3>2. history[v].version \in Nat
      BY <3>1, UploadsAreCounted DEF HistoryRow
    <3>3. QED  BY <3>1, <3>2 DEF VersionsInv
  <2> HIDE DEF d
  <2>3. ASSUME NEW v \in Rows(d)
        PROVE  history[v].version # filing[u].version
    BY <2>1, <2>2
  <2>4. QED  BY <2>3 DEF VersionTaken, d
<1>2. CreateHistory(u)
  <2>1. FilingMoves(u)
    BY FilingsMove
  <2>2. QED
    BY <2>1 DEF FilingMoves, CheckUpload, ReadVersion, TouchSection, WriteEntry, PushEntry, EnqueueUpload, RequestDies
<1>3. /\ filing'[u].pc = "recorded"
      /\ history'[u] = [docId |-> filing[u].docId, version |-> filing[u].version, processing |-> "PROCESSING",
                        started |-> FALSE, job |-> FALSE, runs |-> 1, passes |-> 0, fails |-> 0]
  BY <1>0, <1>1, <1>2 DEF CreateHistory, FilingPc, FilingState
<1>4. history'[u].processing = "PROCESSING"
  BY <1>3
<1>5. history'[u] # NoRow
  BY <1>4, RowsAreRows
<1>6. QED  BY <1>3, <1>4, <1>5 DEF Coming

LEMMA EntriesAreComing ==
  ASSUME AnnualTypeInv, AnnualTypeInv', AnnualNext, Quiet, QuietReviews, VerdictStands', ~cast.faults,
         StrandFacts, RunsTell'
  PROVE  ComingInv'
<1>0. OneAtATime /\ OneClaim /\ OneEntry /\ VerdictStands /\ VersionsInv /\ ComingInv
  BY DEF QuietReviews, StrandFacts
<1>1. ASSUME NEW i \in DOMAIN documents', NEW u \in Upload, documents'[i].upload = u,
             documents'[i].processing = "PROCESSING", filing'[u].pc \in {"recorded", "done"}
      PROVE  Coming(u)'
  <2>1. EntryMoves(i) /\ u # NoUpload /\ (i \in DOMAIN documents => documents[i] \in DocumentItem)
    BY EntriesMove, UploadAssumption DEF AnnualTypeInv, AnnualTypeOK, AnnualStoreTypeOK
  <2>2. ~PushEntry(u) /\ ~WriteEntry(u)
    BY <1>1 DEF PushEntry, WriteEntry, FilingPc, AnnualTypeInv, AnnualTypeOK, UlbTypeOK, FilingState
  <2>3. \A h \in Handler : ~RetryEntry(h)
    BY <1>0 DEF OneAtATime, RetryEntry
  <2>4. i \in DOMAIN documents /\ documents[i].upload = u /\ documents[i].processing = "PROCESSING"
    <3>1. ASSUME NEW w \in Worker, ApplyResult(w), documents[i].upload = w[1], i \in DOMAIN documents
          PROVE  FALSE
      BY <1>0, <1>1, <3>1, ToldIsSettled
    <3>2. ASSUME NEW h \in Handler, i \in DOMAIN documents, RuleEntry(h),
                 documents'[i] = Ruling(documents[i], req[h].verdict)
          PROVE  documents[i].upload = u /\ documents[i].processing = "PROCESSING"
      BY <1>1, <3>2, RuledEntry
    <3>3. QED  BY <1>1, <2>1, <2>2, <2>3, <3>1, <3>2 DEF EntryMoves, SameFile, SetBack
  <2>5. \A w \in Worker : w[1] = u => ~ApplyResult(w)
    BY <1>0, <1>1, <2>4, ToldIsSettled
  <2>6. filing[u].pc \in {"slotted", "recorded", "done"}
    BY <1>0, <2>1, <2>4 DEF OneEntry
  <2>7. CASE filing[u].pc = "slotted"
    BY <1>0, <1>1, <2>7, RowIsComing
  <2>8. CASE filing[u].pc \in {"recorded", "done"}
    <3>1. Coming(u)
      BY <1>0, <2>4, <2>8 DEF ComingInv
    <3>2. QED  BY <1>0, <2>4, <2>5, <3>1, ComingStays
  <2>9. QED  BY <2>6, <2>7, <2>8
<1>2. ASSUME NEW i \in DOMAIN documents', documents'[i].processing = "PROCESSING"
      PROVE  documents'[i].upload \in Upload
  <2>1. documents'[i] \in DocumentItem /\ documents'[i].upload # NoUpload
    BY <1>2 DEF AnnualTypeInv, AnnualTypeOK, AnnualStoreTypeOK, VerdictStands
  <2>2. QED  BY <2>1 DEF DocumentItem
<1>3. \A i \in DOMAIN documents', u \in Upload :
        documents'[i].upload = u /\ documents'[i].processing = "PROCESSING" /\ filing'[u].pc \in {"recorded", "done"}
          => Coming(u)'
  BY <1>1
<1>4. QED  BY <1>2, <1>3 DEF ComingInv, Coming, Claiming

LEMMA StrandStep ==
  AnnualTypeInv /\ AnnualTypeInv' /\ QuietInv /\ QuietInv' /\ StrandInv /\ [AnnualNext]_annualVars => StrandInv'
<1> SUFFICES ASSUME AnnualTypeInv, AnnualTypeInv', QuietInv, QuietInv', StrandInv, [AnnualNext]_annualVars,
                    Quiet', ~cast'.faults
             PROVE  StrandFacts'
  BY DEF StrandInv
<1>1. CASE UNCHANGED annualVars
  <2>1. UNCHANGED <<filing, history, worker, cast, documents>>
    BY <1>1 DEF annualVars, ulbvars, annualStore
  <2>2. StrandFacts
    BY <2>1 DEF StrandInv, Quiet
  <2>3. QED
    BY <2>1, <2>2 DEF StrandFacts, VersionsInv, RunsTell, ComingInv, Coming, Claiming, Rows
<1>2. CASE AnnualNext
  <2>1. Quiet /\ ~cast.faults
    BY <1>2, SceneStays DEF Quiet
  <2>2. QuietReviews /\ OneAtATime /\ StrandFacts /\ VersionsInv /\ RunsTell
    BY <2>1 DEF QuietInv, StrandInv, QuietReviews, StrandFacts
  <2>3. VerdictStands'
    BY DEF QuietInv, QuietReviews
  <2>4. VersionsInv'
    BY <1>2, <2>2, VersionsStay
  <2>5. RunsTell'
    BY <1>2, <2>1, <2>2, TellingStays
  <2>6. ComingInv'
    BY <1>2, <2>1, <2>2, <2>3, <2>5, EntriesAreComing
  <2>7. QED  BY <2>4, <2>5, <2>6 DEF StrandFacts
<1>3. QED  BY <1>1, <1>2

\* Without overlap, retries and failures no document is left PROCESSING with nobody to tell it the
\* result: a run of its own file is queued or under way, or the cron finds the row.
THEOREM NoneStranded == AnnualSpec => []NoneIsStranded
<1>1. AnnualInit => StrandInv
  <2> SUFFICES ASSUME AnnualInit
               PROVE  StrandFacts
    BY DEF StrandInv
  <2>1. /\ \A u \in Upload : history[u] = NoRow /\ filing[u].pc = "new"
        /\ \A w \in Worker : worker[w].pc = "unused"
        /\ documents = <<>>
    BY DEF AnnualInit, AnnualStoreInit, UlbInit, Unused
  <2>2. QED  BY <2>1 DEF StrandFacts, VersionsInv, RunsTell, ComingInv
<1>2. AnnualTypeInv /\ QuietInv /\ StrandInv => NoneIsStranded
  <2> SUFFICES ASSUME AnnualTypeInv, QuietInv, StrandInv, Quiet, Open = {}, ~cast.faults,
                      NEW i \in DOMAIN documents, documents[i].processing = "PROCESSING"
               PROVE  Awaited(documents[i].upload)
    BY DEF NoneIsStranded
  <2> DEFINE u == documents[i].upload
  <2>1. OneEntry /\ VerdictStands /\ ComingInv /\ documents[i] \in DocumentItem
    BY DEF QuietInv, QuietReviews, StrandInv, StrandFacts, AnnualTypeInv, AnnualTypeOK, AnnualStoreTypeOK
  <2>2. u # NoUpload /\ u \in Upload
    BY <2>1 DEF VerdictStands, DocumentItem
  <2>3. filing[u].pc = "done"
    BY <2>1, <2>2 DEF OneEntry, Open
  <2>4. Coming(u)
    BY <2>1, <2>3 DEF ComingInv
  <2>5. ASSUME NEW w \in Worker, w[1] = u, worker[w].pc \in {"waiting", "active", "claimed", "apply"}
        PROVE  Awaited(u)
    <3>1. w = <<u, w[2]>> /\ w[2] \in 0..MaxRuns
      BY <2>5 DEF Worker
    <3>2. QED  BY <2>5, <3>1 DEF Awaited
  <2>6. QED  BY <2>3, <2>4, <2>5 DEF Coming, Claiming, Awaited
<1>3. QED
  BY <1>1, <1>2, StrandStep, AnnualTypeInvariant, QuietInvariant, PTL DEF AnnualSpec
=============================================================================

------------------------------ MODULE AnnualStore ------------------------------
(***************************************************************************)
(* What MongoDB keeps of one section (audited or provisional) of the annual *)
(* accounts of one ULB and year: the section's form status, its documents,  *)
(* the history of every upload, the manual-review requests.                 *)
(*                                                                         *)
(* A document entry is found by its docId, the first one of that docId when *)
(* there are two. The documents are the required ones, which all go through *)
(* OCR. An exemption, a permission or an eligibility rule that              *)
(* refuses a request is a request that does not arrive. The form log and    *)
(* the notifications, which nothing here reads, are left out, and so is the *)
(* id of the OCR job in a document entry.                                   *)
(***************************************************************************)
EXTENDS ManualReview, Sequences, FiniteSets

CONSTANTS
  Upload,   \* upload ids
  DocId     \* the documents the section requires

ASSUME UploadAssumption == NoUpload \notin Upload /\ IsFiniteSet(Upload) /\ DocId # {}

VARIABLES
  section,     \* form_status
  documents,   \* the embedded documents array
  history,     \* history[u]: the row of the upload history, with counts for the properties
  pending      \* pending[u]: the manual-review requests of upload u that wait for a decision

annualStore == <<section, documents, history, pending>>

\* A decision of the State, and how many uploads had their uploadedAt before it was made.
StateDecision == [status : Verdict \cup {NoVerdict}, at : 0..Cardinality(Upload)]
Undecided == [status |-> NoVerdict, at |-> 0]

DocumentItem ==
  [docId : DocId, upload : Upload \cup {NoUpload}, processing : Processing,
   validation : Validation, requested : BOOLEAN, review : Verdict \cup {NoVerdict},
   strikes : 0..MaxAttempts, blocked : Cooldown, decision : StateDecision]

\* runs, passes and fails count the times the row was put to PROCESSING and settled.
HistoryRow ==
  [docId : DocId, version : 1..Cardinality(Upload), processing : Processing, started : BOOLEAN, job : BOOLEAN,
   runs : Nat, passes : Nat, fails : Nat]

NoRow == [processing |-> "NOT_STARTED"]

AnnualStoreTypeOK ==
  /\ section \in FormStatus
  /\ documents \in Seq(DocumentItem)
  /\ history \in [Upload -> HistoryRow \cup {NoRow}]
  /\ pending \in [Upload -> Nat]

AnnualStoreInit ==
  /\ section = "NOT_STARTED"
  /\ documents = <<>>
  /\ history = [u \in Upload |-> NoRow]
  /\ pending = [u \in Upload |-> 0]

-----------------------------------------------------------------------------
Entries(d) == {i \in DOMAIN documents : documents[i].docId = d}

HasEntry(d) == Entries(d) # {}

\* The entry that a filter on documents.docId matches, and find returns.
First(d) == CHOOSE i \in Entries(d) : \A j \in Entries(d) : i <= j

Entry(d) == documents[First(d)]

\* canUlbReuploadDocument.
CanReupload(item) == section \in UlbEditable /\ item.decision.status # "APPROVED"

\* The 24 hours of uploadBlockedUntil pass.
CooldownEnds ==
  /\ \E i \in DOMAIN documents :
       /\ Blocked(documents[i])
       /\ documents' = [documents EXCEPT ![i].blocked = "over"]
  /\ UNCHANGED <<section, history, pending>>
=============================================================================

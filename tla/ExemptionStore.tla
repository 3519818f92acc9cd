----------------------------- MODULE ExemptionStore -----------------------------
(***************************************************************************)
(* What Request Exemption and the SFC Status form of one (state, year)      *)
(* share: the whole-State exemption document, its log, and the form that    *)
(* one of its entries may excuse the State from. (The exemption document of *)
(* one ULB goes through the same steps, with another target form.)          *)
(*                                                                         *)
(*  - xvifc_eligibility_exemptions : a document is named after the filing   *)
(*    that created it; its data[] has at most one entry per form;           *)
(*  - xvifc_eligibility_exemption_form_logs : the rows of a form, in order; *)
(*  - the SFC Status form: one document per (state, year) by its unique     *)
(*    index, NOT_STARTED as long as there is none, and its history.         *)
(*                                                                         *)
(* updatedAt is represented by the number of writes to the document.        *)
(***************************************************************************)
EXTENDS Naturals, Sequences, FiniteSets

CONSTANTS
  Filing,      \* finalSubmit requests of Request Exemption
  NoFiling,
  FormId,      \* the forms an exemption can be asked for, from the year's form configuration
  SfcForm,     \* SFC_FORM_ID, the one of them with a progress check
  Saver,       \* saveDraft and
  Submitter,   \* finalSubmit requests of the SFC Status form
  Reviewer,    \* PMU users; each has one request under way at a time
  NoRequest

ASSUME ExemptionAssumption ==
  /\ NoFiling \notin Filing
  /\ SfcForm \in FormId
  /\ Saver \cap Submitter = {} /\ NoRequest \notin Saver \cup Submitter

VARIABLES
  exemption,   \* exemption[d]: the exemption document d
  log,         \* log[f]: the log rows of form f
  sfc,         \* the SFC Status form: its status, and the request that wrote its data
  sfcHistory   \* the rows of its history

estore == <<exemption, log, sfc, sfcHistory>>

Pending  == "UNDER_REVIEW_BY_MOHUA"
Approved == "SUBMISSION_ACKNOWLEDGED_BY_MOHUA"
Rejected == "RETURNED_BY_MOHUA"

\* status "NONE": data[] has no entry for the form. `by` stands for what the filing submitted.
Entry == [status : {"NONE", Pending, Approved, Rejected}, by : Filing \cup {NoFiling}]

ExemptionDoc == [exists : BOOLEAN, data : [FormId -> Entry], updatedAt : Nat]

NoEntry == [status |-> "NONE", by |-> NoFiling]

LogRow == [action : {"SUBMITTED", "APPROVED", "RETURNED"}, by : Filing \cup {NoFiling}]

SfcStatuses ==
  {"NOT_STARTED", "IN_PROGRESS", "UNDER_REVIEW_BY_PMU", "RETURNED_BY_PMU", "UNDER_REVIEW_BY_MOHUA"}

StateEditable == {"NOT_STARTED", "IN_PROGRESS", "RETURNED_BY_PMU", Rejected}

\* `by` tells the State's requests apart; it is NoRequest in a row that a review writes.
SfcRow == [from : SfcStatuses, to : SfcStatuses, by : Saver \cup Submitter \cup {NoRequest}]

EStoreTypeOK ==
  /\ exemption \in [Filing -> ExemptionDoc]
  /\ log \in [FormId -> Seq(LogRow)]
  /\ sfc \in [status : SfcStatuses, data : Saver \cup Submitter \cup {NoRequest}]
  /\ sfcHistory \subseteq SfcRow

NoData == [f \in FormId |-> NoEntry]

\* No exemption has been asked for. The form has not been started, or PMU has returned it once.
EStoreInit ==
  /\ exemption = [d \in Filing |-> [exists |-> FALSE, data |-> NoData, updatedAt |-> 0]]
  /\ log = [f \in FormId |-> <<>>]
  /\ \E status \in {"NOT_STARTED", "RETURNED_BY_PMU"} :
       sfc = [status |-> status, data |-> NoRequest]
  /\ sfcHistory = {}

Docs == {d \in Filing : exemption[d].exists}

\* The SFC form has real progress: an exemption from it can no longer be asked for or approved.
HasProgress(f) == f = SfcForm /\ sfc.status \notin StateEditable

\* assertNotBlockedByExemption: the exemption from the SFC form is pending or approved.
Blocked == \E d \in Docs : exemption[d].data[SfcForm].status \in {Pending, Approved}
=============================================================================

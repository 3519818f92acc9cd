------------------------------- MODULE StateForms -------------------------------
(***************************************************************************)
(* Exemption requests and the SFC Status form of one State and year, and    *)
(* what they promise together.                                              *)
(***************************************************************************)
EXTENDS RequestExemption, SfcStatus

formVars == <<estore, xvars, fvars>>

StateFormsInit == EStoreInit /\ ExemptionInit /\ SfcInit

StateFormsNext ==
  \/ ExemptionStep /\ UNCHANGED fvars
  \/ SfcStep /\ UNCHANGED xvars

StateFormsSpec == StateFormsInit /\ [][StateFormsNext]_formVars

StateFormsTypeOK == EStoreTypeOK /\ ExemptionTypeOK /\ SfcTypeOK

-----------------------------------------------------------------------------
\* At most one exemption document, however many first filings race (ADR 0001).
OneRequestDocument == \A d, e \in Docs : d = e

\* What the last row of a form's log says its entry must be.
StatusAfter(action) ==
  CASE action = "SUBMITTED" -> Pending
    [] action = "APPROVED"  -> Approved
    [] action = "RETURNED"  -> Rejected

\* The filing of the last SUBMITTED row.
LastFiled(f) ==
  LET rows == {i \in DOMAIN log[f] : log[f][i].action = "SUBMITTED"}
  IN log[f][CHOOSE i \in rows : \A j \in rows : j <= i].by

\* The log is complete and without gaps, never out of step with the document (ADR 0001): an entry
\* has the status its last row says and holds what the last filing submitted.
LogTellsEntries ==
  \A d \in Docs, f \in FormId :
    exemption[d].data[f] =
      IF log[f] = <<>> THEN NoEntry
      ELSE [status |-> StatusAfter(log[f][Len(log[f])].action), by |-> LastFiled(f)]

Life == INSTANCE ExemptionLife WITH
          life <- [f \in FormId |-> [i \in DOMAIN log[f] |-> log[f][i].action]]

\* Racing filings and decisions, on what each read earlier, come to single steps of the life cycle:
\* no decision without a pending request, no stale filing over a decision, no change of an approval.
ImplementsLife == Life!LifeSpec

\* A history row may be lost, but each that a save or submit writes tells of a change it has made,
\* also when it lost a race for the form.
HistoryIsTrue == {row \in sfcHistory : row.by # NoRequest} \subseteq moves

\* What is under review by PMU or MoHUA stays as it was submitted, whatever a save or submit that
\* read the form earlier still writes.
UnderReviewIsFrozen ==
  [][sfc'.data # sfc.data => sfc.status \in StateEditable]_formVars

\* canPmuMutateForm: only a form under review by PMU is theirs to change; once approved, it is
\* settled for this stage (xvi-fc-form-status-access.util.ts).
SettledByPmu ==
  [][(\E p \in Reviewer : review[p].pc = "write" /\ review'[p].pc = "history")
       => sfc.status \in {"UNDER_REVIEW_BY_PMU", sfc'.status}]_formVars
=============================================================================

----------------------------- MODULE AnnualAccounts -----------------------------
(***************************************************************************)
(* One section of the annual accounts: uploads, their OCR, the reviews, and *)
(* what holds of them together.                                             *)
(***************************************************************************)
EXTENDS AnnualReview

annualVars == <<ulbvars, ruled>>

AnnualInit == AnnualStoreInit /\ UlbInit /\ ruled = {}

AnnualNext ==
  \/ /\ \/ \E u \in Upload : Confirm(u)
        \/ \E h \in Handler : UlbRequest(h)
        \/ RequestDies
        \/ OcrStep
        \/ CooldownEnds /\ UNCHANGED <<filing, req, worker, cast>>
     /\ UNCHANGED ruled
  \/ \E h \in Handler : ReviewRequest(h)

AnnualSpec == AnnualInit /\ [][AnnualNext]_annualVars

AnnualTypeOK ==
  AnnualStoreTypeOK /\ UlbTypeOK /\ ruled \subseteq DocId \X Verdict

-----------------------------------------------------------------------------
Passed(item) == item.processing = "PASSED"

\* A document passes on the OCR of the very file it holds, or because the ADMIN approved that
\* document: never on the late result of a file it held before (annual-account-ocr-result.writer.ts).
PassedOnEvidence ==
  \A i \in DOMAIN documents : Passed(documents[i]) =>
    \/ <<documents[i].docId, "APPROVED">> \in ruled
    \/ documents[i].upload # NoUpload /\ history[documents[i].upload].passes > 0

\* The processor and the cron both see the end of a run; it is settled once.
SettledOncePerRun ==
  \A u \in Upload : history[u] # NoRow => history[u].passes + history[u].fails <= history[u].runs

\* The runs of a document's uploads that failed.
Failures(d) == {f \in Upload \X (1..MaxRuns) : f[1] \in Rows(d) /\ f[2] <= history[f[1]].fails}

\* An attempt is used up only by a failed run, and only once a manual review was returned.
StrikesAreEarned ==
  \A i \in DOMAIN documents :
    LET d == documents[i].docId
    IN documents[i].strikes > 0 =>
         /\ <<d, "RETURNED">> \in ruled
         /\ documents[i].strikes <= Cardinality(Failures(d))

\* One request at a time, and no retries, whose runs could still end after the others.
Quiet == cast.open = 1 /\ "retry" \notin cast.ops

\* Without overlap and retries, the file whose manual review is pending does not change, whatever
\* the OCR still does (manual-review-cooldown.util.ts: the ULB must not be able to re-upload,
\* retry, or remove this document).
ReviewedFileStays ==
  [][Quiet => \A i \in DOMAIN documents :
       Awaiting(documents[i]) => documents'[i].upload = documents[i].upload]_annualVars

\* Without overlap, retries and failures, the queue the ADMIN works through, which is computed
\* from the documents, and the PENDING rows of the review history tell the same. (A process that
\* ends between the two writes of a claim leaves a document in the queue without a row.)
QueueMatchesHistory ==
  Quiet /\ Open = {} /\ ~cast.faults =>
    \A u \in Upload :
      (pending[u] > 0) <=> (\E i \in DOMAIN documents : documents[i].upload = u /\ Awaiting(documents[i]))

\* Without overlap and retries, a section that the State has approved holds only documents that
\* passed and that the State has approved, one by one or with the section, since their upload.
ApprovedIsWhole ==
  Quiet /\ section = "APPROVED_BY_STATE" =>
    \A i \in DOMAIN documents : Passed(documents[i]) /\ Effective(documents[i]) = "APPROVED"

\* A run of the file is queued or under way, or has left the row as the cron looks for it.
Awaited(u) ==
  \/ \E n \in 0..MaxRuns : worker[<<u, n>>].pc \notin {"unused", "ended"}
  \/ history[u].processing = "PROCESSING" /\ history[u].started /\ history[u].job

\* Without overlap, retries and failures no document is stranded in PROCESSING: the OCR of its own
\* file is still to come, from the queue or from the cron.
NoneIsStranded ==
  Quiet /\ Open = {} /\ ~cast.faults =>
    \A i \in DOMAIN documents :
      documents[i].processing = "PROCESSING" => Awaited(documents[i].upload)
=============================================================================

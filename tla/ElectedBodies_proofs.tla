-------------------------- MODULE ElectedBodies_proofs --------------------------
(***************************************************************************)
(* Theorems about the form of the elected urban local bodies, for any ULBs, *)
(* any number of requests, any overlap of them and any number of uploads.   *)
(***************************************************************************)
EXTENDS ElectedBodies, TLAPS

-----------------------------------------------------------------------------
(* Types                                                                   *)

\* A request that has ended is one.
LEMMA IdleEulbTyped == IdleEulbReq \in EulbReqState
BY EulbAssumption
DEF EulbReqState, IdleEulbReq, EulbStateOp, EulbVersion, EulbNumber, EulbFormStatus, Excel,
    NoExcel, Summary, NotValidated

\* A dataset that is gone is one.
LEMMA NoDatasetTyped == NoDataset \in Dataset
BY EulbAssumption DEF NoDataset, Dataset, NoEulbRow, EulbRow, EulbRowStatus, EulbNumber

\* The initial states are well typed.
LEMMA EulbInitTyped == EulbInit => EulbTypeOK
<1> SUFFICES ASSUME EulbInit
             PROVE  EulbTypeOK
  OBVIOUS
<1>1. eulbForm \in EulbForm
  BY EulbAssumption
  DEF EulbInit, EulbForm, EulbFormStatus, EulbVersion, EulbNumber, Summary, NotValidated
<1>2. eulbRow \in [EulbVersion -> Dataset] /\ eulbReq \in [EulbRequest -> EulbReqState]
  BY IdleEulbTyped, NoDatasetTyped DEF EulbInit
<1>3. eulbOps \in EulbNumber
  BY EulbAssumption DEF EulbInit, EulbNumber
<1>4. QED  BY <1>1, <1>2, <1>3 DEF EulbInit, EulbTypeOK

\* What is read of the form has its type, so a request of the State that begins keeps the types.
LEMMA BeginsTyped ==
  ASSUME EulbTypeOK, NEW q \in EulbRequest, NEW op \in EulbStateOp, NEW r \in EulbReqState,
         Begins(q, op, r)
  PROVE  EulbTypeOK'
<1>1. eulbOps + 1 \in EulbNumber
  BY EulbAssumption DEF EulbTypeOK, EulbNumber, Begins
<1>2. /\ eulbForm.version \in EulbVersion /\ eulbForm.status \in EulbFormStatus
      /\ HalfDeleted \in BOOLEAN
  BY DEF EulbTypeOK, EulbForm, HalfDeleted
<1>3. [r EXCEPT !.op = op, !.number = eulbOps + 1, !.version = eulbForm.version,
                !.status = eulbForm.status, !.stale = HalfDeleted] \in EulbReqState
  BY <1>1, <1>2 DEF EulbReqState
<1>4. QED  BY <1>1, <1>3 DEF Begins, EulbTypeOK

\* A write of the State keeps the types of the requests and of the history variable.
LEMMA WritesTyped ==
  ASSUME EulbTypeOK, NEW q \in EulbRequest, NEW r \in EulbReqState, Writes(q, r),
         NEW replaces \in BOOLEAN, Tangles(q, replaces)
  PROVE  eulbReq' \in [EulbRequest -> EulbReqState] /\ eulbTangled' \in BOOLEAN
<1>1. \A p \in EulbRequest : [eulbReq[p] EXCEPT !.stale = TRUE] \in EulbReqState
  BY DEF EulbTypeOK, EulbReqState
<1>2. QED  BY <1>1 DEF Writes, Tangles, EulbTypeOK

\* The summary of a file.
LEMMA SummaryTyped == \A file \in Excel : SummaryOf(file) \in Summary
BY DEF Excel, SummaryOf, Summary, EulbVerdict

\* The parts of the form that the requests set.
LEMMA FormTyped ==
  ASSUME NEW form \in EulbForm
  PROVE  /\ form.summary \in Summary
         /\ \A status \in EulbFormStatus : [form EXCEPT !.status = status] \in EulbForm
         /\ \A summary \in Summary : [form EXCEPT !.summary = summary] \in EulbForm
         /\ \A file \in BOOLEAN : [form EXCEPT !.file = file] \in EulbForm
BY DEF EulbForm

\* The parts of the summary that they set.
LEMMA CountsTyped ==
  ASSUME NEW summary \in Summary, NEW errors \in BOOLEAN, NEW missing \in BOOLEAN
  PROVE  /\ [summary EXCEPT !.verdict = "NOT_VALIDATED"] \in Summary
         /\ [summary EXCEPT !.errors = errors, !.verdict = EulbVerdict(errors, missing)] \in Summary
BY DEF Summary, EulbVerdict

\* Changing the row of some ULBs of one version keeps the type of the rows.
LEMMA RowsTyped ==
  ASSUME EulbTypeOK, NEW v \in EulbVersion, NEW rows \in Dataset
  PROVE  [eulbRow EXCEPT ![v] = rows] \in [EulbVersion -> Dataset]
BY DEF EulbTypeOK

\* A write of the State keeps the types of all if it keeps those of the form and the rows.
LEMMA StateWriteTyped ==
  ASSUME EulbTypeOK, NEW q \in EulbRequest, NEW r \in EulbReqState, Writes(q, r),
         NEW replaces \in BOOLEAN, Tangles(q, replaces), UNCHANGED eulbOps,
         eulbForm' \in EulbForm, eulbRow' \in [EulbVersion -> Dataset]
  PROVE  EulbTypeOK'
BY WritesTyped DEF EulbTypeOK

\* The parts of a row that the requests set.
LEMMA RowTyped ==
  ASSUME NEW row \in EulbRow
  PROVE  /\ \A status \in EulbRowStatus : [row EXCEPT !.status = status] \in EulbRow
         /\ \A number \in EulbNumber :
              [row EXCEPT !.good = TRUE, !.valid = TRUE, !.by = number] \in EulbRow
BY DEF EulbRow

\* A row of a version is one.
LEMMA VersionTyped ==
  ASSUME EulbTypeOK, NEW v \in EulbVersion
  PROVE  eulbRow[v] \in Dataset /\ \A u \in EulbUlb : eulbRow[v][u] \in EulbRow
BY DEF EulbTypeOK, Dataset

\* saveDraft keeps the types.
LEMMA DraftTyped ==
  ASSUME EulbTypeOK, NEW q \in EulbRequest, ReadDraft(q) \/ WriteDraft(q)
  PROVE  EulbTypeOK'
<1>1. CASE ReadDraft(q)
  <2>1. [IdleEulbReq EXCEPT !.pc = "form"] \in EulbReqState
    BY IdleEulbTyped DEF EulbReqState
  <2>2. QED  BY <1>1, <2>1, BeginsTyped DEF ReadDraft, EulbStateOp
<1>2. CASE WriteDraft(q)
  <2>1. eulbForm' \in EulbForm
    <3>1. ASSUME NEW file \in BOOLEAN
          PROVE  [eulbForm EXCEPT !.status = "IN_PROGRESS", !.file = file,
                                  !.summary.verdict = "NOT_VALIDATED"] \in EulbForm
      BY DEF EulbTypeOK, EulbForm, EulbFormStatus, Summary
    <3>2. [eulbForm EXCEPT !.status = "IN_PROGRESS"] \in EulbForm
      BY DEF EulbTypeOK, EulbForm, EulbFormStatus
    <3>3. QED  BY <1>2, <3>1, <3>2 DEF WriteDraft
  <2>2. eulbRow' \in [EulbVersion -> Dataset]
    BY <1>2 DEF WriteDraft, EulbTypeOK
  <2>3. QED  BY <1>2, <2>1, <2>2, IdleEulbTyped, StateWriteTyped DEF WriteDraft
<1>3. QED  BY <1>1, <1>2

\* A new row is one.
LEMMA NewRowTyped ==
  ASSUME EulbTypeOK, NEW q \in EulbRequest, NEW u \in EulbUlb
  PROVE  NewRow(q, u) \in EulbRow
BY DEF EulbTypeOK, EulbReqState, NewRow, EulbRow, EulbRowStatus

\* A new dataset keeps the types.
LEMMA ReplaceTyped ==
  ASSUME EulbTypeOK, NEW q \in EulbRequest, ReplaceDataset(q)
  PROVE  EulbTypeOK'
<1>1. eulbReq[q].excel \in Excel /\ NextVersion(q) \in EulbVersion
  BY DEF ReplaceDataset, EulbTypeOK, EulbReqState
<1>2. eulbForm' \in EulbForm
  BY <1>1, SummaryTyped DEF ReplaceDataset, EulbTypeOK, EulbForm
<1>3. eulbRow' \in [EulbVersion -> Dataset]
  BY NoDatasetTyped, NewRowTyped DEF ReplaceDataset, EulbTypeOK, Dataset
<1>4. QED  BY <1>2, <1>3, IdleEulbTyped, StateWriteTyped DEF ReplaceDataset

\* An upload that begins keeps them.
LEMMA ReadUploadTyped ==
  ASSUME EulbTypeOK, NEW q \in EulbRequest, NEW file \in Excel, ReadUpload(q, file)
  PROVE  EulbTypeOK'
<1>1. [IdleEulbReq EXCEPT !.pc = "form", !.excel = file] \in EulbReqState
  BY IdleEulbTyped DEF EulbReqState
<1>2. QED  BY <1>1, BeginsTyped DEF ReadUpload, EulbStateOp

\* revalidateExcel keeps the types.
LEMMA RevalidateTyped ==
  ASSUME EulbTypeOK, NEW q \in EulbRequest,
         (\E file \in Excel : ReadRevalidate(q, file)) \/ WriteVerdicts(q) \/ WriteRevalidated(q)
  PROVE  EulbTypeOK'
<1> DEFINE bad == {u \in There(ActiveRows) : ~ActiveRows[u].good}
<1>0. There(ActiveRows) \subseteq EulbUlb
  BY DEF There
<1>1. ASSUME NEW file \in Excel, ReadRevalidate(q, file)
      PROVE  EulbTypeOK'
  <2>1. CASE There(ActiveRows) # {}
    <3>1. bad \subseteq EulbUlb
      BY <1>0
    <3>2. [IdleEulbReq EXCEPT !.pc = "rows", !.ulbs = There(ActiveRows), !.excel.bad = bad]
            \in EulbReqState
      BY <1>0, <3>1, IdleEulbTyped DEF EulbReqState, Excel
    <3>3. QED  BY <1>1, <2>1, <3>2, BeginsTyped DEF ReadRevalidate, EulbStateOp
  <2>2. CASE There(ActiveRows) = {}
    <3>1. [IdleEulbReq EXCEPT !.pc = "form", !.excel = file] \in EulbReqState
      BY IdleEulbTyped DEF EulbReqState
    <3>2. QED  BY <1>1, <2>2, <3>1, BeginsTyped DEF ReadRevalidate, EulbStateOp
  <2>3. QED  BY <2>1, <2>2
<1>2. CASE WriteVerdicts(q)
  <2>0. eulbReq[q] \in EulbReqState
    BY DEF EulbTypeOK
  <2>1. [eulbReq[q].excel EXCEPT !.rows = eulbReq[q].ulbs] \in Excel
    BY <2>0 DEF EulbReqState, Excel
  <2>2. NoExcel \in Excel
    BY DEF NoExcel, Excel
  <2>3. [eulbReq[q] EXCEPT !.pc = "form", !.excel = NoExcel,
           !.summary = SummaryOf([eulbReq[q].excel EXCEPT !.rows = eulbReq[q].ulbs])]
          \in EulbReqState
    BY <2>0, <2>1, <2>2, SummaryTyped DEF EulbReqState
  <2>4. eulbRow' \in [EulbVersion -> Dataset]
    <3>1. \A v \in EulbVersion, u \in EulbUlb, valid \in BOOLEAN :
            [eulbRow[v][u] EXCEPT !.valid = valid] \in EulbRow
      BY DEF EulbTypeOK, Dataset, EulbRow
    <3>2. QED  BY <1>2, <2>0, <3>1 DEF WriteVerdicts, EulbTypeOK, Dataset
  <2>5. eulbForm' \in EulbForm
    BY <1>2 DEF WriteVerdicts, EulbTypeOK
  <2>6. QED  BY <1>2, <2>3, <2>4, <2>5, StateWriteTyped DEF WriteVerdicts
<1>3. CASE WriteRevalidated(q)
  <2>1. eulbReq[q].summary \in Summary
    BY DEF EulbTypeOK, EulbReqState
  <2>2. eulbForm' \in EulbForm
    BY <1>3, <2>1 DEF WriteRevalidated, EulbTypeOK, EulbForm
  <2>3. eulbRow' \in [EulbVersion -> Dataset]
    BY <1>3 DEF WriteRevalidated, EulbTypeOK
  <2>4. QED  BY <1>3, <2>2, <2>3, IdleEulbTyped, StateWriteTyped DEF WriteRevalidated
<1>4. QED  BY <1>1, <1>2, <1>3

\* deleteUploadedExcel keeps the types.
LEMMA DeleteTyped ==
  ASSUME EulbTypeOK, NEW q \in EulbRequest, ReadDelete(q) \/ DeleteRows(q) \/ ResetForm(q)
  PROVE  EulbTypeOK'
<1>1. CASE ReadDelete(q)
  <2>1. [IdleEulbReq EXCEPT !.pc = "rows"] \in EulbReqState
    BY IdleEulbTyped DEF EulbReqState
  <2>2. QED  BY <1>1, <2>1, BeginsTyped DEF ReadDelete, EulbStateOp
<1>2. CASE DeleteRows(q)
  <2>1. [eulbReq[q] EXCEPT !.pc = "form"] \in EulbReqState
    BY DEF EulbTypeOK, EulbReqState
  <2>2. eulbRow' \in [EulbVersion -> Dataset] /\ eulbForm' \in EulbForm
    BY <1>2, NoDatasetTyped DEF DeleteRows, EulbTypeOK
  <2>3. QED  BY <1>2, <2>1, <2>2, StateWriteTyped DEF DeleteRows
<1>3. CASE ResetForm(q)
  <2>1. eulbForm' \in EulbForm
    BY <1>3 DEF ResetForm, EulbTypeOK, EulbForm, Summary, NotValidated
  <2>2. eulbRow' \in [EulbVersion -> Dataset]
    BY <1>3 DEF ResetForm, EulbTypeOK
  <2>3. QED  BY <1>3, <2>1, <2>2, IdleEulbTyped, StateWriteTyped DEF ResetForm
<1>4. QED  BY <1>1, <1>2, <1>3

\* updateRow keeps the types.
LEMMA EditTyped ==
  ASSUME EulbTypeOK, NEW q \in EulbRequest,
         \/ \E u \in EulbUlb, good \in BOOLEAN : ReadEdit(q, u, good)
         \/ WriteRow(q) \/ Recount(q) \/ WriteRecount(q)
  PROVE  EulbTypeOK'
<1>0. eulbReq[q] \in EulbReqState
  BY DEF EulbTypeOK
<1>1. ASSUME NEW u \in EulbUlb, NEW good \in BOOLEAN, ReadEdit(q, u, good)
      PROVE  EulbTypeOK'
  <2>1. [IdleEulbReq EXCEPT !.pc = "rows", !.ulbs = {u},
           !.resubmit = ActiveRows[u].status = "RETURNED_BY_PMU",
           !.excel.bad = IF good THEN {} ELSE {u}] \in EulbReqState
    BY IdleEulbTyped DEF EulbReqState, Excel
  <2>2. QED  BY <1>1, <2>1, BeginsTyped DEF ReadEdit, EulbStateOp
<1>2. CASE WriteRow(q)
  <2>1. [eulbReq[q] EXCEPT !.pc = "count"] \in EulbReqState
    BY <1>0 DEF EulbReqState
  <2>2. ASSUME NEW u \in EulbUlb, NEW row \in EulbRow
        PROVE  EditedRow(q, u, row) \in EulbRow
    BY <1>0 DEF EditedRow, EulbRow, EulbRowStatus, EulbReqState
  <2>3. eulbRow' \in [EulbVersion -> Dataset]
    BY <1>2, <1>0, <2>2 DEF WriteRow, EulbTypeOK, Dataset
  <2>4. eulbForm' \in EulbForm
    BY <1>2 DEF WriteRow, EulbTypeOK, EulbForm, EulbFormStatus
  <2>5. QED  BY <1>2, <2>1, <2>3, <2>4, StateWriteTyped DEF WriteRow
<1>3. CASE Recount(q)
  <2>1. ASSUME NEW errors \in BOOLEAN
        PROVE  [eulbReq[q] EXCEPT !.pc = "form", !.summary.errors = errors,
                  !.summary.verdict = EulbVerdict(errors, eulbForm.summary.missing)]
                 \in EulbReqState
    BY <1>0 DEF EulbReqState, Summary, EulbVerdict
  <2>2. InError(eulbRow[eulbReq[q].version]) \in BOOLEAN
    BY DEF InError
  <2>3. QED  BY <1>3, <2>1, <2>2 DEF Recount, EulbTypeOK
<1>4. CASE WriteRecount(q)
  <2>1. eulbReq[q].summary \in Summary
    BY <1>0 DEF EulbReqState
  <2>2. eulbForm' \in EulbForm
    BY <1>4, <2>1 DEF WriteRecount, EulbTypeOK, EulbForm, Summary
  <2>3. eulbRow' \in [EulbVersion -> Dataset]
    BY <1>4 DEF WriteRecount, EulbTypeOK
  <2>4. QED  BY <1>4, <2>2, <2>3, IdleEulbTyped, StateWriteTyped DEF WriteRecount
<1>5. QED  BY <1>1, <1>2, <1>3, <1>4

\* finalSubmit keeps the types.
LEMMA SubmitTyped ==
  ASSUME EulbTypeOK, NEW q \in EulbRequest, ReadSubmit(q) \/ CommitSubmit(q)
  PROVE  EulbTypeOK'
<1>1. CASE ReadSubmit(q)
  <2>1. [IdleEulbReq EXCEPT !.pc = "form"] \in EulbReqState
    BY IdleEulbTyped DEF EulbReqState
  <2>2. QED  BY <1>1, <2>1, BeginsTyped DEF ReadSubmit, EulbStateOp
<1>2. CASE CommitSubmit(q)
  <2>1. eulbForm' \in EulbForm
    BY <1>2 DEF CommitSubmit, EulbTypeOK, EulbForm, EulbFormStatus
  <2>2. \A v \in EulbVersion, u \in EulbUlb :
          [eulbRow[v][u] EXCEPT !.status = "UNDER_REVIEW_BY_PMU"] \in EulbRow
    BY RowTyped, VersionTyped DEF EulbRowStatus
  <2>3. eulbRow' \in [EulbVersion -> Dataset]
    BY <1>2, <2>2 DEF CommitSubmit, EulbTypeOK, EulbReqState, Dataset
  <2>4. QED  BY <1>2, <2>1, <2>3, IdleEulbTyped, StateWriteTyped DEF CommitSubmit
<1>3. QED  BY <1>1, <1>2

\* submitBatch keeps the types.
LEMMA PostTyped ==
  ASSUME EulbTypeOK, NEW q \in EulbRequest,
         (\E U \in SUBSET EulbUlb : ReadPost(q, U)) \/ CommitPost(q)
  PROVE  EulbTypeOK'
<1>1. ASSUME NEW U \in SUBSET EulbUlb, ReadPost(q, U)
      PROVE  EulbTypeOK'
  <2>1. [IdleEulbReq EXCEPT !.pc = "form", !.ulbs = U] \in EulbReqState
    BY IdleEulbTyped DEF EulbReqState
  <2>2. QED  BY <1>1, <2>1, BeginsTyped DEF ReadPost, EulbStateOp
<1>2. CASE CommitPost(q)
  <2>0. eulbReq[q] \in EulbReqState
    BY DEF EulbTypeOK
  <2>1. CorrectedRows(q) \in Dataset
    BY <2>0, RowTyped, VersionTyped DEF CorrectedRows, Dataset, EulbReqState
  <2>2. ASSUME NEW errors \in BOOLEAN
        PROVE  [eulbForm EXCEPT !.batches = @ \cup {eulbReq[q].number}, !.summary.errors = errors,
                  !.summary.verdict = EulbVerdict(errors, eulbForm.summary.missing)] \in EulbForm
    BY <2>0 DEF EulbTypeOK, EulbForm, Summary, EulbVerdict, EulbReqState
  <2>3. InError(CorrectedRows(q)) \in BOOLEAN
    BY DEF InError
  <2>4. eulbForm' \in EulbForm
    BY <1>2, <2>2, <2>3 DEF CommitPost
  <2>5. eulbRow' \in [EulbVersion -> Dataset]
    BY <1>2, <2>1 DEF CommitPost, EulbTypeOK
  <2>6. QED  BY <1>2, <2>4, <2>5, IdleEulbTyped, StateWriteTyped DEF CommitPost
<1>3. QED  BY <1>1, <1>2

\* The reviews of PMU keep the types.
LEMMA EulbReviewTyped ==
  ASSUME EulbTypeOK, NEW q \in EulbRequest,
         \/ \E op \in EulbReviewOp : ReadEulbReview(q, op)
         \/ \E U \in SUBSET EulbUlb : LoadEulbRows(q, U)
         \/ CommitEulbReview(q)
  PROVE  EulbTypeOK'
<1>0. eulbReq[q] \in EulbReqState /\ eulbForm \in EulbForm
  BY DEF EulbTypeOK
<1>1. ASSUME NEW op \in EulbReviewOp, ReadEulbReview(q, op)
      PROVE  EulbTypeOK'
  <2>1. [IdleEulbReq EXCEPT !.pc = "load", !.op = op, !.version = eulbForm.version]
          \in EulbReqState
    BY <1>0, IdleEulbTyped DEF EulbReqState, EulbForm
  <2>2. QED  BY <1>1, <2>1 DEF ReadEulbReview, EulbTypeOK
<1>2. ASSUME NEW U \in SUBSET EulbUlb, LoadEulbRows(q, U)
      PROVE  EulbTypeOK'
  <2>1. [eulbReq[q] EXCEPT !.pc = "form", !.ulbs = U] \in EulbReqState
    BY <1>0 DEF EulbReqState
  <2>2. QED  BY <1>2, <2>1 DEF LoadEulbRows, EulbTypeOK
<1>3. CASE CommitEulbReview(q)
  <2>1. EulbDecided(q) \in Dataset
    BY <1>0, RowTyped, VersionTyped DEF EulbDecided, Dataset, EulbRowStatus, EulbReqState
  <2>2. ReviewOutcome(q) \subseteq EulbFormStatus
    BY DEF ReviewOutcome, Settles, EulbFormStatus
  <2>3. eulbForm' \in EulbForm
    BY <1>3, <1>0, <2>2 DEF CommitEulbReview, EulbForm
  <2>4. QED  BY <1>3, <2>1, <2>3, IdleEulbTyped DEF CommitEulbReview, EulbTypeOK
<1>4. QED  BY <1>1, <1>2, <1>3

\* Every step keeps the types.
LEMMA EulbStepTyped == EulbTypeOK /\ [EulbNext]_eulbVars => EulbTypeOK'
<1> SUFFICES ASSUME EulbTypeOK, [EulbNext]_eulbVars
             PROVE  EulbTypeOK'
  OBVIOUS
<1>1. ASSUME NEW q \in EulbRequest, EulbStops(q)
      PROVE  EulbTypeOK'
  BY <1>1, IdleEulbTyped DEF EulbStops, EulbTypeOK
<1>2. CASE UNCHANGED eulbVars
  BY <1>2 DEF eulbVars, EulbTypeOK
<1>3. QED
  BY <1>1, <1>2, DraftTyped, ReadUploadTyped, RevalidateTyped, ReplaceTyped, DeleteTyped, EditTyped,
     SubmitTyped, PostTyped, EulbReviewTyped
  DEF EulbNext

\* Type correctness.
THEOREM EulbTypeCorrect == EulbSpec => []EulbTypeOK
BY EulbInitTyped, EulbStepTyped, PTL DEF EulbSpec

-----------------------------------------------------------------------------
(* One dataset                                                             *)

\* The rows there are stay where they are and what they came with, or go.
RowsStayOrGo ==
  \A v \in EulbVersion, u \in EulbUlb :
    eulbRow'[v][u].there =>
      eulbRow[v][u].there /\ eulbRow'[v][u].from = eulbRow[v][u].from

\* Whatever does so, and leaves the active version, leaves the dataset whole.
LEMMA StayWhole ==
  ASSUME DatasetIsWhole, RowsStayOrGo, eulbForm'.version = eulbForm.version
  PROVE  DatasetIsWhole'
BY DEF DatasetIsWhole, RowsStayOrGo

\* The State's other writes than a new dataset do so.
LEMMA StateWritesStayOrGo ==
  ASSUME EulbTypeOK, NEW q \in EulbRequest,
         \/ WriteVerdicts(q) \/ DeleteRows(q) \/ WriteRow(q) \/ CommitSubmit(q) \/ CommitPost(q)
  PROVE  RowsStayOrGo /\ eulbForm'.version = eulbForm.version
<1>0. eulbReq[q] \in EulbReqState /\ eulbForm \in EulbForm
  BY DEF EulbTypeOK
<1>1. \A v \in EulbVersion, u \in EulbUlb : eulbRow[v][u] \in EulbRow
  BY VersionTyped
<1>2. CASE WriteVerdicts(q)
  BY <1>0, <1>1, <1>2 DEF WriteVerdicts, RowsStayOrGo, EulbTypeOK, Dataset, EulbRow
<1>3. CASE DeleteRows(q)
  BY <1>0, <1>3 DEF DeleteRows, RowsStayOrGo, EulbTypeOK, Dataset, NoDataset, NoEulbRow
<1>4. CASE WriteRow(q)
  <2>1. RowsStayOrGo
    BY ZenonT(40), <1>0, <1>1, <1>4 DEF WriteRow, EditedRow, RowsStayOrGo, EulbTypeOK, Dataset, EulbRow
  <2>2. QED  BY <1>0, <1>4, <2>1 DEF WriteRow, EulbForm
<1>5. CASE CommitSubmit(q)
  <2>1. RowsStayOrGo
    BY <1>0, <1>1, <1>5 DEF CommitSubmit, RowsStayOrGo, EulbTypeOK, Dataset, EulbRow
  <2>2. QED  BY <1>0, <1>5, <2>1 DEF CommitSubmit, EulbForm
<1>6. CASE CommitPost(q)
  <2>1. RowsStayOrGo
    BY ZenonT(40), <1>0, <1>1, <1>6 DEF CommitPost, CorrectedRows, RowsStayOrGo, EulbTypeOK, Dataset, EulbRow
  <2>2. QED  BY <1>0, <1>6, <2>1 DEF CommitPost, EulbForm, Summary
<1>7. QED  BY <1>2, <1>3, <1>4, <1>5, <1>6

\* So do the decisions of PMU.
LEMMA ReviewStaysOrGoes ==
  ASSUME EulbTypeOK, NEW q \in EulbRequest, CommitEulbReview(q)
  PROVE  RowsStayOrGo /\ eulbForm'.version = eulbForm.version
<1>0. eulbReq[q] \in EulbReqState /\ eulbForm \in EulbForm
  BY DEF EulbTypeOK
<1>1. \A v \in EulbVersion, u \in EulbUlb : eulbRow[v][u] \in EulbRow
  BY VersionTyped
<1>2. RowsStayOrGo
  BY <1>0, <1>1 DEF CommitEulbReview, EulbDecided, RowsStayOrGo, EulbTypeOK, Dataset, EulbRow
<1>3. QED  BY <1>0, <1>2 DEF CommitEulbReview, EulbForm

\* The steps that leave the rows leave the active version too.
LEMMA NoRowsWritten ==
  ASSUME EulbTypeOK, NEW q \in EulbRequest, UNCHANGED eulbRow,
         \/ UNCHANGED eulbForm \/ WriteDraft(q) \/ WriteRevalidated(q) \/ ResetForm(q)
         \/ WriteRecount(q)
  PROVE  RowsStayOrGo /\ eulbForm'.version = eulbForm.version
<1>0. eulbForm \in EulbForm
  BY DEF EulbTypeOK
<1>1. RowsStayOrGo
  BY DEF RowsStayOrGo
<1>2. QED
  BY <1>0, <1>1 DEF WriteDraft, WriteRevalidated, ResetForm, WriteRecount, EulbForm, Summary

\* A new dataset takes the place of the one before it.
LEMMA ReplacesWhole ==
  ASSUME EulbTypeOK, DatasetIsWhole, NEW q \in EulbRequest, ReplaceDataset(q)
  PROVE  DatasetIsWhole'
<1> DEFINE n == NextVersion(q)
<1>0. eulbForm.version \in Nat /\ n = eulbForm.version + 1 /\ n \in EulbVersion
  BY EulbAssumption DEF EulbTypeOK, EulbForm, EulbVersion, NextVersion, ReplaceDataset
<1>1. n - 1 = eulbForm.version /\ n # eulbForm.version
  BY <1>0
<1>2. eulbForm'.version = n
  BY DEF ReplaceDataset, EulbTypeOK, EulbForm
<1>3. ASSUME NEW v \in EulbVersion, NEW u \in EulbUlb, eulbRow'[v][u].there
      PROVE  v = n /\ eulbRow'[v][u].from = eulbReq[q].number
  <2>1. CASE v = n
    <3>1. ~eulbRow[n][u].there
      BY <1>0, <1>1 DEF DatasetIsWhole
    <3>2. eulbRow'[n][u] = IF u \in eulbReq[q].excel.rows THEN NewRow(q, u) ELSE eulbRow[n][u]
      BY <1>0, <1>1 DEF ReplaceDataset, EulbTypeOK, Dataset
    <3>3. QED  BY <1>3, <2>1, <3>1, <3>2 DEF NewRow
  <2>2. CASE v # n
    <3>1. v = eulbForm.version => eulbRow'[v] = NoDataset
      BY <1>0, <1>1, <2>2 DEF ReplaceDataset, EulbTypeOK
    <3>2. v # eulbForm.version => eulbRow'[v] = eulbRow[v] /\ ~eulbRow[v][u].there
      BY <1>0, <1>1, <2>2 DEF ReplaceDataset, EulbTypeOK, DatasetIsWhole
    <3>3. QED  BY <1>3, <3>1, <3>2 DEF NoDataset, NoEulbRow
  <2>3. QED  BY <2>1, <2>2
<1>4. QED  BY <1>2, <1>3 DEF DatasetIsWhole

\* Every step leaves the dataset whole.
LEMMA StepsWhole ==
  ASSUME EulbTypeOK, DatasetIsWhole, [EulbNext]_eulbVars
  PROVE  DatasetIsWhole'
<1>1. CASE UNCHANGED eulbVars
  BY <1>1 DEF eulbVars, DatasetIsWhole
<1>2. ASSUME NEW q \in EulbRequest,
             \/ ReadDraft(q) \/ ReadDelete(q) \/ ReadSubmit(q) \/ Recount(q) \/ EulbStops(q)
             \/ \E file \in Excel : ReadUpload(q, file) \/ ReadRevalidate(q, file)
             \/ \E u \in EulbUlb, good \in BOOLEAN : ReadEdit(q, u, good)
             \/ \E U \in SUBSET EulbUlb : ReadPost(q, U) \/ LoadEulbRows(q, U)
             \/ \E op \in EulbReviewOp : ReadEulbReview(q, op)
      PROVE  DatasetIsWhole'
  <2>1. UNCHANGED <<eulbForm, eulbRow>>
    BY <1>2
    DEF ReadDraft, ReadDelete, ReadSubmit, Recount, EulbStops, ReadUpload, ReadRevalidate,
        ReadEdit, ReadPost, LoadEulbRows, ReadEulbReview, Begins
  <2>2. QED  BY <2>1, NoRowsWritten, StayWhole
<1>3. ASSUME NEW q \in EulbRequest,
             WriteDraft(q) \/ WriteRevalidated(q) \/ ResetForm(q) \/ WriteRecount(q)
      PROVE  DatasetIsWhole'
  <2>1. UNCHANGED eulbRow
    BY <1>3 DEF WriteDraft, WriteRevalidated, ResetForm, WriteRecount
  <2>2. QED  BY <1>3, <2>1, NoRowsWritten, StayWhole
<1>4. QED
  BY <1>1, <1>2, <1>3, StateWritesStayOrGo, ReviewStaysOrGoes, StayWhole, ReplacesWhole DEF EulbNext

\* The rows there are belong to the active dataset version and all came with one upload, however
\* uploads, revalidations, deletions, edits and reviews overlap.
THEOREM OneDataset == EulbSpec => []DatasetIsWhole
<1>1. EulbInit => DatasetIsWhole
  BY DEF EulbInit, DatasetIsWhole, NoDataset, NoEulbRow
<1>2. EulbTypeOK /\ DatasetIsWhole /\ [EulbNext]_eulbVars => DatasetIsWhole'
  BY StepsWhole
<1>3. QED  BY <1>1, <1>2, EulbTypeCorrect, PTL DEF EulbSpec

-----------------------------------------------------------------------------
(* Approved rows                                                           *)

\* A request works on the dataset that is active or on one before it.
ReadsActive ==
  \A q \in EulbRequest : eulbReq[q].pc # "idle" => eulbReq[q].version <= eulbForm.version

\* PMU has one request at a time.
OneReview == \A p, q \in EulbReviewing : p = q

\* The rows that PMU is about to decide are pending, as they were when they were loaded.
DecidesPending ==
  \A q \in EulbReviewing, u \in EulbUlb :
    LET row == eulbRow[eulbReq[q].version][u]
    IN eulbReq[q].pc = "form" /\ u \in eulbReq[q].ulbs /\ row.there =>
         row.status = "UNDER_REVIEW_BY_PMU"

\* The row of an edit may be edited, as long as the State has not written since it was read.
EditsEditable ==
  \A q \in EulbRequest, u \in EulbUlb :
    LET row == eulbRow[eulbReq[q].version][u]
    IN eulbReq[q].pc = "rows" /\ eulbReq[q].op = "edit" /\ ~eulbReq[q].stale
         /\ u \in eulbReq[q].ulbs /\ row.there =>
         EulbCanStateEditRow(row)

EulbInv ==
  /\ EulbTypeOK /\ DatasetIsWhole
  /\ ReadsActive /\ OneReview /\ DecidesPending /\ EditsEditable

\* What the State leaves: a row of the active dataset or of one before it that is pending stays so
\* or goes.
PendingStaysOrGoes ==
  \A v \in EulbVersion, u \in EulbUlb :
    v <= eulbForm.version /\ eulbRow'[v][u].there =>
      /\ eulbRow[v][u].there
      /\ eulbRow[v][u].status = "UNDER_REVIEW_BY_PMU" =>
           eulbRow'[v][u].status = "UNDER_REVIEW_BY_PMU"

\* A write of the State of that kind, after which it is done or has no row to edit, keeps the
\* invariant.
LEMMA StateKeepsInv ==
  ASSUME EulbInv, EulbTypeOK', DatasetIsWhole', eulbForm.version <= eulbForm'.version,
         PendingStaysOrGoes,
         NEW q \in EulbRequest, eulbReq[q].pc # "idle", eulbReq[q].op \notin EulbReviewOp,
         NEW r \in EulbReqState, Writes(q, r),
         r.pc = "idle" \/ (r.pc # "rows" /\ r.op = eulbReq[q].op /\ r.version = eulbReq[q].version)
  PROVE  EulbInv'
<1>0. /\ \A p \in EulbRequest : eulbReq[p] \in EulbReqState
      /\ eulbForm \in EulbForm /\ eulbForm' \in EulbForm
  BY DEF EulbInv, EulbTypeOK
<1>1. eulbReq'[q] = r
  BY DEF Writes
<1>2. ASSUME NEW p \in EulbRequest, p # q
      PROVE  /\ eulbReq'[p].pc = eulbReq[p].pc /\ eulbReq'[p].op = eulbReq[p].op
             /\ eulbReq'[p].version = eulbReq[p].version /\ eulbReq'[p].ulbs = eulbReq[p].ulbs
             /\ eulbReq[p].pc # "idle" /\ eulbReq[p].op \notin EulbReviewOp => eulbReq'[p].stale
  BY <1>0, <1>2 DEF Writes, EulbOpen, EulbReviewing, EulbReqState
<1>3. ASSUME NEW p \in EulbReviewing'
      PROVE  p # q /\ p \in EulbReviewing
  BY <1>1, <1>2, <1>3 DEF EulbReviewing, EulbOpen
<1>4. ReadsActive'
  <2>1. \A p \in EulbRequest : eulbReq[p].version \in Nat
    BY <1>0, EulbAssumption DEF EulbReqState, EulbVersion
  <2>2. eulbForm.version \in Nat /\ eulbForm'.version \in Nat
    BY <1>0, EulbAssumption DEF EulbForm, EulbVersion
  <2>3. QED  BY <1>1, <1>2, <2>1, <2>2 DEF ReadsActive, EulbInv
<1>5. OneReview'
  BY <1>3 DEF OneReview, EulbInv
<1>6. DecidesPending'
  <2> SUFFICES ASSUME NEW p \in EulbReviewing', NEW u \in EulbUlb,
                      eulbReq'[p].pc = "form", u \in eulbReq'[p].ulbs,
                      eulbRow'[eulbReq'[p].version][u].there
               PROVE  eulbRow'[eulbReq'[p].version][u].status = "UNDER_REVIEW_BY_PMU"
    BY DEF DecidesPending
  <2>1. p # q /\ p \in EulbReviewing /\ p \in EulbRequest
    BY <1>3 DEF EulbReviewing, EulbOpen
  <2>2. /\ eulbReq[p].pc = "form" /\ u \in eulbReq[p].ulbs
        /\ eulbReq'[p].version = eulbReq[p].version
    BY <1>2, <2>1
  <2>3. eulbReq[p].version \in EulbVersion /\ eulbReq[p].version <= eulbForm.version
    BY <1>0, <2>1, <2>2 DEF EulbReqState, EulbInv, ReadsActive
  <2>4. QED  BY <2>1, <2>2, <2>3 DEF PendingStaysOrGoes, EulbInv, DecidesPending
<1>7. EditsEditable'
  <2> SUFFICES ASSUME NEW p \in EulbRequest, eulbReq'[p].pc = "rows", eulbReq'[p].op = "edit"
               PROVE  eulbReq'[p].stale
    BY DEF EditsEditable
  <2>1. p # q
    BY <1>1
  <2>2. QED  BY <1>2, <2>1 DEF EulbReviewOp
<1>8. QED  BY <1>4, <1>5, <1>6, <1>7 DEF EulbInv

\* Every write of the State but a new dataset is of that kind.
LEMMA StateWritesPending ==
  ASSUME EulbTypeOK, NEW q \in EulbRequest,
         \/ WriteVerdicts(q) \/ DeleteRows(q) \/ WriteRow(q) \/ CommitSubmit(q) \/ CommitPost(q)
  PROVE  PendingStaysOrGoes
<1>0. eulbReq[q] \in EulbReqState
  BY DEF EulbTypeOK
<1>1. \A v \in EulbVersion, u \in EulbUlb : eulbRow[v][u] \in EulbRow
  BY VersionTyped
<1>2. CASE WriteVerdicts(q)
  BY <1>0, <1>1, <1>2 DEF WriteVerdicts, PendingStaysOrGoes, EulbTypeOK, Dataset, EulbRow
<1>3. CASE DeleteRows(q)
  BY <1>0, <1>3 DEF DeleteRows, PendingStaysOrGoes, EulbTypeOK, Dataset, NoDataset, NoEulbRow
<1>4. CASE WriteRow(q)
  BY ZenonT(40), <1>0, <1>1, <1>4 DEF WriteRow, EditedRow, PendingStaysOrGoes, EulbTypeOK, Dataset, EulbRow
<1>5. CASE CommitSubmit(q)
  BY <1>0, <1>1, <1>5 DEF CommitSubmit, PendingStaysOrGoes, EulbTypeOK, Dataset, EulbRow
<1>6. CASE CommitPost(q)
  BY <1>0, <1>1, <1>6
  DEF CommitPost, CorrectedRows, PendingStaysOrGoes, EulbTypeOK, Dataset, EulbRow
<1>7. QED  BY <1>2, <1>3, <1>4, <1>5, <1>6

\* So is a new dataset: the rows of the one before it go, and there are none of its version before.
LEMMA ReplacePending ==
  ASSUME EulbTypeOK, NEW q \in EulbRequest, ReplaceDataset(q)
  PROVE  PendingStaysOrGoes /\ eulbForm.version <= eulbForm'.version
<1>1. eulbForm.version \in Nat /\ NextVersion(q) = eulbForm.version + 1
  BY EulbAssumption DEF EulbTypeOK, EulbForm, EulbVersion, NextVersion
<1>2. eulbForm'.version = eulbForm.version + 1
  BY <1>1 DEF ReplaceDataset, EulbTypeOK, EulbForm
<1>3. ASSUME NEW v \in EulbVersion, v <= eulbForm.version
      PROVE  eulbRow'[v] = IF v = eulbForm.version THEN NoDataset ELSE eulbRow[v]
  BY <1>1, <1>3 DEF ReplaceDataset, EulbTypeOK, EulbVersion
<1>4. QED  BY <1>1, <1>2, <1>3 DEF PendingStaysOrGoes, NoDataset, NoEulbRow

\* A request of the State that begins keeps the invariant, if an edit has an editable row.
LEMMA BeginsKeepsInv ==
  ASSUME EulbInv, EulbTypeOK', NEW q \in EulbRequest, NEW op \in EulbStateOp,
         NEW r \in EulbReqState, Begins(q, op, r),
         op = "edit" => \A u \in r.ulbs : EulbCanStateEditRow(ActiveRows[u])
  PROVE  EulbInv'
<1> DEFINE begun == [r EXCEPT !.op = op, !.number = eulbOps + 1, !.version = eulbForm.version,
                              !.status = eulbForm.status, !.stale = HalfDeleted]
<1>1. /\ eulbReq'[q] = begun
      /\ \A p \in EulbRequest \ {q} : eulbReq'[p] = eulbReq[p]
      /\ UNCHANGED <<eulbForm, eulbRow>> /\ eulbReq[q].pc = "idle"
  BY DEF Begins, EulbInv, EulbTypeOK
<1>2. /\ begun.op = op /\ begun.version = eulbForm.version /\ begun.ulbs = r.ulbs
      /\ op \notin EulbReviewOp
  BY DEF EulbReqState, EulbStateOp, EulbReviewOp
<1>3. eulbForm.version <= eulbForm.version
  BY EulbAssumption DEF EulbInv, EulbTypeOK, EulbForm, EulbVersion
<1>4. EulbReviewing' = EulbReviewing
  BY <1>1, <1>2 DEF EulbReviewing, EulbOpen
<1>5. ReadsActive' /\ OneReview'
  BY <1>1, <1>2, <1>3, <1>4 DEF EulbInv, ReadsActive, OneReview
<1>6. DecidesPending'
  <2>1. \A p \in EulbReviewing : p \in EulbRequest \ {q}
    BY <1>1 DEF EulbReviewing, EulbOpen
  <2>2. QED  BY <1>1, <1>4, <2>1 DEF EulbInv, DecidesPending
<1> HIDE DEF begun
<1>7. EditsEditable'
  <2> SUFFICES ASSUME NEW p \in EulbRequest, NEW u \in EulbUlb,
                      eulbReq'[p].pc = "rows", eulbReq'[p].op = "edit", ~eulbReq'[p].stale,
                      u \in eulbReq'[p].ulbs, eulbRow'[eulbReq'[p].version][u].there
               PROVE  EulbCanStateEditRow(eulbRow'[eulbReq'[p].version][u])
    BY DEF EditsEditable
  <2>1. CASE p = q
    BY <1>1, <1>2, <2>1 DEF ActiveRows
  <2>2. CASE p # q
    BY <1>1, <2>2 DEF EulbInv, EditsEditable
  <2>3. QED  BY <2>1, <2>2
<1>8. DatasetIsWhole'
  BY <1>1 DEF EulbInv, DatasetIsWhole
<1>9. QED  BY <1>5, <1>6, <1>7, <1>8 DEF EulbInv

\* The requests of the State that begin keep the invariant.
LEMMA ReadsKeepInv ==
  ASSUME EulbInv, EulbTypeOK', NEW q \in EulbRequest,
         \/ ReadDraft(q) \/ ReadDelete(q) \/ ReadSubmit(q)
         \/ \E file \in Excel : ReadUpload(q, file) \/ ReadRevalidate(q, file)
         \/ \E u \in EulbUlb, good \in BOOLEAN : ReadEdit(q, u, good)
         \/ \E U \in SUBSET EulbUlb : ReadPost(q, U)
  PROVE  EulbInv'
<1>0. /\ "draft" \in EulbStateOp /\ "delete" \in EulbStateOp /\ "submit" \in EulbStateOp
      /\ "upload" \in EulbStateOp /\ "revalidate" \in EulbStateOp /\ "edit" \in EulbStateOp
      /\ "post" \in EulbStateOp
  BY DEF EulbStateOp
<1>1. /\ [IdleEulbReq EXCEPT !.pc = "form"] \in EulbReqState
      /\ [IdleEulbReq EXCEPT !.pc = "rows"] \in EulbReqState
  BY IdleEulbTyped DEF EulbReqState
<1>2. CASE ReadDraft(q) \/ ReadDelete(q) \/ ReadSubmit(q)
  BY <1>0, <1>1, <1>2, BeginsKeepsInv DEF ReadDraft, ReadDelete, ReadSubmit
<1>3. ASSUME NEW file \in Excel, ReadUpload(q, file) \/ ReadRevalidate(q, file)
      PROVE  EulbInv'
  <2>1. [IdleEulbReq EXCEPT !.pc = "form", !.excel = file] \in EulbReqState
    BY IdleEulbTyped DEF EulbReqState
  <2>2. [IdleEulbReq EXCEPT !.pc = "rows", !.ulbs = There(ActiveRows),
           !.excel.bad = {u \in There(ActiveRows) : ~ActiveRows[u].good}] \in EulbReqState
    BY IdleEulbTyped DEF EulbReqState, Excel, There
  <2>3. CASE ReadUpload(q, file)
    BY <1>0, <2>1, <2>3, BeginsKeepsInv DEF ReadUpload
  <2>4. CASE ReadRevalidate(q, file)
    BY <1>0, <2>1, <2>2, <2>4, BeginsKeepsInv DEF ReadRevalidate
  <2>5. QED  BY <1>3, <2>3, <2>4
<1>4. ASSUME NEW u \in EulbUlb, NEW good \in BOOLEAN, ReadEdit(q, u, good)
      PROVE  EulbInv'
  <2> DEFINE r == [IdleEulbReq EXCEPT !.pc = "rows", !.ulbs = {u},
                     !.resubmit = ActiveRows[u].status = "RETURNED_BY_PMU",
                     !.excel.bad = IF good THEN {} ELSE {u}]
  <2>1. r \in EulbReqState /\ r.ulbs = {u}
    BY IdleEulbTyped DEF EulbReqState, Excel
  <2>2. Begins(q, "edit", r) /\ EulbCanStateEditRow(ActiveRows[u])
    BY <1>4 DEF ReadEdit
  <2>3. \A t \in r.ulbs : EulbCanStateEditRow(ActiveRows[t])
    BY <2>1, <2>2
  <2> HIDE DEF r
  <2>4. QED  BY <1>0, <2>1, <2>2, <2>3, BeginsKeepsInv
<1>5. ASSUME NEW U \in SUBSET EulbUlb, ReadPost(q, U)
      PROVE  EulbInv'
  <2>1. [IdleEulbReq EXCEPT !.pc = "form", !.ulbs = U] \in EulbReqState
    BY IdleEulbTyped DEF EulbReqState
  <2>2. QED  BY <1>0, <1>5, <2>1, BeginsKeepsInv DEF ReadPost
<1>6. QED  BY <1>2, <1>3, <1>4, <1>5

\* What the State writes keeps the invariant.
LEMMA WritesKeepInv ==
  ASSUME EulbInv, EulbTypeOK', DatasetIsWhole', NEW q \in EulbRequest,
         \/ WriteDraft(q) \/ ReplaceDataset(q) \/ WriteVerdicts(q) \/ WriteRevalidated(q)
         \/ DeleteRows(q) \/ ResetForm(q) \/ WriteRow(q) \/ WriteRecount(q) \/ CommitSubmit(q)
         \/ CommitPost(q)
  PROVE  EulbInv'
<1>0. eulbReq[q] \in EulbReqState /\ EulbTypeOK
  BY DEF EulbInv, EulbTypeOK
<1>1. eulbReq[q].pc # "idle" /\ eulbReq[q].op \notin EulbReviewOp
  BY DEF WriteDraft, ReplaceDataset, WriteVerdicts, WriteRevalidated, DeleteRows, ResetForm, WriteRow,
         WriteRecount, CommitSubmit, CommitPost, EulbReviewOp
<1>2. PendingStaysOrGoes /\ eulbForm.version <= eulbForm'.version
  <2>1. CASE ReplaceDataset(q)
    BY <1>0, <2>1, ReplacePending
  <2>2. CASE WriteVerdicts(q) \/ DeleteRows(q) \/ WriteRow(q) \/ CommitSubmit(q) \/ CommitPost(q)
    <3>1. eulbForm'.version = eulbForm.version /\ eulbForm.version \in Nat
      BY <1>0, <2>2, StateWritesStayOrGo, EulbAssumption DEF EulbTypeOK, EulbForm, EulbVersion
    <3>2. QED  BY <1>0, <2>2, <3>1, StateWritesPending
  <2>3. CASE WriteDraft(q) \/ WriteRevalidated(q) \/ ResetForm(q) \/ WriteRecount(q)
    <3>1. UNCHANGED eulbRow
      BY <2>3 DEF WriteDraft, WriteRevalidated, ResetForm, WriteRecount
    <3>2. eulbForm'.version = eulbForm.version /\ eulbForm.version \in Nat
      BY <1>0, <2>3, <3>1, NoRowsWritten, EulbAssumption DEF EulbTypeOK, EulbForm, EulbVersion
    <3>3. QED  BY <3>1, <3>2 DEF PendingStaysOrGoes
  <2>4. QED  BY <2>1, <2>2, <2>3
<1>3. ASSUME NEW r \in EulbReqState, Writes(q, r),
             \/ r.pc = "idle"
             \/ r.pc # "rows" /\ r.op = eulbReq[q].op /\ r.version = eulbReq[q].version
      PROVE  EulbInv'
  BY <1>1, <1>2, <1>3, StateKeepsInv
<1>4. CASE WriteDraft(q) \/ ReplaceDataset(q) \/ WriteRevalidated(q) \/ ResetForm(q)
             \/ WriteRecount(q) \/ CommitSubmit(q) \/ CommitPost(q)
  <2>1. Writes(q, IdleEulbReq) /\ IdleEulbReq.pc = "idle"
    BY <1>4
    DEF WriteDraft, ReplaceDataset, WriteRevalidated, ResetForm, WriteRecount, CommitSubmit,
        CommitPost, IdleEulbReq
  <2>2. QED  BY <1>3, <2>1, IdleEulbTyped
<1>5. CASE WriteVerdicts(q)
  <2> DEFINE r == [eulbReq[q] EXCEPT
                     !.pc = "form", !.excel = NoExcel,
                     !.summary = SummaryOf([eulbReq[q].excel EXCEPT !.rows = eulbReq[q].ulbs])]
  <2>1. [eulbReq[q].excel EXCEPT !.rows = eulbReq[q].ulbs] \in Excel /\ NoExcel \in Excel
    BY <1>0 DEF EulbReqState, Excel, NoExcel
  <2>2. r \in EulbReqState /\ r.pc = "form" /\ r.op = eulbReq[q].op /\ r.version = eulbReq[q].version
    BY <1>0, <2>1, SummaryTyped DEF EulbReqState
  <2>3. Writes(q, r)
    BY <1>5 DEF WriteVerdicts
  <2> HIDE DEF r
  <2>4. QED  BY <1>3, <2>2, <2>3
<1>6. CASE DeleteRows(q)
  <2>1. [eulbReq[q] EXCEPT !.pc = "form"] \in EulbReqState
    BY <1>0 DEF EulbReqState
  <2>2. QED  BY <1>0, <1>3, <1>6, <2>1 DEF DeleteRows, EulbReqState
<1>7. CASE WriteRow(q)
  <2>1. [eulbReq[q] EXCEPT !.pc = "count"] \in EulbReqState
    BY <1>0 DEF EulbReqState
  <2>2. QED  BY <1>0, <1>3, <1>7, <2>1 DEF WriteRow, EulbReqState
<1>8. QED  BY <1>4, <1>5, <1>6, <1>7

\* A count and the end of a request keep it.
LEMMA RestKeepsInv ==
  ASSUME EulbInv, EulbTypeOK', NEW q \in EulbRequest, Recount(q) \/ EulbStops(q)
  PROVE  EulbInv'
<1>0. \A p \in EulbRequest : eulbReq[p] \in EulbReqState
  BY DEF EulbInv, EulbTypeOK
<1>1. UNCHANGED <<eulbForm, eulbRow>> /\ \A p \in EulbRequest \ {q} : eulbReq'[p] = eulbReq[p]
  BY DEF Recount, EulbStops, EulbInv, EulbTypeOK
<1>2. \/ eulbReq'[q].pc = "idle"
      \/ /\ eulbReq'[q].pc = "form" /\ eulbReq'[q].op = "edit" /\ eulbReq[q].pc # "idle"
         /\ eulbReq'[q].version = eulbReq[q].version
  BY <1>0 DEF Recount, EulbStops, EulbInv, EulbTypeOK, EulbReqState, IdleEulbReq
<1>3. DatasetIsWhole'
  BY <1>1 DEF EulbInv, DatasetIsWhole
<1>4. ReadsActive'
  BY <1>1, <1>2 DEF EulbInv, ReadsActive
<1>5. \A p \in EulbReviewing' : p \in EulbReviewing /\ p # q /\ p \in EulbRequest
  BY <1>1, <1>2 DEF EulbReviewing, EulbOpen, EulbReviewOp
<1>6. OneReview'
  BY <1>5 DEF EulbInv, OneReview
<1>7. DecidesPending'
  <2> SUFFICES ASSUME NEW p \in EulbReviewing', NEW u \in EulbUlb,
                      eulbReq'[p].pc = "form", u \in eulbReq'[p].ulbs,
                      eulbRow'[eulbReq'[p].version][u].there
               PROVE  eulbRow'[eulbReq'[p].version][u].status = "UNDER_REVIEW_BY_PMU"
    BY DEF DecidesPending
  <2>1. QED  BY <1>1, <1>5 DEF EulbInv, DecidesPending
<1>8. EditsEditable'
  <2> SUFFICES ASSUME NEW p \in EulbRequest, NEW u \in EulbUlb,
                      eulbReq'[p].pc = "rows", eulbReq'[p].op = "edit", ~eulbReq'[p].stale,
                      u \in eulbReq'[p].ulbs, eulbRow'[eulbReq'[p].version][u].there
               PROVE  EulbCanStateEditRow(eulbRow'[eulbReq'[p].version][u])
    BY DEF EditsEditable
  <2>1. p # q
    BY <1>2
  <2>2. QED  BY <1>1, <2>1 DEF EulbInv, EditsEditable
<1>9. QED  BY <1>3, <1>4, <1>6, <1>7, <1>8 DEF EulbInv

\* A decision changes the status of pending rows, and nothing else of a row.
LEMMA DecidesOnlyPending ==
  ASSUME EulbInv, NEW q \in EulbRequest, CommitEulbReview(q),
         NEW v \in EulbVersion, NEW u \in EulbUlb
  PROVE  /\ eulbRow'[v][u].there = eulbRow[v][u].there /\ eulbRow'[v][u].by = eulbRow[v][u].by
         /\ \/ eulbRow'[v][u].status = eulbRow[v][u].status
            \/ eulbRow[v][u].status = "UNDER_REVIEW_BY_PMU"
<1>0. eulbReq[q] \in EulbReqState /\ eulbRow[v][u] \in EulbRow /\ q \in EulbReviewing
  BY VersionTyped DEF EulbInv, EulbTypeOK, CommitEulbReview, EulbReviewing, EulbOpen
<1>1. eulbRow'[v] = IF v = eulbReq[q].version THEN EulbDecided(q) ELSE eulbRow[v]
  BY DEF CommitEulbReview, EulbInv, EulbTypeOK
<1>2. CASE v = eulbReq[q].version /\ u \in eulbReq[q].ulbs /\ eulbRow[v][u].there
  <2>1. eulbRow[v][u].status = "UNDER_REVIEW_BY_PMU"
    BY <1>0, <1>2 DEF EulbInv, DecidesPending, CommitEulbReview
  <2>2. PICK status \in EulbRowStatus : eulbRow'[v][u] = [eulbRow[v][u] EXCEPT !.status = status]
    BY <1>1, <1>2 DEF EulbDecided, EulbRowStatus
  <2>3. QED  BY <1>0, <2>1, <2>2 DEF EulbRow
<1>3. CASE ~(v = eulbReq[q].version /\ u \in eulbReq[q].ulbs /\ eulbRow[v][u].there)
  BY <1>0, <1>1, <1>3 DEF EulbDecided
<1>4. QED  BY <1>2, <1>3

\* The reviews of PMU keep it: what they decide is pending and what they load too.
LEMMA ReviewsKeepInv ==
  ASSUME EulbInv, EulbTypeOK', DatasetIsWhole', NEW q \in EulbRequest,
         \/ \E op \in EulbReviewOp : ReadEulbReview(q, op)
         \/ \E U \in SUBSET EulbUlb : LoadEulbRows(q, U)
         \/ CommitEulbReview(q)
  PROVE  EulbInv'
<1>0. /\ \A p \in EulbRequest : eulbReq[p] \in EulbReqState
      /\ eulbForm \in EulbForm /\ eulbForm.version \in Nat /\ eulbForm.version <= eulbForm.version
  BY EulbAssumption DEF EulbInv, EulbTypeOK, EulbForm, EulbVersion
<1>1. ASSUME NEW op \in EulbReviewOp, ReadEulbReview(q, op)
      PROVE  EulbInv'
  <2>1. /\ UNCHANGED <<eulbForm, eulbRow>> /\ \A p \in EulbRequest \ {q} : eulbReq'[p] = eulbReq[p]
        /\ eulbReq'[q].pc = "load" /\ eulbReq'[q].version = eulbForm.version
        /\ EulbReviewing = {}
    BY <1>1, IdleEulbTyped DEF ReadEulbReview, EulbInv, EulbTypeOK, EulbReqState
  <2>2. \A p \in EulbReviewing' : p = q
    BY <2>1 DEF EulbReviewing, EulbOpen
  <2>3. OneReview' /\ DecidesPending'
    BY <2>1, <2>2 DEF OneReview, DecidesPending
  <2>4. ReadsActive' /\ EditsEditable'
    BY <1>0, <2>1 DEF EulbInv, ReadsActive, EditsEditable
  <2>5. QED  BY <2>3, <2>4 DEF EulbInv
<1>2. ASSUME NEW U \in SUBSET EulbUlb, LoadEulbRows(q, U)
      PROVE  EulbInv'
  <2>0. /\ UNCHANGED <<eulbForm, eulbRow>> /\ eulbReq[q].pc = "load"
        /\ \A p \in EulbRequest \ {q} : eulbReq'[p] = eulbReq[p]
        /\ eulbReq'[q] = [eulbReq[q] EXCEPT !.pc = "form", !.ulbs = U]
    BY <1>2 DEF LoadEulbRows, EulbInv, EulbTypeOK
  <2>1. /\ UNCHANGED <<eulbForm, eulbRow>> /\ \A p \in EulbRequest \ {q} : eulbReq'[p] = eulbReq[p]
        /\ eulbReq'[q].pc = "form" /\ eulbReq[q].pc = "load"
        /\ eulbReq'[q].version = eulbReq[q].version /\ eulbReq'[q].op = eulbReq[q].op
        /\ eulbReq'[q].ulbs = U
    BY <1>0, <2>0 DEF EulbReqState
  <2>2. \A u \in U : eulbRow[eulbReq[q].version][u].status = "UNDER_REVIEW_BY_PMU"
    BY <1>2 DEF LoadEulbRows, ThereIn
  <2>3. EulbReviewing' = EulbReviewing
    BY <2>1 DEF EulbReviewing, EulbOpen
  <2>4. OneReview' /\ ReadsActive' /\ EditsEditable'
    BY <2>1, <2>3 DEF EulbInv, OneReview, ReadsActive, EditsEditable
  <2>5. DecidesPending'
    BY <2>1, <2>2, <2>3 DEF EulbInv, DecidesPending, EulbReviewing, EulbOpen
  <2>6. QED  BY <2>4, <2>5 DEF EulbInv
<1>3. CASE CommitEulbReview(q)
  <2>1. /\ eulbForm'.version = eulbForm.version
        /\ eulbReq'[q].pc = "idle" /\ \A p \in EulbRequest \ {q} : eulbReq'[p] = eulbReq[p]
        /\ q \in EulbReviewing
    BY <1>3, <1>0
    DEF CommitEulbReview, EulbInv, EulbTypeOK, EulbForm, IdleEulbReq, EulbReviewing, EulbOpen
  <2>2. EulbReviewing' = {}
    BY <2>1 DEF EulbReviewing, EulbOpen, EulbInv, OneReview
  <2>3. OneReview' /\ DecidesPending' /\ ReadsActive'
    BY <2>1, <2>2 DEF EulbInv, OneReview, DecidesPending, ReadsActive
  <2>4. ASSUME NEW v \in EulbVersion, NEW u \in EulbUlb, eulbRow'[v][u].there
        PROVE  /\ eulbRow[v][u].there
               /\ EulbCanStateEditRow(eulbRow[v][u]) => EulbCanStateEditRow(eulbRow'[v][u])
    BY <1>3, <2>1, <2>4, DecidesOnlyPending DEF EulbInv, EulbCanStateEditRow
  <2>5. EditsEditable'
    BY <1>0, <2>1, <2>4 DEF EulbInv, EditsEditable, EulbReqState
  <2>6. QED  BY <2>3, <2>5 DEF EulbInv
<1>4. QED  BY <1>1, <1>2, <1>3

\* Every step keeps the invariant.
LEMMA EulbStepKeepsInv == EulbInv /\ [EulbNext]_eulbVars => EulbInv'
<1> SUFFICES ASSUME EulbInv, [EulbNext]_eulbVars
             PROVE  EulbInv'
  OBVIOUS
<1>1. EulbTypeOK' /\ DatasetIsWhole'
  BY EulbStepTyped, StepsWhole DEF EulbInv
<1>2. CASE UNCHANGED eulbVars
  BY <1>1, <1>2
  DEF eulbVars, EulbInv, ReadsActive, OneReview, DecidesPending, EditsEditable, EulbReviewing,
      EulbOpen
<1>3. QED
  BY <1>1, <1>2, ReadsKeepInv, WritesKeepInv, RestKeepsInv, ReviewsKeepInv DEF EulbNext

\* A row that is approved stays so, and its content changes on record only.
ApprovedKept(v, u) ==
  EulbApproved(eulbRow[v][u]) /\ eulbRow'[v][u].there =>
    /\ EulbApproved(eulbRow'[v][u])
    /\ eulbRow'[v][u].by # eulbRow[v][u].by => eulbRow'[v][u].by \in eulbForm'.batches

\* The writes of rows keep approved rows, an edit if the State has not written since it was read.
LEMMA WritesKeepApproved ==
  ASSUME EulbInv, NEW q \in EulbRequest, NEW v \in EulbVersion, NEW u \in EulbUlb, ~eulbTangled',
         \/ ReplaceDataset(q) \/ WriteVerdicts(q) \/ DeleteRows(q) \/ WriteRow(q) \/ CommitSubmit(q)
         \/ CommitPost(q) \/ CommitEulbReview(q)
  PROVE  ApprovedKept(v, u)
<1>0. /\ eulbReq[q] \in EulbReqState /\ eulbForm \in EulbForm /\ eulbRow[v][u] \in EulbRow
      /\ eulbRow \in [EulbVersion -> Dataset]
  BY VersionTyped DEF EulbInv, EulbTypeOK
<1>1. CASE ReplaceDataset(q)
  <2>1. eulbForm.version \in Nat /\ NextVersion(q) = eulbForm.version + 1
    BY <1>0, EulbAssumption DEF EulbForm, EulbVersion, NextVersion
  <2>2. eulbRow'[eulbForm.version] = NoDataset
    BY <1>0, <1>1, <2>1 DEF ReplaceDataset, EulbForm
  <2>3. eulbRow[v][u].there => v = eulbForm.version
    BY DEF EulbInv, DatasetIsWhole
  <2>4. QED  BY <2>2, <2>3 DEF ApprovedKept, EulbApproved, NoDataset, NoEulbRow
<1>2. CASE WriteVerdicts(q)
  BY <1>0, <1>2 DEF WriteVerdicts, ApprovedKept, EulbApproved, Dataset, EulbRow
<1>3. CASE DeleteRows(q)
  BY <1>0, <1>3 DEF DeleteRows, ApprovedKept, EulbApproved, NoDataset, NoEulbRow
<1>4. CASE WriteRow(q)
  <2>1. ~eulbReq[q].stale
    BY <1>4 DEF WriteRow, Tangles
  <2>2. v = eulbReq[q].version /\ u \in eulbReq[q].ulbs /\ eulbRow[v][u].there =>
          EulbCanStateEditRow(eulbRow[v][u])
    BY <1>4, <2>1 DEF EulbInv, EditsEditable, WriteRow
  <2>3. EulbApproved(eulbRow[v][u]) => eulbRow'[v][u] = eulbRow[v][u]
    BY <1>0, <1>4, <2>2 DEF WriteRow, EulbApproved, EulbCanStateEditRow, Dataset
  <2>4. QED  BY <2>3 DEF ApprovedKept
<1>5. CASE CommitSubmit(q)
  <2>1. EulbApproved(eulbRow[v][u]) => eulbRow'[v][u] = eulbRow[v][u]
    BY <1>0, <1>5 DEF CommitSubmit, EulbApproved, EulbCanStateEditRow, Dataset
  <2>2. QED  BY <2>1 DEF ApprovedKept
<1>6. CASE CommitPost(q)
  <2>1. eulbReq[q].number \in eulbForm'.batches
    BY <1>0, <1>6 DEF CommitPost, EulbForm, Summary
  <2>2. eulbRow'[v][u] \in {eulbRow[v][u],
          [eulbRow[v][u] EXCEPT !.good = TRUE, !.valid = TRUE, !.by = eulbReq[q].number]}
    BY <1>0, <1>6 DEF CommitPost, CorrectedRows, Dataset
  <2>3. QED  BY <1>0, <2>1, <2>2 DEF ApprovedKept, EulbApproved, EulbRow
<1>7. CASE CommitEulbReview(q)
  BY <1>7, DecidesOnlyPending DEF ApprovedKept, EulbApproved
<1>8. QED  BY <1>1, <1>2, <1>3, <1>4, <1>5, <1>6, <1>7

\* So does every step as long as no requests get entangled.
LEMMA StepsKeepApproved ==
  EulbInv /\ [EulbNext]_eulbVars =>
    (~eulbTangled' => \A v \in EulbVersion, u \in EulbUlb : ApprovedKept(v, u))
<1> SUFFICES ASSUME EulbInv, [EulbNext]_eulbVars, ~eulbTangled',
                    NEW v \in EulbVersion, NEW u \in EulbUlb
             PROVE  ApprovedKept(v, u)
  OBVIOUS
<1>1. CASE UNCHANGED eulbRow
  BY <1>1 DEF ApprovedKept
<1>2. ASSUME NEW q \in EulbRequest,
             \/ ReadDraft(q) \/ ReadDelete(q) \/ ReadSubmit(q) \/ Recount(q) \/ EulbStops(q)
             \/ WriteDraft(q) \/ WriteRevalidated(q) \/ ResetForm(q) \/ WriteRecount(q)
             \/ \E file \in Excel : ReadUpload(q, file) \/ ReadRevalidate(q, file)
             \/ \E t \in EulbUlb, good \in BOOLEAN : ReadEdit(q, t, good)
             \/ \E U \in SUBSET EulbUlb : ReadPost(q, U) \/ LoadEulbRows(q, U)
             \/ \E op \in EulbReviewOp : ReadEulbReview(q, op)
      PROVE  UNCHANGED eulbRow
  BY <1>2
  DEF ReadDraft, ReadDelete, ReadSubmit, Recount, EulbStops, WriteDraft, WriteRevalidated, ResetForm,
      WriteRecount, ReadUpload, ReadRevalidate, ReadEdit, ReadPost, LoadEulbRows, ReadEulbReview, Begins
<1>3. CASE UNCHANGED eulbVars
  BY <1>1, <1>3 DEF eulbVars
<1>4. QED  BY <1>1, <1>2, <1>3, WritesKeepApproved DEF EulbNext

\* As long as no requests get entangled, a row that PMU has approved stays approved and changes with
\* a recorded batch of the post-submission update only, also when PMU decides on other rows
\* meanwhile.
THEOREM ApprovedRowsChange == EulbSpec => ApprovedRowsChangeOnRecord
<1>1. EulbInit => EulbInv
  BY EulbInitTyped
  DEF EulbInit, EulbInv, DatasetIsWhole, NoDataset, NoEulbRow, ReadsActive, OneReview, DecidesPending,
      EditsEditable, EulbReviewing, EulbOpen, IdleEulbReq
<1>2. EulbInv /\ [EulbNext]_eulbVars =>
        [~eulbTangled' => \A v \in EulbVersion, u \in EulbUlb : ApprovedKept(v, u)]_eulbVars
  BY StepsKeepApproved
<1>3. EulbSpec =>
        [][~eulbTangled' => \A v \in EulbVersion, u \in EulbUlb : ApprovedKept(v, u)]_eulbVars
  BY <1>1, <1>2, EulbStepKeepsInv, PTL DEF EulbSpec
<1>4. QED  BY <1>3 DEF ApprovedRowsChangeOnRecord, ApprovedKept

-----------------------------------------------------------------------------
(* A row for every ULB, approved row by row                                *)

\* A request of the State that is not overtaken by another one.
Fresh(q) ==
  eulbReq[q].pc # "idle" /\ eulbReq[q].op \notin EulbReviewOp /\ ~eulbReq[q].stale

AllThere == \A u \in EulbUlb : ActiveRows[u].there

\* Every ULB has a row, and each one is in review or was.
Marked == \A u \in EulbUlb : ActiveRows[u].there /\ ActiveRows[u].status # "NONE"

\* The stored counts are those of the rows there are, but while these are being deleted.
CountsTell == ~HalfDeleted /\ eulbForm.summary.full => AllThere

\* Rows are submitted all at once.
MarkedTogether ==
  (\E u \in EulbUlb : ActiveRows[u].there /\ ActiveRows[u].status # "NONE") => Marked

\* PMU has such rows.
ReviewsMarked ==
  \A q \in EulbReviewing : eulbReq[q].version = eulbForm.version /\ Marked

\* What a request has read is so as long as it is fresh.
KnowsRows(r) ==
  /\ r.pc # "load" /\ r.version = eulbForm.version
  /\ r.op = "submit" => AllThere
  /\ r.op = "edit" /\ r.pc = "rows" /\ r.resubmit => Marked
  /\ r.op = "revalidate" /\ r.pc = "rows" /\ r.ulbs = EulbUlb => AllThere
  /\ r.op = "revalidate" /\ r.pc = "form" /\ r.summary.full => AllThere

FreshKnow == \A q \in EulbRequest : Fresh(q) => KnowsRows(eulbReq[q])

RowByRow == CountsTell /\ MarkedTogether /\ ReviewsMarked /\ FreshKnow /\ ApprovedRowByRow

RowByRowInv == EulbInv /\ (eulbTangled \/ RowByRow)

\* The same rows are there, and the same are in review or were.
KeepsMarks ==
  /\ eulbForm'.version = eulbForm.version
  /\ \A u \in EulbUlb :
       /\ ActiveRows'[u].there = ActiveRows[u].there
       /\ ActiveRows'[u].status = "NONE" <=> ActiveRows[u].status = "NONE"

\* Then what was said of them stays true.
LEMMA MarksAreKept ==
  ASSUME KeepsMarks
  PROVE  /\ AllThere' <=> AllThere
         /\ Marked' <=> Marked
         /\ MarkedTogether => MarkedTogether'
         /\ \A r : KnowsRows(r) => KnowsRows(r)'
<1>1. (AllThere' <=> AllThere) /\ (Marked' <=> Marked)
  BY DEF KeepsMarks, AllThere, Marked
<1>2. MarkedTogether => MarkedTogether'
  BY <1>1 DEF KeepsMarks, MarkedTogether
<1>3. ASSUME NEW r, KnowsRows(r)
      PROVE  KnowsRows(r)'
  BY <1>1, <1>3 DEF KeepsMarks, KnowsRows
<1>4. QED  BY <1>1, <1>2, <1>3

\* What a write of the State leaves of the requests: none but its own is fresh, reviews go on, and a
\* deletion that is half done stays so.
LEMMA WritesLeaveOthers ==
  ASSUME EulbTypeOK, NEW q \in EulbRequest, eulbReq[q].pc # "idle", eulbReq[q].op \notin EulbReviewOp,
         NEW r, Writes(q, r), r.pc = "idle" \/ r.op = eulbReq[q].op
  PROVE  /\ eulbReq'[q] = r
         /\ \A p \in EulbRequest : Fresh(p)' => p = q /\ r.pc # "idle"
         /\ EulbReviewing' \subseteq EulbReviewing
         /\ \A p \in EulbReviewing' : eulbReq'[p] = eulbReq[p]
         /\ HalfDeleted /\ ~HalfDeleted' => eulbReq[q].op = "delete" /\ eulbReq[q].pc = "form"
<1>0. \A p \in EulbRequest : eulbReq[p] \in EulbReqState
  BY DEF EulbTypeOK
<1>1. eulbReq'[q] = r
  BY DEF Writes
<1>2. ASSUME NEW p \in EulbRequest, p # q
      PROVE  /\ eulbReq'[p].pc = eulbReq[p].pc /\ eulbReq'[p].op = eulbReq[p].op
             /\ eulbReq[p].pc # "idle" /\ eulbReq[p].op \notin EulbReviewOp => eulbReq'[p].stale
             /\ p \in EulbReviewing => eulbReq'[p] = eulbReq[p]
  BY <1>0, <1>2 DEF Writes, EulbOpen, EulbReviewing, EulbReqState
<1>3. \A p \in EulbRequest : Fresh(p)' => p = q /\ r.pc # "idle"
  BY <1>1, <1>2 DEF Fresh
<1>4. \A p \in EulbReviewing' : p \in EulbReviewing /\ p # q /\ p \in EulbRequest
  BY <1>1, <1>2 DEF EulbReviewing, EulbOpen
<1>5. HalfDeleted /\ ~HalfDeleted' => eulbReq[q].op = "delete" /\ eulbReq[q].pc = "form"
  BY <1>2 DEF HalfDeleted, EulbOpen
<1>6. QED  BY <1>1, <1>2, <1>3, <1>4, <1>5

\* A write of the State that keeps the marks keeps the invariant, if the counts it leaves and what it
\* goes on with are true of the rows.
LEMMA WriteKeepsRowByRow ==
  ASSUME EulbTypeOK, RowByRow, KeepsMarks, ApprovedRowByRow', NEW q \in EulbRequest,
         eulbReq[q].pc # "idle", eulbReq[q].op \notin EulbReviewOp,
         NEW r, Writes(q, r), r.pc = "idle" \/ (r.op = eulbReq[q].op /\ KnowsRows(r)),
         eulbForm'.summary.full =>
           \/ AllThere
           \/ eulbForm.summary.full /\ ~(eulbReq[q].op = "delete" /\ eulbReq[q].pc = "form")
  PROVE  RowByRow'
<1>1. CountsTell'
  BY WritesLeaveOthers, MarksAreKept DEF RowByRow, CountsTell
<1>2. MarkedTogether'
  BY MarksAreKept DEF RowByRow
<1>3. ReviewsMarked'
  BY WritesLeaveOthers, MarksAreKept DEF RowByRow, ReviewsMarked, KeepsMarks
<1>4. FreshKnow'
  <2> SUFFICES ASSUME NEW p \in EulbRequest, Fresh(p)'
               PROVE  KnowsRows(eulbReq[p])'
    BY DEF FreshKnow
  <2>1. p = q /\ r.pc # "idle" /\ eulbReq'[q] = r
    BY WritesLeaveOthers
  <2>2. KnowsRows(r)'
    BY <2>1, MarksAreKept
  <2>3. QED  BY <2>1, <2>2 DEF KnowsRows
<1>5. QED  BY <1>1, <1>2, <1>3, <1>4 DEF RowByRow

\* Of a request of the State that writes while nothing is tangled.
LEMMA WriterIsFresh ==
  ASSUME RowByRow, NEW q \in EulbRequest, eulbReq[q].pc # "idle", eulbReq[q].op \notin EulbReviewOp,
         Tangles(q, FALSE) \/ Tangles(q, TRUE), ~eulbTangled'
  PROVE  KnowsRows(eulbReq[q])
BY DEF Tangles, Fresh, RowByRow, FreshKnow

\* Writes to the form alone.
LEMMA FormWritesRowByRow ==
  ASSUME EulbInv, RowByRow, ~eulbTangled', NEW q \in EulbRequest,
         WriteDraft(q) \/ WriteRevalidated(q) \/ ResetForm(q) \/ WriteRecount(q)
  PROVE  RowByRow'
<1>0. EulbTypeOK /\ eulbReq[q] \in EulbReqState /\ eulbForm \in EulbForm
  BY DEF EulbInv, EulbTypeOK
<1>1. /\ UNCHANGED eulbRow /\ Writes(q, IdleEulbReq) /\ Tangles(q, FALSE)
      /\ eulbReq[q].pc = "form" /\ eulbReq[q].op \notin EulbReviewOp
  BY DEF WriteDraft, WriteRevalidated, ResetForm, WriteRecount, EulbReviewOp
<1>2. KnowsRows(eulbReq[q])
  BY <1>1, WriterIsFresh
<1>3. eulbForm'.version = eulbForm.version
  BY <1>1, <1>0, NoRowsWritten
<1>4. KeepsMarks
  BY <1>1, <1>3 DEF KeepsMarks, ActiveRows
<1>5. /\ eulbForm'.status = eulbForm.status \/ eulbForm'.status = "IN_PROGRESS"
      /\ eulbForm'.summary.full =>
           \/ AllThere
           \/ eulbForm.summary.full /\ ~(eulbReq[q].op = "delete" /\ eulbReq[q].pc = "form")
  <2>1. CASE WriteDraft(q)
    <3>1. eulbReq[q].op = "draft"
      BY <2>1 DEF WriteDraft
    <3>2. CASE eulbForm' = [eulbForm EXCEPT !.status = "IN_PROGRESS"]
      BY <1>0, <3>1, <3>2 DEF EulbForm
    <3>3. ASSUME NEW file \in BOOLEAN,
                 eulbForm' = [eulbForm EXCEPT !.status = "IN_PROGRESS", !.file = file,
                                              !.summary.verdict = "NOT_VALIDATED"]
          PROVE  eulbForm'.status = "IN_PROGRESS" /\ eulbForm'.summary.full = eulbForm.summary.full
      BY <1>0, <3>3 DEF EulbForm, Summary
    <3>4. QED  BY <2>1, <3>1, <3>2, <3>3 DEF WriteDraft
  <2>2. CASE WriteRevalidated(q)
    <3>1. eulbForm'.status = eulbForm.status /\ eulbForm'.summary = eulbReq[q].summary
            /\ eulbReq[q].op = "revalidate"
      BY <1>0, <2>2 DEF WriteRevalidated, EulbForm
    <3>2. QED  BY <1>1, <1>2, <3>1 DEF KnowsRows
  <2>3. CASE ResetForm(q)
    <3>1. eulbForm'.status = eulbForm.status /\ eulbForm'.summary = NotValidated
      BY <1>0, <2>3 DEF ResetForm, EulbForm
    <3>2. QED  BY <3>1 DEF NotValidated
  <2>4. CASE WriteRecount(q)
    BY <1>0, <2>4 DEF WriteRecount, EulbForm, Summary
  <2>5. QED  BY <2>1, <2>2, <2>3, <2>4
<1>6. ApprovedRowByRow'
  BY <1>1, <1>3, <1>5 DEF RowByRow, ApprovedRowByRow, ActiveRows, EulbApproved
<1>7. IdleEulbReq.pc = "idle"
  BY DEF IdleEulbReq
<1>8. QED  BY <1>0, <1>1, <1>4, <1>5, <1>6, <1>7, WriteKeepsRowByRow

\* Verdicts and corrections: the rows stay there with the status they have.
LEMMA ContentWritesRowByRow ==
  ASSUME EulbInv, RowByRow, ~eulbTangled', NEW q \in EulbRequest, WriteVerdicts(q) \/ CommitPost(q)
  PROVE  RowByRow'
<1>0. /\ EulbTypeOK /\ eulbReq[q] \in EulbReqState /\ eulbForm \in EulbForm
      /\ \A v \in EulbVersion, u \in EulbUlb : eulbRow[v][u] \in EulbRow
  BY VersionTyped DEF EulbInv, EulbTypeOK
<1>1. /\ Tangles(q, FALSE) /\ eulbReq[q].pc \in {"rows", "form"}
      /\ eulbReq[q].op \notin EulbReviewOp /\ eulbReq[q].op # "delete"
  BY DEF WriteVerdicts, CommitPost, EulbReviewOp
<1>2. KnowsRows(eulbReq[q])
  BY <1>1, WriterIsFresh
<1>3. /\ eulbForm'.version = eulbForm.version /\ eulbForm'.status = eulbForm.status
      /\ eulbForm'.summary.full = eulbForm.summary.full
  <2>1. CASE WriteVerdicts(q)
    BY <2>1 DEF WriteVerdicts
  <2>2. CASE CommitPost(q)
    <3>1. PICK batches, errors, verdict :
            eulbForm' = [eulbForm EXCEPT !.batches = batches, !.summary.errors = errors,
                                         !.summary.verdict = verdict]
      BY <2>2 DEF CommitPost
    <3>2. QED  BY <1>0, <3>1 DEF EulbForm, Summary
  <2>3. QED  BY <2>1, <2>2
<1>4. ASSUME NEW v \in EulbVersion, NEW u \in EulbUlb
      PROVE  /\ eulbRow'[v][u].there = eulbRow[v][u].there
             /\ eulbRow'[v][u].status = eulbRow[v][u].status
  <2>1. CASE WriteVerdicts(q)
    BY <1>0, <2>1 DEF WriteVerdicts, EulbTypeOK, Dataset, EulbRow
  <2>2. CASE CommitPost(q)
    <3>1. eulbRow'[v][u] \in {eulbRow[v][u],
            [eulbRow[v][u] EXCEPT !.good = TRUE, !.valid = TRUE, !.by = eulbReq[q].number]}
      BY <1>0, <2>2 DEF CommitPost, CorrectedRows, EulbTypeOK, Dataset
    <3>2. QED  BY <1>0, <3>1 DEF EulbRow
  <2>3. QED  BY <2>1, <2>2
<1>5. eulbForm.version \in EulbVersion
  BY <1>0 DEF EulbForm
<1>6. KeepsMarks
  BY <1>3, <1>4, <1>5 DEF KeepsMarks, ActiveRows
<1>7. ApprovedRowByRow'
  BY <1>3, <1>4, <1>5 DEF RowByRow, ApprovedRowByRow, ActiveRows, EulbApproved
<1>8. CASE CommitPost(q)
  <2>1. Writes(q, IdleEulbReq) /\ IdleEulbReq.pc = "idle"
    BY <1>8 DEF CommitPost, IdleEulbReq
  <2>2. QED  BY <1>0, <1>1, <1>3, <1>6, <1>7, <2>1, WriteKeepsRowByRow
<1>9. CASE WriteVerdicts(q)
  <2> DEFINE r == [eulbReq[q] EXCEPT
                     !.pc = "form", !.excel = NoExcel,
                     !.summary = SummaryOf([eulbReq[q].excel EXCEPT !.rows = eulbReq[q].ulbs])]
  <2>1. /\ r.pc = "form" /\ r.op = eulbReq[q].op /\ r.version = eulbReq[q].version
        /\ r.summary = SummaryOf([eulbReq[q].excel EXCEPT !.rows = eulbReq[q].ulbs])
    BY <1>0 DEF EulbReqState
  <2>2. r.summary.full => eulbReq[q].ulbs = EulbUlb
    BY <1>0, <2>1 DEF SummaryOf, EulbReqState, Excel
  <2>3. Writes(q, r) /\ eulbReq[q].op = "revalidate" /\ eulbReq[q].pc = "rows"
    BY <1>9 DEF WriteVerdicts
  <2> HIDE DEF r
  <2>4. KnowsRows(r)
    BY <1>2, <2>1, <2>2, <2>3 DEF KnowsRows
  <2>5. QED  BY <1>0, <1>1, <1>3, <1>6, <1>7, <2>1, <2>3, <2>4, WriteKeepsRowByRow
<1>10. QED  BY <1>8, <1>9

\* An edit: a returned row goes back to PMU, and so do all with the form.
LEMMA EditRowByRow ==
  ASSUME EulbInv, RowByRow, ~eulbTangled', NEW q \in EulbRequest, WriteRow(q)
  PROVE  RowByRow'
<1>0. /\ EulbTypeOK /\ eulbReq[q] \in EulbReqState /\ eulbForm \in EulbForm
      /\ \A v \in EulbVersion, u \in EulbUlb : eulbRow[v][u] \in EulbRow
  BY VersionTyped DEF EulbInv, EulbTypeOK
<1>1. /\ Tangles(q, FALSE) /\ ~eulbReq[q].stale /\ eulbReq[q].pc = "rows" /\ eulbReq[q].op = "edit"
      /\ eulbReq[q].op \notin EulbReviewOp
  BY DEF WriteRow, EulbReviewOp, Tangles
<1>2. KnowsRows(eulbReq[q])
  BY <1>1, WriterIsFresh
<1>3. eulbReq[q].version = eulbForm.version /\ (eulbReq[q].resubmit => Marked)
  BY <1>1, <1>2 DEF KnowsRows
<1>4. /\ eulbForm'.version = eulbForm.version /\ eulbForm'.summary = eulbForm.summary
      /\ \/ eulbForm'.status = eulbForm.status
         \/ eulbReq[q].resubmit /\ eulbForm'.status = "UNDER_REVIEW_BY_PMU"
  BY <1>0 DEF WriteRow, Reopens, EulbForm
<1>5. eulbForm.version \in EulbVersion
  BY <1>0 DEF EulbForm
<1>6. \A u \in EulbUlb :
        ActiveRows'[u] = IF u \in eulbReq[q].ulbs /\ ActiveRows[u].there
                         THEN EditedRow(q, u, ActiveRows[u]) ELSE ActiveRows[u]
  BY <1>0, <1>3, <1>4, <1>5 DEF WriteRow, ActiveRows, EulbTypeOK, Dataset
<1>7. ASSUME NEW u \in EulbUlb
      PROVE  LET row == EditedRow(q, u, ActiveRows[u])
             IN /\ row.there = ActiveRows[u].there
                /\ row.status = IF eulbReq[q].resubmit THEN "UNDER_REVIEW_BY_PMU"
                                ELSE ActiveRows[u].status
  <2>1. ActiveRows[u] \in EulbRow
    BY <1>0, <1>5 DEF ActiveRows
  <2>2. QED  BY <2>1 DEF EditedRow, EulbRow
<1>8. KeepsMarks
  BY <1>3, <1>4, <1>6, <1>7 DEF KeepsMarks, Marked
<1>9. ApprovedRowByRow'
  <2>1. eulbForm'.status = "UNDER_REVIEW_BY_PMU" => Marked'
    BY <1>3, <1>4, <1>8, MarksAreKept DEF RowByRow, ApprovedRowByRow, Marked
  <2>2. ASSUME eulbForm'.status = "UNDER_REVIEW_BY_MOHUA", NEW u \in EulbUlb
        PROVE  EulbApproved(ActiveRows'[u])
    <3>1. EulbApproved(ActiveRows[u])
      BY <1>4, <2>2 DEF RowByRow, ApprovedRowByRow
    <3>2. u \notin eulbReq[q].ulbs
      BY <1>1, <1>3, <3>1 DEF EulbInv, EditsEditable, ActiveRows, EulbApproved, EulbCanStateEditRow
    <3>3. QED  BY <1>6, <3>1, <3>2
  <2>3. QED  BY <2>1, <2>2 DEF ApprovedRowByRow, Marked
<1> DEFINE r == [eulbReq[q] EXCEPT !.pc = "count"]
<1>10. /\ Writes(q, r) /\ r.op = eulbReq[q].op /\ r.version = eulbReq[q].version /\ r.pc = "count"
  BY <1>0 DEF WriteRow, EulbReqState
<1> HIDE DEF r
<1>11. KnowsRows(r)
  BY <1>1, <1>3, <1>10 DEF KnowsRows
<1>12. QED  BY <1>0, <1>1, <1>4, <1>8, <1>9, <1>10, <1>11, WriteKeepsRowByRow

\* A submit: every ULB has a row, and the ones that are not approved are now in review.
LEMMA SubmitRowByRow ==
  ASSUME EulbInv, RowByRow, ~eulbTangled', NEW q \in EulbRequest, CommitSubmit(q)
  PROVE  RowByRow'
<1>0. /\ EulbTypeOK /\ eulbReq[q] \in EulbReqState /\ eulbForm \in EulbForm
      /\ \A v \in EulbVersion, u \in EulbUlb : eulbRow[v][u] \in EulbRow
  BY VersionTyped DEF EulbInv, EulbTypeOK
<1>1. /\ Tangles(q, FALSE) /\ Writes(q, IdleEulbReq) /\ eulbReq[q].pc # "idle"
      /\ eulbReq[q].op = "submit" /\ eulbReq[q].op \notin EulbReviewOp /\ IdleEulbReq.pc = "idle"
  BY DEF CommitSubmit, EulbReviewOp, IdleEulbReq
<1>2. eulbReq[q].version = eulbForm.version /\ AllThere
  BY <1>1, WriterIsFresh DEF KnowsRows
<1>3. eulbForm'.version = eulbForm.version /\ eulbForm'.status = "UNDER_REVIEW_BY_PMU"
  BY <1>0 DEF CommitSubmit, EulbForm
<1>4. eulbForm.version \in EulbVersion
  BY <1>0 DEF EulbForm
<1>5. Marked'
  <2> SUFFICES ASSUME NEW u \in EulbUlb
               PROVE  ActiveRows'[u].there /\ ActiveRows'[u].status # "NONE"
    BY DEF Marked
  <2>1. ActiveRows[u] \in EulbRow /\ ActiveRows[u].there
    BY <1>0, <1>2, <1>4 DEF ActiveRows, AllThere
  <2>2. ActiveRows'[u] = IF EulbCanStateEditRow(ActiveRows[u])
                         THEN [ActiveRows[u] EXCEPT !.status = "UNDER_REVIEW_BY_PMU"]
                         ELSE ActiveRows[u]
    BY <1>0, <1>2, <1>3, <1>4, <2>1 DEF CommitSubmit, ActiveRows, EulbTypeOK, Dataset
  <2>3. QED  BY <2>1, <2>2 DEF EulbCanStateEditRow, EulbRow
<1>6. CountsTell' /\ MarkedTogether'
  BY <1>5 DEF CountsTell, MarkedTogether, AllThere, Marked
<1>7. ReviewsMarked'
  BY <1>0, <1>1, <1>3, <1>5, WritesLeaveOthers DEF RowByRow, ReviewsMarked
<1>8. FreshKnow'
  BY <1>0, <1>1, WritesLeaveOthers DEF FreshKnow
<1>9. ApprovedRowByRow'
  BY <1>3, <1>5 DEF ApprovedRowByRow, Marked
<1>10. QED  BY <1>6, <1>7, <1>8, <1>9 DEF RowByRow

\* Rows are replaced or deleted while PMU has none of them.
LEMMA DatasetRowByRow ==
  ASSUME EulbInv, RowByRow, ~eulbTangled', NEW q \in EulbRequest, ReplaceDataset(q) \/ DeleteRows(q)
  PROVE  RowByRow'
<1>0. EulbTypeOK /\ DatasetIsWhole /\ eulbReq[q] \in EulbReqState /\ eulbForm \in EulbForm
  BY DEF EulbInv, EulbTypeOK
<1>1. /\ Tangles(q, TRUE) /\ eulbReq[q].pc # "idle" /\ eulbReq[q].op \notin EulbReviewOp
      /\ EulbReviewing = {} /\ eulbForm.status \in EulbStateEditable
  BY DEF ReplaceDataset, DeleteRows, EulbReviewOp, Tangles
<1>2. KnowsRows(eulbReq[q])
  BY <1>1, WriterIsFresh
<1>3. eulbForm'.status = eulbForm.status
  BY <1>0 DEF ReplaceDataset, DeleteRows, EulbForm
<1>4. ApprovedRowByRow'
  BY <1>1, <1>3 DEF ApprovedRowByRow, EulbStateEditable
<1>5. CASE DeleteRows(q)
  <2> DEFINE r == [eulbReq[q] EXCEPT !.pc = "form"]
  <2>1. /\ Writes(q, r) /\ r.op = "delete" /\ r.op = eulbReq[q].op /\ r.version = eulbReq[q].version
        /\ r.pc = "form"
    BY <1>0, <1>5 DEF DeleteRows, EulbReqState
  <2> HIDE DEF r
  <2>2. eulbReq'[q] = r /\ EulbReviewing' = {} /\ \A p \in EulbRequest : Fresh(p)' => p = q
    BY <1>0, <1>1, <2>1, WritesLeaveOthers
  <2>3. UNCHANGED eulbForm /\ eulbReq[q].version = eulbForm.version
    BY <1>2, <1>5 DEF DeleteRows, KnowsRows
  <2>4. HalfDeleted'
    BY <2>1, <2>2 DEF HalfDeleted, EulbOpen
  <2>5. \A u \in EulbUlb : ~ActiveRows'[u].there
    BY <1>0, <1>5, <2>3 DEF DeleteRows, ActiveRows, EulbTypeOK, EulbForm, NoDataset, NoEulbRow
  <2>6. FreshKnow'
    BY <2>1, <2>2, <2>3 DEF FreshKnow, KnowsRows
  <2>7. QED
    BY <1>4, <2>2, <2>4, <2>5, <2>6 DEF RowByRow, CountsTell, MarkedTogether, ReviewsMarked
<1>6. CASE ReplaceDataset(q)
  <2>1. Writes(q, IdleEulbReq) /\ IdleEulbReq.pc = "idle"
    BY <1>6 DEF ReplaceDataset, IdleEulbReq
  <2>2. EulbReviewing' = {} /\ \A p \in EulbRequest : ~Fresh(p)'
    BY <1>0, <1>1, <2>1, WritesLeaveOthers
  <2> DEFINE n == NextVersion(q)
  <2>3. eulbForm.version \in Nat /\ n = eulbForm.version + 1 /\ n \in EulbVersion
    BY <1>0, <1>6, EulbAssumption DEF EulbForm, EulbVersion, NextVersion, ReplaceDataset
  <2>4. eulbForm'.version = n /\ eulbForm'.summary = SummaryOf(eulbReq[q].excel)
    BY <1>0, <1>6 DEF ReplaceDataset, EulbForm
  <2>5. ASSUME NEW u \in EulbUlb
        PROVE  /\ u \in eulbReq[q].excel.rows => ActiveRows'[u].there
               /\ ActiveRows'[u].there => ActiveRows'[u].status = "NONE"
    <3>1. ~eulbRow[n][u].there
      BY <1>0, <2>3 DEF DatasetIsWhole
    <3>2. ActiveRows'[u] = IF u \in eulbReq[q].excel.rows THEN NewRow(q, u) ELSE eulbRow[n][u]
      BY <1>0, <1>6, <2>3, <2>4 DEF ReplaceDataset, EulbTypeOK, Dataset, ActiveRows
    <3>3. QED  BY <3>1, <3>2 DEF NewRow
  <2>6. eulbForm'.summary.full => eulbReq[q].excel.rows = EulbUlb
    <3>1. SummaryOf(eulbReq[q].excel).full =
            (eulbReq[q].excel.rows = EulbUlb /\ ~eulbReq[q].excel.extra)
      BY DEF SummaryOf
    <3>2. QED  BY <2>4, <3>1
  <2>7. CountsTell' /\ MarkedTogether'
    BY <2>5, <2>6 DEF CountsTell, AllThere, MarkedTogether
  <2>8. QED  BY <1>4, <2>2, <2>7 DEF RowByRow, ReviewsMarked, FreshKnow
<1>7. QED  BY <1>5, <1>6

\* A decision of PMU on rows that are all in review or were.
LEMMA DecisionRowByRow ==
  ASSUME EulbInv, RowByRow, NEW q \in EulbRequest, CommitEulbReview(q)
  PROVE  RowByRow'
<1>0. /\ EulbTypeOK /\ eulbReq[q] \in EulbReqState /\ eulbForm \in EulbForm
      /\ eulbForm.version \in EulbVersion
      /\ \A v \in EulbVersion, u \in EulbUlb : eulbRow[v][u] \in EulbRow
  BY VersionTyped DEF EulbInv, EulbTypeOK, EulbForm
<1>1. q \in EulbReviewing
  BY DEF CommitEulbReview, EulbReviewing, EulbOpen
<1>2. eulbReq[q].version = eulbForm.version /\ Marked
  BY <1>1 DEF RowByRow, ReviewsMarked
<1>3. eulbForm'.version = eulbForm.version /\ eulbForm'.summary = eulbForm.summary
  BY <1>0 DEF CommitEulbReview, EulbForm
<1>4. ActiveRows' = EulbDecided(q)
  BY <1>0, <1>2, <1>3 DEF CommitEulbReview, ActiveRows, EulbTypeOK
<1>5. ASSUME NEW u \in EulbUlb
      PROVE  /\ ActiveRows'[u].there = ActiveRows[u].there /\ ActiveRows'[u].status # "NONE"
             /\ \/ ActiveRows'[u].status = ActiveRows[u].status
                \/ ActiveRows[u].status = "UNDER_REVIEW_BY_PMU"
  <2>1. ActiveRows[u] \in EulbRow /\ ActiveRows[u].status # "NONE"
    BY <1>0, <1>2 DEF ActiveRows, Marked
  <2>2. /\ ActiveRows'[u].there = ActiveRows[u].there
        /\ \/ ActiveRows'[u].status = ActiveRows[u].status
           \/ ActiveRows[u].status = "UNDER_REVIEW_BY_PMU"
    BY <1>0, <1>3, DecidesOnlyPending DEF ActiveRows
  <2>3. \/ ActiveRows'[u] = ActiveRows[u]
        \/ \E status \in {"UNDER_REVIEW_BY_MOHUA", "RETURNED_BY_PMU"} :
             ActiveRows'[u] = [ActiveRows[u] EXCEPT !.status = status]
    BY <1>2, <1>4 DEF EulbDecided, ActiveRows
  <2>4. ActiveRows'[u].status # "NONE"
    BY <2>1, <2>3 DEF EulbRow
  <2>5. QED  BY <2>2, <2>4
<1>6. KeepsMarks
  BY <1>2, <1>3, <1>5 DEF KeepsMarks, Marked
<1>7. /\ eulbReq'[q] = IdleEulbReq /\ IdleEulbReq.pc = "idle"
      /\ \A p \in EulbRequest \ {q} : eulbReq'[p] = eulbReq[p]
  BY <1>0 DEF CommitEulbReview, EulbTypeOK, IdleEulbReq
<1>8. HalfDeleted' = HalfDeleted
  <2>1. eulbReq[q].op # "delete"
    BY DEF CommitEulbReview, EulbReviewOp
  <2>2. QED  BY <1>7, <2>1 DEF HalfDeleted, EulbOpen
<1>9. CountsTell' /\ MarkedTogether'
  BY <1>3, <1>6, <1>8, MarksAreKept DEF RowByRow, CountsTell
<1>10. ReviewsMarked'
  BY <1>1, <1>7 DEF EulbInv, OneReview, EulbReviewing, EulbOpen, ReviewsMarked
<1>11. FreshKnow'
  <2> SUFFICES ASSUME NEW p \in EulbRequest, Fresh(p)'
               PROVE  KnowsRows(eulbReq[p])'
    BY DEF FreshKnow
  <2>1. p # q /\ eulbReq'[p] = eulbReq[p] /\ Fresh(p)
    BY <1>7 DEF Fresh
  <2>2. KnowsRows(eulbReq[p])'
    BY <1>6, <2>1, MarksAreKept DEF RowByRow, FreshKnow
  <2>3. QED  BY <2>1, <2>2 DEF KnowsRows
<1>12. ApprovedRowByRow'
  <2>1. Marked'
    BY <1>2, <1>6, MarksAreKept
  <2>2. ASSUME eulbForm'.status = "UNDER_REVIEW_BY_MOHUA", NEW u \in EulbUlb
        PROVE  EulbApproved(ActiveRows'[u])
    <3>1. CASE UNCHANGED eulbForm
      BY <1>5, <2>2, <3>1 DEF RowByRow, ApprovedRowByRow, EulbApproved
    <3>2. CASE \E status \in ReviewOutcome(q) : eulbForm' = [eulbForm EXCEPT !.status = status]
      <4>1. "UNDER_REVIEW_BY_MOHUA" \in ReviewOutcome(q)
        BY <1>0, <2>2, <3>2 DEF EulbForm
      <4>2. /\ ThereIn(EulbDecided(q), {"UNDER_REVIEW_BY_PMU"}) = {}
            /\ ThereIn(EulbDecided(q), {"RETURNED_BY_PMU"}) = {}
        BY <4>1 DEF ReviewOutcome, Settles
      <4>3. ActiveRows'[u].there /\ ActiveRows'[u].status \notin {"NONE", "UNDER_REVIEW_BY_PMU", "RETURNED_BY_PMU"}
        BY <1>4, <2>1, <4>2 DEF ThereIn, There, Marked
      <4>4. ActiveRows'[u].status \in EulbRowStatus
        <5>1. ActiveRows[u] \in EulbRow
          BY <1>0 DEF ActiveRows
        <5>2. \/ ActiveRows'[u] = ActiveRows[u]
              \/ \E status \in {"UNDER_REVIEW_BY_MOHUA", "RETURNED_BY_PMU"} :
                   ActiveRows'[u] = [ActiveRows[u] EXCEPT !.status = status]
          BY <1>2, <1>4 DEF EulbDecided, ActiveRows
        <5>3. QED  BY <5>1, <5>2 DEF EulbRow, EulbRowStatus
      <4>5. QED  BY <4>3, <4>4 DEF EulbRowStatus, EulbApproved
    <3>3. QED  BY <3>1, <3>2 DEF CommitEulbReview
  <2>3. QED  BY <2>1, <2>2 DEF ApprovedRowByRow, Marked
<1>13. QED  BY <1>9, <1>10, <1>11, <1>12 DEF RowByRow

\* A request that changes neither form nor rows keeps the invariant, if it goes on with what is true
\* of them.
LEMMA ReadRowByRow ==
  ASSUME RowByRow, UNCHANGED <<eulbForm, eulbRow>>, NEW q \in EulbRequest,
         \A p \in EulbRequest \ {q} : eulbReq'[p] = eulbReq[p],
         HalfDeleted => HalfDeleted',
         q \in EulbReviewing' => eulbReq'[q].version = eulbForm.version /\ Marked,
         Fresh(q)' => KnowsRows(eulbReq'[q])
  PROVE  RowByRow'
<1>1. /\ AllThere' = AllThere /\ Marked' = Marked /\ MarkedTogether' = MarkedTogether
      /\ ApprovedRowByRow' = ApprovedRowByRow
  BY DEF AllThere, Marked, MarkedTogether, ApprovedRowByRow, ActiveRows, EulbApproved
<1>2. CountsTell'
  BY <1>1 DEF RowByRow, CountsTell
<1>3. ReviewsMarked'
  BY <1>1 DEF RowByRow, ReviewsMarked, EulbReviewing, EulbOpen
<1>4. FreshKnow'
  <2> SUFFICES ASSUME NEW p \in EulbRequest, Fresh(p)'
               PROVE  KnowsRows(eulbReq[p])'
    BY DEF FreshKnow
  <2>1. KnowsRows(eulbReq'[p])
    BY DEF RowByRow, FreshKnow, Fresh
  <2>2. QED  BY <1>1, <2>1 DEF KnowsRows
<1>5. QED  BY <1>1, <1>2, <1>3, <1>4 DEF RowByRow

\* The requests of the State that begin: a submit finds the counts of all rows, an edit of a returned
\* row finds all of them in review or decided.
LEMMA BeginsRowByRow ==
  ASSUME EulbTypeOK, RowByRow, NEW q \in EulbRequest, NEW op \in EulbStateOp, NEW r \in EulbReqState,
         Begins(q, op, r), r.pc # "load", ~r.summary.full,
         op = "submit" => eulbForm.summary.full,
         op = "edit" /\ r.resubmit =>
           \E u \in EulbUlb : ActiveRows[u].there /\ ActiveRows[u].status # "NONE",
         op = "revalidate" /\ r.pc = "rows" => r.ulbs = There(ActiveRows)
  PROVE  RowByRow'
<1> DEFINE begun == [r EXCEPT !.op = op, !.number = eulbOps + 1, !.version = eulbForm.version,
                              !.status = eulbForm.status, !.stale = HalfDeleted]
<1>1. /\ eulbReq'[q] = begun /\ eulbReq[q].pc = "idle" /\ UNCHANGED <<eulbForm, eulbRow>>
      /\ \A p \in EulbRequest \ {q} : eulbReq'[p] = eulbReq[p]
  BY DEF Begins, EulbTypeOK
<1>2. /\ begun.op = op /\ begun.version = eulbForm.version /\ begun.ulbs = r.ulbs
      /\ begun.resubmit = r.resubmit /\ begun.pc = r.pc /\ begun.summary = r.summary
      /\ begun.stale = HalfDeleted /\ op \notin EulbReviewOp
  BY DEF EulbReqState, EulbStateOp, EulbReviewOp
<1> HIDE DEF begun
<1>3. HalfDeleted => HalfDeleted'
  BY <1>1 DEF HalfDeleted, EulbOpen
<1>4. q \notin EulbReviewing'
  BY <1>1, <1>2 DEF EulbReviewing
<1>5. ASSUME Fresh(q)'
      PROVE  KnowsRows(begun)
  <2>1. ~HalfDeleted
    BY <1>1, <1>2, <1>5 DEF Fresh
  <2>2. op = "submit" => AllThere
    BY <2>1 DEF RowByRow, CountsTell
  <2>3. op = "edit" /\ r.resubmit => Marked
    BY DEF RowByRow, MarkedTogether
  <2>4. op = "revalidate" /\ r.pc = "rows" /\ r.ulbs = EulbUlb => AllThere
    BY DEF There, AllThere
  <2>5. QED  BY <1>2, <2>2, <2>3, <2>4 DEF KnowsRows
<1>6. QED  BY <1>1, <1>3, <1>4, <1>5, ReadRowByRow

\* They all do.
LEMMA ReadsRowByRow ==
  ASSUME EulbTypeOK, RowByRow, NEW q \in EulbRequest,
         \/ ReadDraft(q) \/ ReadDelete(q) \/ ReadSubmit(q)
         \/ \E file \in Excel : ReadUpload(q, file) \/ ReadRevalidate(q, file)
         \/ \E u \in EulbUlb, good \in BOOLEAN : ReadEdit(q, u, good)
         \/ \E U \in SUBSET EulbUlb : ReadPost(q, U)
  PROVE  RowByRow'
<1>0. /\ "draft" \in EulbStateOp /\ "delete" \in EulbStateOp /\ "submit" \in EulbStateOp
      /\ "upload" \in EulbStateOp /\ "revalidate" \in EulbStateOp /\ "edit" \in EulbStateOp
      /\ "post" \in EulbStateOp /\ ~IdleEulbReq.summary.full /\ ~IdleEulbReq.resubmit
  BY DEF EulbStateOp, IdleEulbReq, NotValidated
<1>1. ASSUME NEW pc \in {"form", "rows"}
      PROVE  LET r == [IdleEulbReq EXCEPT !.pc = pc]
             IN r \in EulbReqState /\ r.pc # "load" /\ ~r.summary.full /\ ~r.resubmit
  BY <1>0, IdleEulbTyped DEF EulbReqState
<1>2. CASE ReadDraft(q) \/ ReadDelete(q)
  BY <1>0, <1>1, <1>2, BeginsRowByRow DEF ReadDraft, ReadDelete
<1>3. CASE ReadSubmit(q)
  BY <1>0, <1>1, <1>3, BeginsRowByRow DEF ReadSubmit, EulbSubmittable
<1>4. ASSUME NEW file \in Excel, ReadUpload(q, file) \/ ReadRevalidate(q, file)
      PROVE  RowByRow'
  <2> DEFINE f == [IdleEulbReq EXCEPT !.pc = "form", !.excel = file]
             g == [IdleEulbReq EXCEPT !.pc = "rows", !.ulbs = There(ActiveRows),
                     !.excel.bad = {u \in There(ActiveRows) : ~ActiveRows[u].good}]
  <2>1. f \in EulbReqState /\ ~f.summary.full /\ f.pc = "form"
    BY <1>0, IdleEulbTyped DEF EulbReqState
  <2>2. g \in EulbReqState /\ g.pc = "rows" /\ ~g.summary.full /\ g.ulbs = There(ActiveRows)
    BY <1>0, IdleEulbTyped DEF EulbReqState, Excel, There
  <2>3. \/ Begins(q, "upload", f) \/ Begins(q, "revalidate", f) \/ Begins(q, "revalidate", g)
    BY <1>4 DEF ReadUpload, ReadRevalidate
  <2> HIDE DEF f, g
  <2>4. QED  BY <1>0, <2>1, <2>2, <2>3, BeginsRowByRow
<1>5. ASSUME NEW u \in EulbUlb, NEW good \in BOOLEAN, ReadEdit(q, u, good)
      PROVE  RowByRow'
  <2> DEFINE r == [IdleEulbReq EXCEPT !.pc = "rows", !.ulbs = {u},
                     !.resubmit = ActiveRows[u].status = "RETURNED_BY_PMU",
                     !.excel.bad = IF good THEN {} ELSE {u}]
  <2>1. /\ r \in EulbReqState /\ r.pc = "rows" /\ ~r.summary.full
        /\ r.resubmit => ActiveRows[u].status = "RETURNED_BY_PMU"
    BY <1>0, IdleEulbTyped DEF EulbReqState, Excel
  <2>2. Begins(q, "edit", r) /\ ActiveRows[u].there
    BY <1>5 DEF ReadEdit, There
  <2> HIDE DEF r
  <2>3. QED  BY <1>0, <2>1, <2>2, BeginsRowByRow
<1>6. ASSUME NEW U \in SUBSET EulbUlb, ReadPost(q, U)
      PROVE  RowByRow'
  <2>1. [IdleEulbReq EXCEPT !.pc = "form", !.ulbs = U] \in EulbReqState
          /\ ~[IdleEulbReq EXCEPT !.pc = "form", !.ulbs = U].summary.full
          /\ [IdleEulbReq EXCEPT !.pc = "form", !.ulbs = U].pc = "form"
    BY <1>0, IdleEulbTyped DEF EulbReqState
  <2>2. QED  BY <1>0, <1>6, <2>1, BeginsRowByRow DEF ReadPost
<1>7. QED  BY <1>2, <1>3, <1>4, <1>5, <1>6

\* PMU begins on a form that is submitted with all its rows; the rest leaves the rows.
LEMMA RestRowByRow ==
  ASSUME EulbTypeOK, RowByRow, ~eulbTangled', NEW q \in EulbRequest,
         \/ Recount(q) \/ EulbStops(q)
         \/ \E op \in EulbReviewOp : ReadEulbReview(q, op)
         \/ \E U \in SUBSET EulbUlb : LoadEulbRows(q, U)
  PROVE  RowByRow'
<1>0. eulbReq[q] \in EulbReqState
  BY DEF EulbTypeOK
<1>1. UNCHANGED <<eulbForm, eulbRow>> /\ \A p \in EulbRequest \ {q} : eulbReq'[p] = eulbReq[p]
  BY DEF Recount, EulbStops, ReadEulbReview, LoadEulbRows, EulbTypeOK
<1>2. ~(eulbReq[q].op = "delete" /\ eulbReq[q].pc = "form")
  BY DEF Recount, EulbStops, ReadEulbReview, LoadEulbRows, EulbReviewOp
<1>3. HalfDeleted => HalfDeleted'
  BY <1>1, <1>2 DEF HalfDeleted, EulbOpen
<1>4. CASE Recount(q)
  <2>1. /\ eulbReq'[q].op = "edit" /\ eulbReq'[q].pc = "form"
        /\ eulbReq'[q].version = eulbReq[q].version /\ eulbReq'[q].stale = eulbReq[q].stale
        /\ eulbReq[q].op = "edit" /\ eulbReq[q].pc = "count"
    BY <1>0, <1>4 DEF Recount, EulbTypeOK, EulbReqState
  <2>2. q \notin EulbReviewing'
    BY <2>1 DEF EulbReviewing, EulbReviewOp
  <2>3. Fresh(q)' => KnowsRows(eulbReq'[q])
    BY <2>1 DEF Fresh, KnowsRows, RowByRow, FreshKnow
  <2>4. QED  BY <1>1, <1>3, <2>2, <2>3, ReadRowByRow
<1>5. CASE EulbStops(q)
  <2>1. eulbReq'[q].pc = "idle"
    BY <1>5 DEF EulbStops, EulbTypeOK, IdleEulbReq
  <2>2. q \notin EulbReviewing' /\ ~Fresh(q)'
    BY <2>1 DEF EulbReviewing, EulbOpen, Fresh
  <2>3. QED  BY <1>1, <1>3, <2>2, ReadRowByRow
<1>6. ASSUME NEW op \in EulbReviewOp, ReadEulbReview(q, op)
      PROVE  RowByRow'
  <2>1. eulbReq'[q].version = eulbForm.version /\ eulbReq'[q].op = op /\ Marked
    BY <1>6, IdleEulbTyped
    DEF ReadEulbReview, EulbTypeOK, EulbReqState, RowByRow, ApprovedRowByRow, Marked
  <2>2. ~Fresh(q)'
    BY <2>1 DEF Fresh
  <2>3. QED  BY <1>1, <1>3, <2>1, <2>2, ReadRowByRow
<1>7. ASSUME NEW U \in SUBSET EulbUlb, LoadEulbRows(q, U)
      PROVE  RowByRow'
  <2>1. /\ eulbReq'[q].version = eulbReq[q].version /\ eulbReq'[q].op = eulbReq[q].op
        /\ eulbReq'[q].stale = eulbReq[q].stale /\ eulbReq'[q].pc = "form" /\ eulbReq[q].pc = "load"
        /\ eulbReq'[q].resubmit = eulbReq[q].resubmit /\ eulbReq'[q].summary = eulbReq[q].summary
    BY <1>0, <1>7 DEF LoadEulbRows, EulbTypeOK, EulbReqState
  <2>2. q \in EulbReviewing' => q \in EulbReviewing
    BY <2>1 DEF EulbReviewing, EulbOpen
  <2>3. q \in EulbReviewing' => eulbReq'[q].version = eulbForm.version /\ Marked
    BY <2>1, <2>2 DEF RowByRow, ReviewsMarked
  <2>4. ~Fresh(q)'
    BY <2>1 DEF Fresh, RowByRow, FreshKnow, KnowsRows
  <2>5. QED  BY <1>1, <1>3, <2>3, <2>4, ReadRowByRow
<1>8. QED  BY <1>4, <1>5, <1>6, <1>7

\* Every step keeps the invariant, for what is tangled stays so.
LEMMA StepsRowByRow == RowByRowInv /\ [EulbNext]_eulbVars => RowByRowInv'
<1> SUFFICES ASSUME RowByRowInv, [EulbNext]_eulbVars, ~eulbTangled'
             PROVE  RowByRow'
  BY EulbStepKeepsInv DEF RowByRowInv
<1>1. EulbTypeOK /\ EulbInv
  BY DEF RowByRowInv, EulbInv
<1>2. CASE UNCHANGED eulbVars
  BY <1>2
  DEF eulbVars, RowByRowInv, RowByRow, CountsTell, MarkedTogether, ReviewsMarked, FreshKnow, Fresh,
      KnowsRows, ApprovedRowByRow, AllThere, Marked, HalfDeleted, EulbReviewing, EulbOpen, ActiveRows,
      EulbApproved
<1>3. ASSUME NEW q \in EulbRequest,
             \/ WriteDraft(q) \/ ReplaceDataset(q) \/ WriteVerdicts(q) \/ WriteRevalidated(q)
             \/ DeleteRows(q) \/ ResetForm(q) \/ WriteRow(q) \/ WriteRecount(q) \/ CommitSubmit(q)
             \/ CommitPost(q) \/ CommitEulbReview(q)
      PROVE  RowByRow'
  <2>1. RowByRow
    BY <1>3
    DEF RowByRowInv, WriteDraft, ReplaceDataset, WriteVerdicts, WriteRevalidated, DeleteRows,
        ResetForm, WriteRow, WriteRecount, CommitSubmit, CommitPost, CommitEulbReview, Tangles
  <2>2. QED
    BY <1>1, <1>3, <2>1, FormWritesRowByRow, ContentWritesRowByRow, EditRowByRow, SubmitRowByRow,
       DatasetRowByRow, DecisionRowByRow
<1>4. ASSUME NEW q \in EulbRequest,
             \/ ReadDraft(q) \/ ReadDelete(q) \/ ReadSubmit(q) \/ Recount(q) \/ EulbStops(q)
             \/ \E file \in Excel : ReadUpload(q, file) \/ ReadRevalidate(q, file)
             \/ \E u \in EulbUlb, good \in BOOLEAN : ReadEdit(q, u, good)
             \/ \E U \in SUBSET EulbUlb : ReadPost(q, U) \/ LoadEulbRows(q, U)
             \/ \E op \in EulbReviewOp : ReadEulbReview(q, op)
      PROVE  RowByRow'
  <2>1. RowByRow
    BY <1>4
    DEF RowByRowInv, ReadDraft, ReadDelete, ReadSubmit, Recount, EulbStops, ReadUpload,
        ReadRevalidate, ReadEdit, ReadPost, LoadEulbRows, ReadEulbReview, Begins
  <2>2. QED  BY <1>1, <1>4, <2>1, ReadsRowByRow, RestRowByRow
<1>5. QED  BY <1>2, <1>3, <1>4 DEF EulbNext

\* With PMU is a row for every ULB, each one submitted, and MoHUA gets the form when PMU has approved
\* every one, as long as no requests get entangled: whatever is uploaded, revalidated, edited, deleted
\* and submitted, and whatever PMU decides meanwhile.
THEOREM ApprovedRows == EulbSpec => []ApprovedRowByRowUnlessTangled
<1>1. EulbInit => EulbInv
  BY EulbInitTyped
  DEF EulbInit, EulbInv, DatasetIsWhole, NoDataset, NoEulbRow, ReadsActive, OneReview, DecidesPending,
      EditsEditable, EulbReviewing, EulbOpen, IdleEulbReq
<1>2. EulbInit => RowByRow
  <2> SUFFICES ASSUME EulbInit
               PROVE  RowByRow
    OBVIOUS
  <2>1. 0 \in EulbVersion
    BY EulbAssumption DEF EulbVersion
  <2>2. \A u \in EulbUlb : ~ActiveRows[u].there
    BY <2>1 DEF EulbInit, ActiveRows, NoDataset, NoEulbRow
  <2>3. EulbReviewing = {} /\ \A q \in EulbRequest : ~Fresh(q)
    BY DEF EulbInit, EulbReviewing, EulbOpen, Fresh, IdleEulbReq
  <2>4. QED
    BY <2>2, <2>3
    DEF EulbInit, RowByRow, CountsTell, MarkedTogether, ReviewsMarked, FreshKnow, ApprovedRowByRow,
        NotValidated
<1>3. RowByRowInv => ApprovedRowByRowUnlessTangled
  BY DEF RowByRowInv, RowByRow, ApprovedRowByRowUnlessTangled
<1>4. QED  BY <1>1, <1>2, <1>3, StepsRowByRow, PTL DEF EulbSpec, RowByRowInv
=============================================================================

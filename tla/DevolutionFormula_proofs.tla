------------------------ MODULE DevolutionFormula_proofs ------------------------
(***************************************************************************)
(* Theorems about the devolution formula, for any ULBs, amounts, grants and *)
(* scenes, any number of requests and any overlap of them.                  *)
(***************************************************************************)
EXTENDS DevolutionFormula, TLAPS

-----------------------------------------------------------------------------
(* Types                                                                   *)

\* A request that has ended is one.
LEMMA IdleDfTyped == IdleDfReq \in DfReqState
BY DfAssumption
DEF DfReqState, IdleDfReq, DfOp, DfNumber, DfFormStatus, DfFile, NoDfFile, DfCell, NoDfCell, DfFault

\* Rows that are gone are rows.
LEMMA NoDfRowsTyped == NoDfRows \in [DfUlb -> DfRow]
BY DfAssumption DEF NoDfRows, NoDfRow, DfRow, DfNumber

\* The initial states are well typed.
LEMMA DfInitTyped == DfInit => DfTypeOK
<1> SUFFICES ASSUME DfInit
             PROVE  DfTypeOK
  OBVIOUS
<1>1. dfForm \in DfForm
  BY DfAssumption DEF DfInit, DfForm, DfFormStatus, DfNumber, DfSummary, DfNotValidated
<1>2. dfRow \in [DfNumber -> [DfUlb -> DfRow]] /\ dfReq \in [DfRequest -> DfReqState]
  BY IdleDfTyped, NoDfRowsTyped DEF DfInit
<1>3. dfOps \in DfNumber
  BY DfAssumption DEF DfInit, DfNumber
<1>4. QED  BY <1>1, <1>2, <1>3 DEF DfInit, DfTypeOK

\* What is read of the form has its type, so a request that begins keeps the types.
LEMMA DfBeginsTyped ==
  ASSUME DfTypeOK, NEW q \in DfRequest, NEW op \in DfOp, NEW r \in DfReqState,
         NEW total \in DfGrant \cup {0}, DfBegins(q, op, r, total)
  PROVE  DfTypeOK'
<1>1. dfOps + 1 \in DfNumber
  BY DfAssumption DEF DfTypeOK, DfNumber, DfBegins
<1>2. dfForm.version \in DfNumber /\ dfForm.status \in DfFormStatus /\ HalfWay \in BOOLEAN
  BY DEF DfTypeOK, DfForm, HalfWay
<1>3. [r EXCEPT !.op = op, !.number = dfOps + 1, !.total = total, !.version = dfForm.version,
                !.status = dfForm.status, !.stale = HalfWay] \in DfReqState
  BY <1>1, <1>2 DEF DfReqState
<1>4. QED  BY <1>1, <1>3 DEF DfBegins, DfTypeOK

\* A write keeps the types if it keeps those of the form and the rows and goes on with a request.
LEMMA DfWriteTyped ==
  ASSUME DfTypeOK, NEW q \in DfRequest, NEW r \in DfReqState, DfWrites(q, r),
         UNCHANGED <<dfOps, dfGrant>>, dfTangled' \in BOOLEAN,
         dfForm' \in DfForm, dfRow' \in [DfNumber -> [DfUlb -> DfRow]]
  PROVE  DfTypeOK'
<1>1. \A p \in DfRequest : [dfReq[p] EXCEPT !.stale = TRUE] \in DfReqState
  BY DEF DfTypeOK, DfReqState
<1>2. dfReq' \in [DfRequest -> DfReqState]
  BY <1>1 DEF DfWrites, DfTypeOK
<1>3. QED  BY <1>2 DEF DfTypeOK

\* Whether requests got entangled is true or false.
LEMMA DfTanglesTyped ==
  ASSUME DfTypeOK, NEW q \in DfRequest, DfTangles(q)
  PROVE  dfTangled' \in BOOLEAN
BY DEF DfTangles, DfTypeOK

\* The parts of the form that the requests set.
LEMMA DfFormTyped ==
  ASSUME NEW form \in DfForm
  PROVE  /\ form.version \in DfNumber /\ form.status \in DfFormStatus
         /\ form.total \in DfGrant \cup {0} /\ form.summary \in DfSummary
         /\ \A status \in DfFormStatus : [form EXCEPT !.status = status] \in DfForm
         /\ \A summary \in DfSummary : [form EXCEPT !.summary = summary] \in DfForm
         /\ \A verdict \in {"VALID", "INVALID"} : [form EXCEPT !.summary.verdict = verdict] \in DfForm
         /\ \A status \in DfFormStatus, total \in DfGrant \cup {0} :
              [form EXCEPT !.status = status, !.total = total] \in DfForm
         /\ \A missing \in BOOLEAN, verdict \in {"VALID", "INVALID"}, total \in DfGrant \cup {0} :
              [form EXCEPT !.total = total, !.summary.new = FALSE, !.summary.missing = missing,
                           !.summary.verdict = verdict] \in DfForm
BY ZenonT(40) DEF DfForm, DfSummary

\* Verdicts, and what is judged.
LEMMA DfVerdictTyped ==
  /\ \A errors, missing, allocated, total :
       DfVerdict(errors, missing, allocated, total) \in {"VALID", "INVALID"}
  /\ \A file, total : DfVerdictOf(file, total) \in {"VALID", "INVALID"}
  /\ \A file : DfMissing(file) \in BOOLEAN /\ IsFull(file) \in BOOLEAN
  /\ \A cell, total : DfValid(cell, total) \in BOOLEAN
BY DEF DfVerdict, DfVerdictOf, DfMissing, IsFull, DfValid

\* Other rows in one version keep the type of the rows.
LEMMA DfRowsTyped ==
  ASSUME DfTypeOK, NEW v \in DfNumber
  PROVE  /\ dfRow[v] \in [DfUlb -> DfRow] /\ \A u \in DfUlb : dfRow[v][u] \in DfRow
         /\ \A rows \in [DfUlb -> DfRow] :
              [dfRow EXCEPT ![v] = rows] \in [DfNumber -> [DfUlb -> DfRow]]
BY DEF DfTypeOK

\* A row whose verdict is written, or whose values and verdict are, is a row.
LEMMA JudgedDfRowTyped ==
  ASSUME NEW row \in DfRow, NEW valid \in BOOLEAN
  PROVE  /\ [row EXCEPT !.valid = valid, !.flagged = FALSE] \in DfRow
         /\ \A amount \in DfAmount \cup {0}, sound \in BOOLEAN :
              [row EXCEPT !.amount = amount, !.sound = sound, !.valid = valid, !.flagged = FALSE]
                \in DfRow
BY DEF DfRow

\* saveDraft keeps the types.
LEMMA DfDraftTyped ==
  ASSUME DfTypeOK, NEW q \in DfRequest, ReadDfDraft(q) \/ WriteDfDraft(q)
  PROVE  DfTypeOK'
<1>1. CASE ReadDfDraft(q)
  <2>1. [IdleDfReq EXCEPT !.pc = "write"] \in DfReqState
    BY IdleDfTyped DEF DfReqState
  <2>2. dfGrant \in DfGrant \cup {0} /\ "draft" \in DfOp
    BY DEF DfTypeOK, DfOp
  <2>3. QED  BY <1>1, <2>1, <2>2, DfBeginsTyped DEF ReadDfDraft
<1>2. CASE WriteDfDraft(q)
  <2>1. dfReq[q].total \in DfGrant \cup {0} /\ dfTangled' \in BOOLEAN
    BY <1>2 DEF WriteDfDraft, DfTypeOK, DfReqState
  <2>2. dfForm' \in DfForm /\ dfRow' \in [DfNumber -> [DfUlb -> DfRow]]
    BY <1>2, <2>1, DfFormTyped DEF WriteDfDraft, DfTypeOK, DfFormStatus
  <2>3. CASE DfEnds(q)
    BY <1>2, <2>1, <2>2, <2>3, IdleDfTyped DEF WriteDfDraft, DfEnds, DfTypeOK
  <2>4. CASE DfWrites(q, IdleDfReq)
    BY <1>2, <2>1, <2>2, <2>4, IdleDfTyped, DfWriteTyped DEF WriteDfDraft
  <2>5. QED  BY <1>2, <2>3, <2>4 DEF WriteDfDraft
<1>3. QED  BY <1>1, <1>2

\* A new row is one.
LEMMA NewDfRowTyped ==
  ASSUME DfTypeOK, NEW q \in DfRequest, NEW cell \in DfCell
  PROVE  NewDfRow(q, cell) \in DfRow
<1>1. dfReq[q].number \in DfNumber /\ DfValid(cell, dfReq[q].total) \in BOOLEAN
  BY DfVerdictTyped DEF DfTypeOK, DfReqState
<1>2. NoDfRow \in DfRow
  BY DfAssumption DEF NoDfRow, DfRow, DfNumber
<1>3. QED  BY <1>1, <1>2 DEF NewDfRow, DfRow, DfCell

\* validateExcel keeps the types.
LEMMA DfUploadTyped ==
  ASSUME DfTypeOK, NEW q \in DfRequest,
         (\E file \in DfFile : ReadDfUpload(q, file)) \/ ReplaceDfDataset(q)
  PROVE  DfTypeOK'
<1>1. ASSUME NEW file \in DfFile, ReadDfUpload(q, file)
      PROVE  DfTypeOK'
  <2>1. [IdleDfReq EXCEPT !.pc = "write", !.file = file] \in DfReqState
    BY IdleDfTyped DEF DfReqState
  <2>2. dfGrant \in DfGrant \cup {0} /\ "upload" \in DfOp
    BY DEF DfTypeOK, DfOp
  <2>3. QED  BY <1>1, <2>1, <2>2, DfBeginsTyped DEF ReadDfUpload
<1>2. CASE ReplaceDfDataset(q)
  <2>0. dfReq[q] \in DfReqState /\ dfReq[q].file \in DfFile
    BY DEF DfTypeOK, DfReqState
  <2>1. DfNextVersion(q) \in DfNumber
    BY <1>2 DEF ReplaceDfDataset
  <2>2. dfForm' \in DfForm
    <3>1. [full |-> IsFull(dfReq[q].file), new |-> dfReq[q].file.extra = "new",
           missing |-> DfMissing(dfReq[q].file),
           verdict |-> DfVerdictOf(dfReq[q].file, dfReq[q].total)] \in DfSummary
      BY DfVerdictTyped DEF DfSummary
    <3>2. QED  BY <1>2, <2>0, <2>1, <3>1 DEF ReplaceDfDataset, DfForm, DfFormStatus, DfReqState
  <2>3. dfRow' \in [DfNumber -> [DfUlb -> DfRow]]
    <3>1. \A u \in DfUlb : dfReq[q].file.cells[u] \in DfCell
      BY <2>0 DEF DfFile
    <3>2. \A v \in DfNumber, u \in DfUlb :
            dfRow[v][u] \in DfRow /\ NewDfRow(q, dfReq[q].file.cells[u]) \in DfRow
              /\ NoDfRows[u] \in DfRow
      BY <3>1, DfRowsTyped, NewDfRowTyped, NoDfRowsTyped
    <3>3. QED  BY <1>2, <3>2, NoDfRowsTyped DEF ReplaceDfDataset, DfTypeOK
  <2>4. dfTangled' \in BOOLEAN /\ UNCHANGED <<dfOps, dfGrant>> /\ DfWrites(q, IdleDfReq)
    BY <1>2 DEF ReplaceDfDataset
  <2>5. QED  BY <2>2, <2>3, <2>4, IdleDfTyped, DfWriteTyped
<1>3. QED  BY <1>1, <1>2

\* What is stored of a dataset reads as a file.
LEMMA StoredFileTyped ==
  ASSUME NEW rows \in [DfUlb -> DfRow]
  PROVE  StoredFile(rows) \in DfFile
BY DEF StoredFile, DfFile, DfCell, NoDfCell, DfFault, DfRow

\* revalidateExcel keeps the types.
LEMMA DfRevalidateTyped ==
  ASSUME DfTypeOK, NEW q \in DfRequest,
         ReadDfRevalidate(q) \/ WriteDfVerdicts(q) \/ WriteDfRevalidated(q)
  PROVE  DfTypeOK'
<1>0. dfReq[q] \in DfReqState /\ dfForm \in DfForm
  BY DEF DfTypeOK
<1>1. CASE ReadDfRevalidate(q)
  <2>1. StoredFile(DfActive) \in DfFile
    BY <1>0, DfFormTyped, DfRowsTyped, StoredFileTyped DEF DfActive
  <2>2. [IdleDfReq EXCEPT !.pc = "write", !.file = StoredFile(DfActive)] \in DfReqState
    BY <2>1, IdleDfTyped DEF DfReqState
  <2>3. dfGrant \in DfGrant \cup {0} /\ "revalidate" \in DfOp
    BY DEF DfTypeOK, DfOp
  <2>4. QED  BY <1>1, <2>2, <2>3, DfBeginsTyped DEF ReadDfRevalidate
<1>2. CASE WriteDfVerdicts(q)
  <2>1. [dfReq[q] EXCEPT !.pc = "form"] \in DfReqState
    BY <1>0 DEF DfReqState
  <2>2. ASSUME NEW v \in DfNumber, NEW u \in DfUlb, NEW valid \in BOOLEAN
        PROVE  [dfRow[v][u] EXCEPT !.valid = valid, !.flagged = FALSE] \in DfRow
    <3>1. dfRow[v][u] \in DfRow
      BY DfRowsTyped
    <3>2. QED  BY <3>1, JudgedDfRowTyped
  <2>3. dfReq[q].version \in DfNumber
    BY <1>0 DEF DfReqState
  <2>4. dfRow' \in [DfNumber -> [DfUlb -> DfRow]]
    BY <1>2, <2>2, <2>3, DfVerdictTyped DEF WriteDfVerdicts, DfTypeOK
  <2>5. dfForm' \in DfForm /\ dfTangled' \in BOOLEAN /\ UNCHANGED <<dfOps, dfGrant>>
          /\ DfWrites(q, [dfReq[q] EXCEPT !.pc = "form"])
    BY <1>2, <1>0, DfTanglesTyped DEF WriteDfVerdicts
  <2>6. QED  BY <2>1, <2>4, <2>5, DfWriteTyped
<1>3. CASE WriteDfRevalidated(q)
  <2>1. dfReq[q].total \in DfGrant \cup {0}
    BY <1>0 DEF DfReqState
  <2>2. dfForm' \in DfForm
    BY <1>3, <1>0, <2>1, DfFormTyped, DfVerdictTyped DEF WriteDfRevalidated
  <2>3. dfRow' \in [DfNumber -> [DfUlb -> DfRow]] /\ dfTangled' \in BOOLEAN
          /\ UNCHANGED <<dfOps, dfGrant>> /\ DfWrites(q, IdleDfReq)
    BY <1>3, DfTanglesTyped DEF WriteDfRevalidated, DfTypeOK
  <2>4. QED  BY <2>2, <2>3, IdleDfTyped, DfWriteTyped
<1>4. QED  BY <1>1, <1>2, <1>3

\* deleteUploadedExcel keeps the types.
LEMMA DfDeleteTyped ==
  ASSUME DfTypeOK, NEW q \in DfRequest, ReadDfDelete(q) \/ DeleteDfRows(q) \/ ResetDfForm(q)
  PROVE  DfTypeOK'
<1>0. dfReq[q] \in DfReqState /\ dfForm \in DfForm
  BY DEF DfTypeOK
<1>1. CASE ReadDfDelete(q)
  <2>1. [IdleDfReq EXCEPT !.pc = "write"] \in DfReqState
    BY IdleDfTyped DEF DfReqState
  <2>2. dfForm.total \in DfGrant \cup {0} /\ "delete" \in DfOp
    BY <1>0, DfFormTyped DEF DfOp
  <2>3. QED  BY <1>1, <2>1, <2>2, DfBeginsTyped DEF ReadDfDelete
<1>2. CASE DeleteDfRows(q)
  <2>1. [dfReq[q] EXCEPT !.pc = "form"] \in DfReqState /\ dfReq[q].version \in DfNumber
    BY <1>0 DEF DfReqState
  <2>2. dfRow' \in [DfNumber -> [DfUlb -> DfRow]]
    BY <1>2, <2>1, DfRowsTyped, NoDfRowsTyped DEF DeleteDfRows
  <2>3. dfForm' \in DfForm /\ dfTangled' \in BOOLEAN /\ UNCHANGED <<dfOps, dfGrant>>
          /\ DfWrites(q, [dfReq[q] EXCEPT !.pc = "form"])
    BY <1>2, <1>0, DfTanglesTyped DEF DeleteDfRows
  <2>4. QED  BY <2>1, <2>2, <2>3, DfWriteTyped
<1>3. CASE ResetDfForm(q)
  <2>1. DfNotValidated \in DfSummary
    BY DEF DfNotValidated, DfSummary
  <2>2. dfForm' \in DfForm
    BY <1>3, <1>0, <2>1, DfFormTyped DEF ResetDfForm
  <2>3. dfRow' \in [DfNumber -> [DfUlb -> DfRow]] /\ dfTangled' \in BOOLEAN
          /\ UNCHANGED <<dfOps, dfGrant>> /\ DfWrites(q, IdleDfReq)
    BY <1>3, DfTanglesTyped DEF ResetDfForm, DfTypeOK
  <2>4. QED  BY <2>2, <2>3, IdleDfTyped, DfWriteTyped
<1>4. QED  BY <1>1, <1>2, <1>3

\* updateRow keeps the types.
LEMMA DfEditTyped ==
  ASSUME DfTypeOK, NEW q \in DfRequest,
         \/ \E u \in DfUlb, amount \in DfAmount, fault \in {"none", "split"} :
              ReadDfEdit(q, u, amount, fault)
         \/ WriteDfRow(q) \/ RecountDf(q) \/ WriteDfRecount(q)
  PROVE  DfTypeOK'
<1>0. dfReq[q] \in DfReqState /\ dfForm \in DfForm
  BY DEF DfTypeOK
<1>1. ASSUME NEW u \in DfUlb, NEW amount \in DfAmount, NEW fault \in {"none", "split"},
             ReadDfEdit(q, u, amount, fault)
      PROVE  DfTypeOK'
  <2>1. [IdleDfReq EXCEPT !.pc = "write",
           !.file.cells[u] = [there |-> TRUE, amount |-> amount, fault |-> fault]] \in DfReqState
    BY IdleDfTyped DEF DfReqState, DfFile, DfCell, DfFault
  <2>2. dfForm.total \in DfGrant \cup {0} /\ "edit" \in DfOp
    BY <1>0, DfFormTyped DEF DfOp
  <2>3. QED  BY <1>1, <2>1, <2>2, DfBeginsTyped DEF ReadDfEdit
<1>2. CASE WriteDfRow(q)
  <2>1. [dfReq[q] EXCEPT !.pc = "count"] \in DfReqState /\ dfReq[q].version \in DfNumber
    BY <1>0 DEF DfReqState
  <2>2. ASSUME NEW v \in DfNumber, NEW u \in DfUlb
        PROVE  EditedDfRow(dfRow[v][u], dfReq[q].file.cells[u], dfReq[q].total) \in DfRow
    <3>1. dfRow[v][u] \in DfRow
      BY DfRowsTyped
    <3>2. dfReq[q].file.cells[u] \in DfCell
      BY <1>0 DEF DfReqState, DfFile
    <3>3. dfReq[q].file.cells[u].amount \in DfAmount \cup {0}
      BY <3>2 DEF DfCell
    <3>4. (dfReq[q].file.cells[u].fault = "none") \in BOOLEAN
            /\ DfValid(dfReq[q].file.cells[u], dfReq[q].total) \in BOOLEAN
      BY DfVerdictTyped
    <3>5. QED  BY <3>1, <3>3, <3>4, JudgedDfRowTyped DEF EditedDfRow
  <2>3. dfRow' \in [DfNumber -> [DfUlb -> DfRow]]
    BY <1>2, <2>1, <2>2 DEF WriteDfRow, DfTypeOK
  <2>4. dfForm' \in DfForm /\ dfTangled' \in BOOLEAN /\ UNCHANGED <<dfOps, dfGrant>>
          /\ DfWrites(q, [dfReq[q] EXCEPT !.pc = "count"])
    BY <1>2, <1>0, DfTanglesTyped DEF WriteDfRow
  <2>5. QED  BY <2>1, <2>3, <2>4, DfWriteTyped
<1>3. CASE RecountDf(q)
  <2>1. ASSUME NEW verdict \in {"VALID", "INVALID"}
        PROVE  [dfReq[q] EXCEPT !.pc = "form", !.verdict = verdict] \in DfReqState
    BY <1>0 DEF DfReqState
  <2>2. PICK verdict \in {"VALID", "INVALID"} :
          dfReq' = [dfReq EXCEPT ![q].pc = "form", ![q].verdict = verdict]
    <3> DEFINE rows == dfRow[dfReq[q].version]
               found == DfVerdict(\E u \in DfUlb : rows[u].there /\ ~rows[u].valid,
                                  dfForm.summary.missing,
                                  DfSum([u \in DfUlb |->
                                    IF rows[u].there /\ rows[u].valid THEN rows[u].amount ELSE 0]),
                                  dfForm.total)
    <3>1. dfReq' = [dfReq EXCEPT ![q].pc = "form", ![q].verdict = found]
      BY <1>3 DEF RecountDf
    <3>2. found \in {"VALID", "INVALID"}
      BY DEF DfVerdict
    <3> HIDE DEF found
    <3>3. QED  BY <3>1, <3>2
  <2>3. dfReq' = [dfReq EXCEPT ![q] = [dfReq[q] EXCEPT !.pc = "form", !.verdict = verdict]]
    BY <2>2 DEF DfTypeOK
  <2>4. QED  BY <1>3, <2>1, <2>3 DEF RecountDf, DfTypeOK
<1>4. CASE WriteDfRecount(q)
  <2>1. dfReq[q].verdict \in {"VALID", "INVALID"}
    BY <1>0 DEF DfReqState
  <2>2. dfForm' \in DfForm
    BY <1>4, <1>0, <2>1, DfFormTyped DEF WriteDfRecount
  <2>3. dfRow' \in [DfNumber -> [DfUlb -> DfRow]] /\ dfTangled' \in BOOLEAN
          /\ UNCHANGED <<dfOps, dfGrant>> /\ DfWrites(q, IdleDfReq)
    BY <1>4, DfTanglesTyped DEF WriteDfRecount, DfTypeOK
  <2>4. QED  BY <2>2, <2>3, IdleDfTyped, DfWriteTyped
<1>5. QED  BY <1>1, <1>2, <1>3, <1>4

\* finalSubmit and the decisions of PMU keep the types.
LEMMA DfStatusTyped ==
  ASSUME DfTypeOK, NEW q \in DfRequest,
         \/ ReadDfSubmit(q) \/ CommitDfSubmit(q)
         \/ \E op \in {"approve", "reject"} : ReadDfReview(q, op)
         \/ CommitDfReview(q)
  PROVE  DfTypeOK'
<1>0. dfForm \in DfForm
  BY DEF DfTypeOK
<1>1. [IdleDfReq EXCEPT !.pc = "write"] \in DfReqState
  BY IdleDfTyped DEF DfReqState
<1>2. CASE ReadDfSubmit(q)
  <2>1. dfGrant \in DfGrant \cup {0} /\ "submit" \in DfOp
    BY DEF DfTypeOK, DfOp
  <2>2. QED  BY <1>1, <1>2, <2>1, DfBeginsTyped DEF ReadDfSubmit
<1>3. ASSUME NEW op \in {"approve", "reject"}, ReadDfReview(q, op)
      PROVE  DfTypeOK'
  <2>1. op \in DfOp
    BY DEF DfOp
  <2>2. QED  BY <1>1, <1>3, <2>1, DfBeginsTyped DEF ReadDfReview
<1>4. CASE CommitDfSubmit(q) \/ CommitDfReview(q)
  <2>1. dfForm' \in DfForm
    BY <1>0, <1>4, DfFormTyped DEF CommitDfSubmit, CommitDfReview, DfFormStatus
  <2>2. dfRow' \in [DfNumber -> [DfUlb -> DfRow]] /\ dfTangled' \in BOOLEAN
          /\ UNCHANGED <<dfOps, dfGrant>> /\ DfWrites(q, IdleDfReq)
    BY <1>4, DfTanglesTyped DEF CommitDfSubmit, CommitDfReview, DfTypeOK
  <2>3. QED  BY <2>1, <2>2, IdleDfTyped, DfWriteTyped
<1>5. QED  BY <1>2, <1>3, <1>4

\* The scene stays.
LEMMA DfCastStays == [DfNext]_dfVars => UNCHANGED dfCast
<1>1. ASSUME NEW q \in DfRequest,
             \/ ReadDfDraft(q) \/ ReadDfRevalidate(q) \/ ReadDfDelete(q) \/ ReadDfSubmit(q)
             \/ \E file \in dfCast.files : ReadDfUpload(q, file)
             \/ \E u \in DfUlb, amount \in DfAmount, fault \in {"none", "split"} :
                  ReadDfEdit(q, u, amount, fault)
             \/ \E op \in {"approve", "reject"} : ReadDfReview(q, op)
      PROVE  UNCHANGED dfCast
  <2>1. \A op, r, total : DfBegins(q, op, r, total) => UNCHANGED dfCast
    BY DEF DfBegins
  <2>2. QED
    BY <1>1, <2>1 DEF ReadDfDraft, ReadDfRevalidate, ReadDfDelete, ReadDfSubmit, ReadDfUpload,
       ReadDfEdit, ReadDfReview
<1>2. ASSUME NEW q \in DfRequest,
             \/ WriteDfDraft(q) \/ ReplaceDfDataset(q) \/ WriteDfVerdicts(q)
             \/ WriteDfRevalidated(q) \/ DeleteDfRows(q) \/ ResetDfForm(q) \/ WriteDfRow(q)
      PROVE  UNCHANGED dfCast
  BY <1>2 DEF WriteDfDraft, ReplaceDfDataset, WriteDfVerdicts, WriteDfRevalidated, DeleteDfRows,
     ResetDfForm, WriteDfRow
<1>3. ASSUME NEW q \in DfRequest,
             RecountDf(q) \/ WriteDfRecount(q) \/ CommitDfSubmit(q) \/ CommitDfReview(q) \/ DfStops(q)
      PROVE  UNCHANGED dfCast
  BY <1>3 DEF RecountDf, WriteDfRecount, CommitDfSubmit, CommitDfReview, DfStops
<1>4. QED  BY <1>1, <1>2, <1>3 DEF DfNext, dfVars, GrantChanges

\* Every step keeps the types, with the files of the scene.
LEMMA DfStepTyped ==
  DfTypeOK /\ dfCast \in DfCasts /\ [DfNext]_dfVars => DfTypeOK' /\ (dfCast \in DfCasts)'
<1> SUFFICES ASSUME DfTypeOK, dfCast \in DfCasts, [DfNext]_dfVars
             PROVE  DfTypeOK' /\ (dfCast \in DfCasts)'
  OBVIOUS
<1>0. (dfCast \in DfCasts)' /\ dfCast.files \subseteq DfFile
  BY DfCastStays, DfCastsAssumption
<1>1. CASE GrantChanges
  BY <1>1, DfAssumption DEF GrantChanges, DfTypeOK, DfNumber
<1>2. ASSUME NEW q \in DfRequest, DfStops(q)
      PROVE  DfTypeOK'
  BY <1>2, IdleDfTyped DEF DfStops, DfEnds, DfTypeOK
<1>3. CASE UNCHANGED dfVars
  BY <1>3 DEF dfVars, DfTypeOK
<1>4. QED
  BY <1>0, <1>1, <1>2, <1>3, DfDraftTyped, DfUploadTyped, DfRevalidateTyped, DfDeleteTyped, DfEditTyped,
     DfStatusTyped DEF DfNext

\* Every reachable state is well typed.
THEOREM DfTypeCorrect == DfSpec => []DfTypeOK
<1>1. DfInit => DfTypeOK /\ dfCast \in DfCasts
  BY DfInitTyped DEF DfInit
<1>2. QED  BY <1>1, DfStepTyped, PTL DEF DfSpec

-----------------------------------------------------------------------------
(* One dataset                                                             *)

\* The rows there are stay where they are and what they came with, or go.
DfRowsStayOrGo ==
  \A v \in DfNumber, u \in DfUlb :
    dfRow'[v][u].there => dfRow[v][u].there /\ dfRow'[v][u].from = dfRow[v][u].from

\* Whatever does so, and leaves the active version, leaves the dataset whole.
LEMMA DfStayWhole ==
  ASSUME DfDatasetIsWhole, DfRowsStayOrGo, dfForm'.version = dfForm.version
  PROVE  DfDatasetIsWhole'
BY DEF DfDatasetIsWhole, DfRowsStayOrGo

\* The writes to rows of a dataset do so.
LEMMA DfRowWritesStayOrGo ==
  ASSUME DfTypeOK, NEW q \in DfRequest, WriteDfVerdicts(q) \/ DeleteDfRows(q) \/ WriteDfRow(q)
  PROVE  DfRowsStayOrGo /\ dfForm'.version = dfForm.version
<1>0. dfReq[q].version \in DfNumber
  BY DEF DfTypeOK, DfReqState
<1>1. \A v \in DfNumber, u \in DfUlb : dfRow[v][u] \in DfRow
  BY DfRowsTyped
<1>2. CASE WriteDfVerdicts(q)
  <2>1. ASSUME NEW v \in DfNumber, NEW u \in DfUlb, dfRow'[v][u].there
        PROVE  dfRow[v][u].there /\ dfRow'[v][u].from = dfRow[v][u].from
    <3>1. CASE dfRow'[v][u] = dfRow[v][u]
      BY <2>1, <3>1
    <3>2. CASE /\ dfRow[v][u].there
               /\ dfRow'[v][u] =
                    [dfRow[v][u] EXCEPT !.valid = DfValid(dfReq[q].file.cells[u], dfReq[q].total),
                                        !.flagged = FALSE]
      BY <1>1, <3>2 DEF DfRow
    <3>3. QED  BY <1>0, <1>2, <3>1, <3>2 DEF WriteDfVerdicts, DfTypeOK
  <2>2. QED  BY <1>2, <2>1 DEF WriteDfVerdicts, DfRowsStayOrGo
<1>3. CASE DeleteDfRows(q)
  BY <1>0, <1>3 DEF DeleteDfRows, DfRowsStayOrGo, DfTypeOK, NoDfRows, NoDfRow
<1>4. CASE WriteDfRow(q)
  <2>1. \A v \in DfNumber, u \in DfUlb :
          \/ dfRow'[v][u] = dfRow[v][u]
          \/ /\ dfRow[v][u].there
             /\ dfRow'[v][u] =
                  EditedDfRow(dfRow[v][u], dfReq[q].file.cells[u], dfReq[q].total)
    BY <1>0, <1>4 DEF WriteDfRow, DfTypeOK
  <2>2. \A cell, total : \A row \in DfRow :
          EditedDfRow(row, cell, total).there = row.there /\ EditedDfRow(row, cell, total).from = row.from
    BY DEF EditedDfRow, DfRow
  <2>3. QED  BY <1>1, <1>4, <2>1, <2>2 DEF WriteDfRow, DfRowsStayOrGo
<1>5. QED  BY <1>2, <1>3, <1>4

\* The writes to the form leave the active version.
LEMMA DfFormWritesKeepVersion ==
  ASSUME DfTypeOK, NEW q \in DfRequest,
         \/ WriteDfDraft(q) \/ WriteDfRevalidated(q) \/ ResetDfForm(q) \/ WriteDfRecount(q)
         \/ CommitDfSubmit(q) \/ CommitDfReview(q)
  PROVE  UNCHANGED dfRow /\ dfForm'.version = dfForm.version
BY DEF WriteDfDraft, WriteDfRevalidated, ResetDfForm, WriteDfRecount, CommitDfSubmit, CommitDfReview,
   DfTypeOK, DfForm, DfSummary

\* The requests that only read, a change of the grant and a request that stops write neither.
LEMMA DfReadsWriteNothing ==
  ASSUME NEW q \in DfRequest,
         \/ ReadDfDraft(q) \/ ReadDfRevalidate(q) \/ ReadDfDelete(q) \/ ReadDfSubmit(q)
         \/ \E file \in dfCast.files : ReadDfUpload(q, file)
         \/ \E u \in DfUlb, amount \in DfAmount, fault \in {"none", "split"} :
              ReadDfEdit(q, u, amount, fault)
         \/ \E op \in {"approve", "reject"} : ReadDfReview(q, op)
         \/ RecountDf(q) \/ DfStops(q)
  PROVE  UNCHANGED <<dfForm, dfRow>>
<1>1. \A op, r, total : DfBegins(q, op, r, total) => UNCHANGED <<dfForm, dfRow>>
  BY DEF DfBegins
<1>2. QED
  BY <1>1 DEF ReadDfDraft, ReadDfRevalidate, ReadDfDelete, ReadDfSubmit, ReadDfUpload, ReadDfEdit,
     ReadDfReview, RecountDf, DfStops

\* A new dataset takes the place of the one before it.
LEMMA DfReplacesWhole ==
  ASSUME DfTypeOK, DfDatasetIsWhole, NEW q \in DfRequest, ReplaceDfDataset(q)
  PROVE  DfDatasetIsWhole'
<1> DEFINE n == DfNextVersion(q)
<1>0. dfForm.version \in Nat /\ n = dfForm.version + 1 /\ n \in DfNumber /\ dfForm.version \in DfNumber
  BY DfAssumption DEF DfTypeOK, DfForm, DfNumber, DfNextVersion, ReplaceDfDataset
<1>1. n - 1 = dfForm.version /\ n # dfForm.version
  BY <1>0
<1>2. dfForm'.version = n
  BY DEF ReplaceDfDataset
<1>3. ASSUME NEW v \in DfNumber, NEW u \in DfUlb, dfRow'[v][u].there
      PROVE  v = n /\ dfRow'[v][u].from = dfReq[q].number
  <2>1. CASE v = n
    <3>1. ~dfRow[n][u].there
      BY <1>0, <1>1 DEF DfDatasetIsWhole
    <3>2. dfRow'[n][u] = NewDfRow(q, dfReq[q].file.cells[u])
      BY <1>0, <1>1, <3>1 DEF ReplaceDfDataset, DfTypeOK
    <3>3. QED  BY <1>3, <2>1, <3>2 DEF NewDfRow, NoDfRow
  <2>2. CASE v # n
    <3>1. v = dfForm.version => dfRow'[v] = NoDfRows
      BY <1>0, <1>1, <2>2 DEF ReplaceDfDataset, DfTypeOK
    <3>2. v # dfForm.version => dfRow'[v] = dfRow[v] /\ ~dfRow[v][u].there
      BY <1>0, <1>1, <2>2 DEF ReplaceDfDataset, DfTypeOK, DfDatasetIsWhole
    <3>3. QED  BY <1>3, <3>1, <3>2 DEF NoDfRows, NoDfRow
  <2>3. QED  BY <2>1, <2>2
<1>4. QED  BY <1>2, <1>3 DEF DfDatasetIsWhole

\* Every step leaves the dataset whole.
LEMMA DfStepsWhole ==
  ASSUME DfTypeOK, DfDatasetIsWhole, [DfNext]_dfVars
  PROVE  DfDatasetIsWhole'
<1>1. (UNCHANGED <<dfForm, dfRow>>) => DfDatasetIsWhole'
  BY DEF DfDatasetIsWhole
<1>2. ASSUME UNCHANGED dfRow, dfForm'.version = dfForm.version
      PROVE  DfDatasetIsWhole'
  BY <1>2, DfStayWhole DEF DfRowsStayOrGo
<1>3. UNCHANGED dfVars \/ GrantChanges => UNCHANGED <<dfForm, dfRow>>
  BY DEF dfVars, GrantChanges
<1>4. QED
  BY <1>1, <1>2, <1>3, DfReadsWriteNothing, DfFormWritesKeepVersion, DfRowWritesStayOrGo, DfStayWhole,
     DfReplacesWhole DEF DfNext

\* The rows there are belong to the active dataset version and all came with one upload, however
\* uploads, revalidations, deletions and edits overlap.
THEOREM DfOneDataset == DfSpec => []DfDatasetIsWhole
<1>1. DfInit => DfDatasetIsWhole
  BY DEF DfInit, DfDatasetIsWhole, NoDfRows, NoDfRow
<1>2. DfTypeOK /\ DfDatasetIsWhole /\ [DfNext]_dfVars => DfDatasetIsWhole'
  BY DfStepsWhole
<1>3. QED  BY <1>1, <1>2, DfTypeCorrect, PTL DEF DfSpec

-----------------------------------------------------------------------------
(* The amounts make up the allocation                                      *)

\* A request that is not overtaken by another one.
DfFresh(q) == dfReq[q].pc # "idle" /\ ~dfReq[q].stale

SomeDfRow == \E u \in DfUlb : DfActive[u].there

\* What the verdict VALID stands for.
DfMakesUp ==
  /\ \A u \in DfUlb : DfActive[u].there /\ DfActive[u].sound
  /\ DfSum(DfAmountsOf(DfActive)) = dfForm.total

\* The stored verdict is that of the rows, but between the two writes of a request.
VerdictTells == ~HalfWay /\ dfForm.summary.verdict = "VALID" => DfMakesUp

\* A form that was submitted is valid, and nobody is at work on its rows.
SubmittedIsValid == DfSubmitted => ~HalfWay /\ dfForm.summary.verdict = "VALID"

\* The count of missing ULBs, which an edit reads back, is that of the rows there are.
MissingTells ==
  ~dfForm.summary.missing /\ SomeDfRow => \A u \in DfUlb : DfActive[u].there

\* A row that is in error is not stored as valid.
JudgedRight == \A u \in DfUlb : DfActive[u].there /\ DfActive[u].valid => DfActive[u].sound

\* What a request has read is so as long as it is fresh.
DfKnows(r) ==
  /\ r.version = dfForm.version
  /\ r.op \in {"approve", "reject"} <=> DfSubmitted
  /\ r.op = "submit" => dfForm.summary.verdict = "VALID"
  /\ r.op = "revalidate" => r.file = StoredFile(DfActive)
  /\ r.op = "delete" /\ r.pc = "form" => ~SomeDfRow
  /\ r.op = "edit" => SomeDfRow
  /\ r.op = "edit" /\ r.pc = "form" /\ r.verdict = "VALID" => DfMakesUp

FreshDfKnow == \A q \in DfRequest : DfFresh(q) => DfKnows(dfReq[q])

\* Only a fresh request itself is between its two writes.
FreshIsAlone ==
  \A p, q \in DfRequest : DfFresh(q) /\ dfReq[p].pc \in {"count", "form"} => p = q

\* A draft has read that the form is open to the State, and writes if that is as it was.
DraftsEditable ==
  \A q \in DfRequest :
    dfReq[q].pc # "idle" /\ dfReq[q].op = "draft" => dfReq[q].status \in DfStateEditable

AddsUp ==
  VerdictTells /\ SubmittedIsValid /\ MissingTells /\ JudgedRight /\ FreshDfKnow /\ FreshIsAlone

AddsUpInv ==
  DfTypeOK /\ dfCast \in DfCasts /\ DfDatasetIsWhole /\ DraftsEditable /\ (dfTangled \/ AddsUp)

\* What is said of form and rows stays true while both stay.
LEMMA DfUnwritten ==
  ASSUME UNCHANGED <<dfForm, dfRow>>
  PROVE  /\ DfActive' = DfActive /\ (SomeDfRow' <=> SomeDfRow) /\ (DfMakesUp' <=> DfMakesUp)
         /\ (DfSubmitted' <=> DfSubmitted) /\ (MissingTells' <=> MissingTells)
         /\ (JudgedRight' <=> JudgedRight)
<1>1. DfActive' = DfActive
  BY DEF DfActive
<1>2. QED  BY <1>1 DEF SomeDfRow, DfMakesUp, DfSubmitted, MissingTells, JudgedRight

\* Rows for all of a valid file make up the total it was judged against.
LEMMA ValidFileMakesUp ==
  ASSUME NEW file \in DfFile, NEW rows \in [DfUlb -> DfRow], NEW total,
         \A u \in DfUlb : file.cells[u].there =>
           /\ rows[u].there /\ rows[u].amount = file.cells[u].amount
           /\ file.cells[u].fault = "none" => rows[u].sound,
         DfVerdictOf(file, total) = "VALID"
  PROVE  (\A u \in DfUlb : rows[u].there /\ rows[u].sound) /\ DfSum(DfAmountsOf(rows)) = total
<1> DEFINE amounts ==
      [u \in DfUlb |-> IF file.cells[u].there /\ DfValid(file.cells[u], total)
                       THEN file.cells[u].amount ELSE 0]
<1>1. /\ \A u \in DfUlb : file.cells[u].there /\ DfValid(file.cells[u], total)
      /\ DfSum(amounts) = total
  BY DEF DfVerdictOf, DfVerdict, DfMissing
<1>2. DfAmountsOf(rows) = amounts
  BY <1>1 DEF DfAmountsOf
<1>3. QED  BY <1>1, <1>2 DEF DfValid

\* And so do rows that are counted again and none of which is missing or in error.
LEMMA ValidRowsMakeUp ==
  ASSUME NEW rows \in [DfUlb -> DfRow], NEW missing, NEW total,
         \A u \in DfUlb : rows[u].there /\ rows[u].valid => rows[u].sound,
         ~missing => \A u \in DfUlb : rows[u].there,
         DfVerdict(\E u \in DfUlb : rows[u].there /\ ~rows[u].valid, missing,
                   DfSum([u \in DfUlb |->
                     IF rows[u].there /\ rows[u].valid THEN rows[u].amount ELSE 0]),
                   total) = "VALID"
  PROVE  (\A u \in DfUlb : rows[u].there /\ rows[u].sound) /\ DfSum(DfAmountsOf(rows)) = total
<1> DEFINE amounts ==
      [u \in DfUlb |-> IF rows[u].there /\ rows[u].valid THEN rows[u].amount ELSE 0]
<1>1. (\A u \in DfUlb : rows[u].there /\ rows[u].valid) /\ DfSum(amounts) = total
  BY DEF DfVerdict
<1>2. DfAmountsOf(rows) = amounts
  BY <1>1 DEF DfAmountsOf
<1>3. QED  BY <1>1, <1>2

\* What a revalidation makes of rows that are stored.
LEMMA StoredFileTells ==
  ASSUME NEW rows \in [DfUlb -> DfRow], NEW u \in DfUlb
  PROVE  /\ StoredFile(rows).cells[u].there = rows[u].there
         /\ rows[u].there =>
              /\ StoredFile(rows).cells[u].amount = rows[u].amount
              /\ StoredFile(rows).cells[u].fault = "none" <=> rows[u].sound
BY DEF StoredFile, DfRow, NoDfCell

\* It does not see the verdicts.
LEMMA StoredFileIsBlind ==
  ASSUME NEW rows \in [DfUlb -> DfRow], NEW others \in [DfUlb -> DfRow],
         \A u \in DfUlb : /\ rows[u].there = others[u].there /\ rows[u].amount = others[u].amount
                          /\ rows[u].sound = others[u].sound
  PROVE  StoredFile(rows) = StoredFile(others)
BY DEF StoredFile

\* The active rows have the type of rows.
LEMMA DfActiveTyped ==
  ASSUME DfTypeOK
  PROVE  /\ dfForm.version \in DfNumber /\ DfActive \in [DfUlb -> DfRow]
         /\ \A u \in DfUlb : DfActive[u] \in DfRow
BY DfRowsTyped DEF DfTypeOK, DfForm, DfActive

\* A write leaves no other request fresh.
LEMMA DfWritesOvertake ==
  ASSUME DfTypeOK, NEW q \in DfRequest, NEW r, DfWrites(q, r)
  PROVE  /\ dfReq'[q] = r
         /\ \A p \in DfRequest \ {q} : dfReq'[p].pc = dfReq[p].pc /\ ~DfFresh(p)'
<1>1. \A p \in DfRequest : dfReq[p] \in DfReqState
  BY DEF DfTypeOK
<1>2. QED  BY <1>1 DEF DfWrites, DfOpen, DfFresh, DfReqState

\* So a write keeps the invariant if form and rows are as they should be, and the request that goes on
\* knows them and is the only one half-way.
LEMMA WriteKeepsAddsUp ==
  ASSUME DfTypeOK, NEW q \in DfRequest, NEW r, DfWrites(q, r),
         VerdictTells', SubmittedIsValid', MissingTells', JudgedRight',
         DfFresh(q)' => /\ DfKnows(dfReq[q])'
                        /\ \A p \in DfRequest \ {q} : dfReq[p].pc \notin {"count", "form"}
  PROVE  AddsUp'
<1>1. FreshDfKnow'
  BY DfWritesOvertake DEF FreshDfKnow
<1>2. FreshIsAlone'
  BY DfWritesOvertake DEF FreshIsAlone
<1>3. QED  BY <1>1, <1>2 DEF AddsUp

\* Of a request that writes while nothing is tangled.
LEMMA DfWriterIsFresh ==
  ASSUME AddsUp, NEW q \in DfRequest, dfReq[q].pc # "idle", DfTangles(q), ~dfTangled'
  PROVE  /\ ~dfReq[q].stale /\ DfKnows(dfReq[q])
         /\ \A p \in DfRequest \ {q} : dfReq[p].pc \notin {"count", "form"}
BY DEF DfTangles, DfFresh, AddsUp, FreshDfKnow, FreshIsAlone

\* Between two writes of a request the verdict says nothing, and the form is open to the State.
LEMMA FirstWritesAddUp ==
  ASSUME DfTypeOK, AddsUp, ~dfTangled', NEW q \in DfRequest,
         WriteDfVerdicts(q) \/ DeleteDfRows(q) \/ WriteDfRow(q)
  PROVE  AddsUp'
<1>0. /\ dfReq[q] \in DfReqState /\ dfForm.version \in DfNumber /\ DfActive \in [DfUlb -> DfRow]
      /\ \A u \in DfUlb : DfActive[u] \in DfRow
  BY DfActiveTyped DEF DfTypeOK
<1>1. /\ UNCHANGED dfForm /\ DfTangles(q) /\ dfReq[q].pc = "write"
      /\ dfReq[q].op \in {"revalidate", "delete", "edit"}
  BY DEF WriteDfVerdicts, DeleteDfRows, WriteDfRow
<1>2. /\ ~dfReq[q].stale /\ DfKnows(dfReq[q])
      /\ \A p \in DfRequest \ {q} : dfReq[p].pc \notin {"count", "form"}
  BY <1>1, DfWriterIsFresh
<1>3. dfReq[q].version = dfForm.version /\ ~DfSubmitted'
  BY <1>1, <1>2 DEF DfKnows, DfSubmitted
<1>4. ASSUME NEW r, DfWrites(q, r), r.pc \in {"count", "form"}, MissingTells', JudgedRight',
             DfFresh(q)' => DfKnows(dfReq[q])'
      PROVE  AddsUp'
  <2>1. HalfWay'
    BY <1>4, DfWritesOvertake DEF HalfWay
  <2>2. VerdictTells' /\ SubmittedIsValid'
    BY <1>3, <2>1 DEF VerdictTells, SubmittedIsValid
  <2>3. QED  BY <1>2, <1>4, <2>2, WriteKeepsAddsUp
<1>5. CASE WriteDfVerdicts(q)
  <2> DEFINE r == [dfReq[q] EXCEPT !.pc = "form"]
  <2>1. /\ DfWrites(q, r) /\ r.pc = "form" /\ r.op = "revalidate" /\ r.version = dfForm.version
        /\ r.file = dfReq[q].file
    BY <1>0, <1>3, <1>5 DEF WriteDfVerdicts, DfReqState
  <2> HIDE DEF r
  <2>2. dfReq[q].file = StoredFile(DfActive)
    BY <1>2, <1>5 DEF DfKnows, WriteDfVerdicts
  <2>3. ASSUME NEW u \in DfUlb
        PROVE  /\ DfActive'[u] \in DfRow /\ DfActive'[u].there = DfActive[u].there
               /\ DfActive'[u].amount = DfActive[u].amount /\ DfActive'[u].sound = DfActive[u].sound
               /\ DfActive[u].there =>
                    DfActive'[u].valid = DfValid(StoredFile(DfActive).cells[u], dfReq[q].total)
    <3>1. DfActive'[u] =
            IF DfActive[u].there /\ StoredFile(DfActive).cells[u].there
            THEN [DfActive[u] EXCEPT !.valid = DfValid(StoredFile(DfActive).cells[u], dfReq[q].total),
                                     !.flagged = FALSE]
            ELSE DfActive[u]
      BY <1>0, <1>1, <1>3, <1>5, <2>2 DEF WriteDfVerdicts, DfActive, DfTypeOK
    <3>2. DfActive[u] \in DfRow /\ StoredFile(DfActive).cells[u].there = DfActive[u].there
            /\ DfValid(StoredFile(DfActive).cells[u], dfReq[q].total) \in BOOLEAN
      BY <1>0, StoredFileTells, DfVerdictTyped
    <3> HIDE DEF DfActive
    <3>3. QED  BY <3>1, <3>2 DEF DfRow
  <2>4. DfActive' \in [DfUlb -> DfRow]
    <3>1. DfActive' = [u \in DfUlb |-> DfActive'[u]]
      BY <1>0, <1>1, <1>3, <1>5 DEF WriteDfVerdicts, DfActive, DfTypeOK
    <3>2. QED  BY <2>3, <3>1
  <2>5. StoredFile(DfActive') = StoredFile(DfActive)
    BY <1>0, <2>3, <2>4, StoredFileIsBlind
  <2>6. MissingTells'
    BY <1>1, <2>3 DEF AddsUp, MissingTells, SomeDfRow
  <2>7. JudgedRight'
    BY <1>0, <2>3, StoredFileTells DEF JudgedRight, DfValid
  <2>8. dfReq'[q] = r
    BY <2>1, DfWritesOvertake
  <2>9. DfKnows(dfReq[q])'
    BY <1>1, <1>3, <2>1, <2>2, <2>5, <2>8 DEF DfKnows
  <2>10. QED  BY <1>4, <2>1, <2>6, <2>7, <2>9
<1>6. CASE DeleteDfRows(q)
  <2> DEFINE r == [dfReq[q] EXCEPT !.pc = "form"]
  <2>1. /\ DfWrites(q, r) /\ r.pc = "form" /\ r.op = "delete" /\ r.version = dfForm.version
    BY <1>0, <1>3, <1>6 DEF DeleteDfRows, DfReqState
  <2> HIDE DEF r
  <2>2. DfActive' = NoDfRows
    BY <1>0, <1>1, <1>3, <1>6 DEF DeleteDfRows, DfActive, DfTypeOK
  <2>3. \A u \in DfUlb : ~DfActive'[u].there
    BY <2>2 DEF NoDfRows, NoDfRow
  <2>4. MissingTells' /\ JudgedRight' /\ ~SomeDfRow'
    BY <2>3 DEF MissingTells, JudgedRight, SomeDfRow
  <2>5. dfReq'[q] = r
    BY <2>1, DfWritesOvertake
  <2>6. DfKnows(dfReq[q])'
    BY <1>1, <1>3, <2>1, <2>4, <2>5 DEF DfKnows
  <2>7. QED  BY <1>4, <2>1, <2>4, <2>6
<1>7. CASE WriteDfRow(q)
  <2> DEFINE r == [dfReq[q] EXCEPT !.pc = "count"]
  <2>1. /\ DfWrites(q, r) /\ r.pc = "count" /\ r.op = "edit" /\ r.version = dfForm.version
    BY <1>0, <1>3, <1>7 DEF WriteDfRow, DfReqState
  <2> HIDE DEF r
  <2>2. SomeDfRow
    BY <1>2, <1>7 DEF DfKnows, WriteDfRow
  <2>3. ASSUME NEW u \in DfUlb
        PROVE  /\ DfActive'[u].there = DfActive[u].there
               /\ DfActive'[u].valid /\ DfActive'[u].there => DfActive'[u].sound
    <3>1. DfActive'[u] =
            IF DfActive[u].there /\ dfReq[q].file.cells[u].there
            THEN EditedDfRow(DfActive[u], dfReq[q].file.cells[u], dfReq[q].total)
            ELSE DfActive[u]
      BY <1>0, <1>1, <1>3, <1>7 DEF WriteDfRow, DfActive, DfTypeOK
    <3>2. DfActive[u] \in DfRow
      BY <1>0
    <3>3. DfActive[u].there /\ DfActive[u].valid => DfActive[u].sound
      BY DEF AddsUp, JudgedRight
    <3>4. ASSUME NEW row \in DfRow, NEW cell, NEW total
          PROVE  /\ EditedDfRow(row, cell, total).there = row.there
                 /\ EditedDfRow(row, cell, total).valid => EditedDfRow(row, cell, total).sound
      BY DEF EditedDfRow, DfRow, DfValid
    <3> HIDE DEF DfActive
    <3>5. QED  BY <3>1, <3>2, <3>3, <3>4
  <2>4. MissingTells' /\ JudgedRight' /\ SomeDfRow'
    BY <1>1, <2>2, <2>3 DEF AddsUp, MissingTells, JudgedRight, SomeDfRow
  <2>5. dfReq'[q] = r
    BY <2>1, DfWritesOvertake
  <2>6. DfKnows(dfReq[q])'
    BY <1>1, <1>3, <2>1, <2>4, <2>5 DEF DfKnows
  <2>7. QED  BY <1>4, <2>1, <2>4, <2>6
<1>8. QED  BY <1>5, <1>6, <1>7

\* The second write stores the verdict on the rows as they are.
LEMMA LastWritesAddUp ==
  ASSUME DfTypeOK, AddsUp, ~dfTangled', NEW q \in DfRequest,
         WriteDfRevalidated(q) \/ ResetDfForm(q) \/ WriteDfRecount(q)
  PROVE  AddsUp'
<1>0. /\ dfReq[q] \in DfReqState /\ dfForm \in DfForm /\ dfForm.summary \in DfSummary
      /\ DfActive \in [DfUlb -> DfRow]
  BY DfActiveTyped DEF DfTypeOK, DfForm
<1>1. /\ UNCHANGED dfRow /\ DfTangles(q) /\ DfWrites(q, IdleDfReq) /\ dfReq[q].pc = "form"
      /\ dfReq[q].op \in {"revalidate", "delete", "edit"}
  BY DEF WriteDfRevalidated, ResetDfForm, WriteDfRecount
<1>2. /\ DfKnows(dfReq[q]) /\ \A p \in DfRequest \ {q} : dfReq[p].pc \notin {"count", "form"}
  BY <1>1, DfWriterIsFresh
<1>3. dfForm'.version = dfForm.version /\ dfForm'.status = dfForm.status
  <2>1. CASE WriteDfRevalidated(q)
    BY <1>0, <2>1 DEF WriteDfRevalidated, DfForm
  <2>2. CASE ResetDfForm(q)
    BY <1>0, <2>2 DEF ResetDfForm, DfForm
  <2>3. CASE WriteDfRecount(q)
    BY <1>0, <2>3 DEF WriteDfRecount, DfForm
  <2>4. QED  BY <2>1, <2>2, <2>3
<1>4. DfActive' = DfActive
  BY <1>1, <1>3 DEF DfActive
<1>5. ~DfSubmitted'
  BY <1>1, <1>2, <1>3 DEF DfKnows, DfSubmitted
<1>6. SubmittedIsValid' /\ JudgedRight'
  BY <1>4, <1>5 DEF SubmittedIsValid, AddsUp, JudgedRight
<1>7. ~DfFresh(q)'
  BY <1>1, DfWritesOvertake DEF DfFresh, IdleDfReq
<1>8. (dfForm'.summary.verdict = "VALID" => DfMakesUp') /\ MissingTells'
  <2>1. CASE WriteDfRevalidated(q)
    <3>1. /\ dfForm'.total = dfReq[q].total /\ dfForm'.summary.missing = DfMissing(dfReq[q].file)
          /\ dfForm'.summary.verdict = DfVerdictOf(dfReq[q].file, dfReq[q].total)
      BY <1>0, <2>1 DEF WriteDfRevalidated, DfForm, DfSummary
    <3>2. dfReq[q].file = StoredFile(DfActive) /\ StoredFile(DfActive) \in DfFile
      BY <1>0, <1>2, <2>1, StoredFileTyped DEF DfKnows, WriteDfRevalidated
    <3>3. dfForm'.summary.verdict = "VALID" =>
            /\ \A u \in DfUlb : DfActive[u].there /\ DfActive[u].sound
            /\ DfSum(DfAmountsOf(DfActive)) = dfReq[q].total
      BY <1>0, <3>1, <3>2, StoredFileTells, ValidFileMakesUp
    <3>4. MissingTells'
      BY <1>0, <1>4, <3>1, <3>2, StoredFileTells DEF MissingTells, DfMissing
    <3>5. QED  BY <1>4, <3>1, <3>3, <3>4 DEF DfMakesUp
  <2>2. CASE ResetDfForm(q)
    <3>1. dfForm'.summary = DfNotValidated /\ ~SomeDfRow
      BY <1>0, <1>2, <2>2 DEF ResetDfForm, DfForm, DfKnows
    <3>2. QED  BY <1>4, <3>1 DEF DfNotValidated, MissingTells, SomeDfRow
  <2>3. CASE WriteDfRecount(q)
    <3>1. /\ dfForm'.total = dfForm.total /\ dfForm'.summary.missing = dfForm.summary.missing
          /\ dfForm'.summary.verdict = dfReq[q].verdict
      BY <1>0, <2>3 DEF WriteDfRecount, DfForm, DfSummary
    <3>2. dfReq[q].verdict = "VALID" => DfMakesUp
      BY <1>2, <2>3 DEF WriteDfRecount, DfKnows
    <3>3. QED  BY <1>4, <3>1, <3>2 DEF DfMakesUp, AddsUp, MissingTells, SomeDfRow
  <2>4. QED  BY <2>1, <2>2, <2>3
<1>9. VerdictTells'
  BY <1>8 DEF VerdictTells
<1>10. QED  BY <1>1, <1>6, <1>7, <1>8, <1>9, WriteKeepsAddsUp

\* Submits and reviews find a form that is valid, or that was submitted as such, and nobody at work on
\* its rows.
LEMMA StatusWritesAddUp ==
  ASSUME DfTypeOK, AddsUp, ~dfTangled', NEW q \in DfRequest, CommitDfSubmit(q) \/ CommitDfReview(q)
  PROVE  AddsUp'
<1>0. dfForm \in DfForm
  BY DEF DfTypeOK
<1>1. /\ UNCHANGED dfRow /\ DfTangles(q) /\ DfWrites(q, IdleDfReq) /\ dfReq[q].pc = "write"
      /\ dfReq[q].op \in {"submit", "approve", "reject"}
  BY DEF CommitDfSubmit, CommitDfReview
<1>2. /\ DfKnows(dfReq[q]) /\ \A p \in DfRequest \ {q} : dfReq[p].pc \notin {"count", "form"}
  BY <1>1, DfWriterIsFresh
<1>3. /\ dfForm'.version = dfForm.version /\ dfForm'.total = dfForm.total
      /\ dfForm'.summary = dfForm.summary
  BY <1>0 DEF CommitDfSubmit, CommitDfReview, DfForm
<1>4. DfActive' = DfActive
  BY <1>1, <1>3 DEF DfActive
<1>5. ~HalfWay /\ dfForm.summary.verdict = "VALID"
  BY <1>1, <1>2 DEF DfKnows, AddsUp, SubmittedIsValid, HalfWay
<1>6. dfReq'[q].pc = "idle" /\ \A p \in DfRequest \ {q} : dfReq'[p].pc = dfReq[p].pc
  BY <1>1, DfWritesOvertake DEF IdleDfReq
<1>7. ~HalfWay'
  BY <1>5, <1>6 DEF HalfWay
<1>8. VerdictTells' /\ SubmittedIsValid' /\ MissingTells' /\ JudgedRight'
  BY <1>3, <1>4, <1>5, <1>7
  DEF AddsUp, VerdictTells, SubmittedIsValid, MissingTells, JudgedRight, DfMakesUp, SomeDfRow
<1>9. ~DfFresh(q)'
  BY <1>6 DEF DfFresh
<1>10. QED  BY <1>1, <1>8, <1>9, WriteKeepsAddsUp

\* A draft writes to a form that is open to the State, and does not change the total of a valid one.
LEMMA DraftAddsUp ==
  ASSUME DfTypeOK, DraftsEditable, AddsUp, ~dfTangled', NEW q \in DfRequest, WriteDfDraft(q)
  PROVE  AddsUp'
<1>0. dfForm \in DfForm
  BY DEF DfTypeOK
<1>1. /\ UNCHANGED dfRow /\ dfForm'.status = "IN_PROGRESS" /\ dfForm'.version = dfForm.version
      /\ dfForm'.summary = dfForm.summary /\ dfForm'.total = dfReq[q].total
      /\ dfForm.summary.verdict = "VALID" => dfReq[q].total = dfForm.total
      /\ dfReq[q].pc = "write"
  BY <1>0 DEF WriteDfDraft, DfForm
<1>2. ~DfSubmitted /\ ~DfSubmitted'
  BY <1>1 DEF WriteDfDraft, DraftsEditable, DfSubmitted, DfStateEditable
<1>3. DfActive' = DfActive
  BY <1>1 DEF DfActive
<1>4. /\ dfReq'[q].pc = "idle" /\ \A p \in DfRequest \ {q} : dfReq'[p].pc = dfReq[p].pc
  <2>1. DfWrites(q, IdleDfReq) \/ DfEnds(q)
    BY DEF WriteDfDraft
  <2>2. QED  BY <2>1, DfWritesOvertake DEF DfEnds, DfTypeOK, IdleDfReq
<1>5. HalfWay' <=> HalfWay
  BY <1>1, <1>4 DEF HalfWay
<1>6. VerdictTells' /\ SubmittedIsValid' /\ MissingTells' /\ JudgedRight'
  BY <1>1, <1>2, <1>3, <1>5
  DEF AddsUp, VerdictTells, SubmittedIsValid, MissingTells, JudgedRight, DfMakesUp, SomeDfRow
<1>7. ~DfFresh(q)'
  BY <1>4 DEF DfFresh
<1>8. CASE dfReq[q].total # dfForm.total
  BY <1>6, <1>7, <1>8, WriteKeepsAddsUp DEF WriteDfDraft
<1>9. CASE dfReq[q].total = dfForm.total
  <2>1. \A p \in DfRequest \ {q} : dfReq'[p] = dfReq[p]
    BY <1>9 DEF WriteDfDraft, DfEnds, DfTypeOK
  <2>2. DfMakesUp' <=> DfMakesUp
    BY <1>1, <1>3, <1>9 DEF DfMakesUp
  <2>3. FreshDfKnow'
    <3> SUFFICES ASSUME NEW p \in DfRequest, DfFresh(p)'
                 PROVE  DfKnows(dfReq[p])'
      BY DEF FreshDfKnow
    <3>1. p # q /\ dfReq'[p] = dfReq[p]
      BY <1>7, <2>1
    <3>2. DfKnows(dfReq[p])
      BY <3>1 DEF DfFresh, AddsUp, FreshDfKnow
    <3>3. QED  BY <1>1, <1>2, <1>3, <2>2, <3>1, <3>2 DEF DfKnows, SomeDfRow
  <2>4. FreshIsAlone'
    BY <1>4, <1>7, <2>1 DEF AddsUp, FreshIsAlone, DfFresh
  <2>5. QED  BY <1>6, <2>3, <2>4 DEF AddsUp
<1>10. QED  BY <1>8, <1>9

\* What an upload leaves is all its own, whatever was there before.
LEMMA UploadAddsUp ==
  ASSUME DfTypeOK, DfDatasetIsWhole, NEW q \in DfRequest, ReplaceDfDataset(q)
  PROVE  AddsUp'
<1> DEFINE n == DfNextVersion(q)
           file == dfReq[q].file
<1>0. dfForm.version \in Nat /\ n = dfForm.version + 1 /\ n \in DfNumber /\ dfForm.version \in DfNumber
  BY DfAssumption DEF DfTypeOK, DfForm, DfNumber, DfNextVersion, ReplaceDfDataset
<1>1. /\ dfForm'.version = n /\ dfForm'.status = "IN_PROGRESS" /\ dfForm'.total = dfReq[q].total
      /\ dfForm'.summary.missing = DfMissing(file)
      /\ dfForm'.summary.verdict = DfVerdictOf(file, dfReq[q].total)
  BY DEF ReplaceDfDataset
<1>2. file \in DfFile /\ \A u \in DfUlb : file.cells[u] \in DfCell
  BY DEF DfTypeOK, DfReqState, DfFile
<1>3. ASSUME NEW u \in DfUlb
      PROVE  DfActive'[u] = NewDfRow(q, file.cells[u])
  <2>1. ~dfRow[n][u].there
    BY <1>0 DEF DfDatasetIsWhole
  <2>2. QED  BY <1>0, <1>1, <2>1 DEF ReplaceDfDataset, DfTypeOK, DfActive
<1>4. DfActive' \in [DfUlb -> DfRow]
  <2>1. DfActive' = [u \in DfUlb |-> DfActive'[u]]
    BY <1>0, <1>1 DEF ReplaceDfDataset, DfTypeOK, DfActive
  <2>2. QED  BY <1>2, <1>3, <2>1, NewDfRowTyped
<1>5. ASSUME NEW u \in DfUlb
      PROVE  /\ DfActive'[u].there = file.cells[u].there
             /\ file.cells[u].there =>
                  /\ DfActive'[u].amount = file.cells[u].amount
                  /\ file.cells[u].fault = "none" => DfActive'[u].sound
                  /\ DfActive'[u].valid => file.cells[u].fault = "none"
  <2>1. file.cells[u].there \in BOOLEAN
    BY <1>2 DEF DfCell
  <2>2. CASE file.cells[u].there
    <3>1. DfActive'[u] =
            [there |-> TRUE, amount |-> file.cells[u].amount, sound |-> file.cells[u].fault # "split",
             valid |-> DfValid(file.cells[u], dfReq[q].total),
             flagged |-> file.cells[u].fault = "name", from |-> dfReq[q].number]
      BY <1>3, <2>2 DEF NewDfRow
    <3>2. /\ DfActive'[u].there = TRUE /\ DfActive'[u].amount = file.cells[u].amount
          /\ DfActive'[u].sound = (file.cells[u].fault # "split")
          /\ DfActive'[u].valid = DfValid(file.cells[u], dfReq[q].total)
      BY <3>1
    <3>3. /\ file.cells[u].fault = "none" => DfActive'[u].sound
          /\ DfActive'[u].valid => file.cells[u].fault = "none"
      BY <3>2 DEF DfValid
    <3>4. QED  BY <2>1, <2>2, <3>2, <3>3
  <2>3. CASE ~file.cells[u].there
    <3>1. DfActive'[u] = NoDfRow /\ file.cells[u].there = FALSE
      BY <1>3, <2>1, <2>3 DEF NewDfRow
    <3>2. NoDfRow.there = FALSE
      BY DEF NoDfRow
    <3>3. QED  BY <2>3, <3>1, <3>2
  <2>4. QED  BY <2>2, <2>3
<1>6. ~DfSubmitted'
  BY <1>1 DEF DfSubmitted
<1>7. VerdictTells'
  <2>1. DfVerdictOf(file, dfReq[q].total) = "VALID" =>
          /\ \A u \in DfUlb : DfActive'[u].there /\ DfActive'[u].sound
          /\ DfSum(DfAmountsOf(DfActive')) = dfReq[q].total
    <3>1. \A u \in DfUlb : file.cells[u].there =>
            /\ DfActive'[u].there /\ DfActive'[u].amount = file.cells[u].amount
            /\ file.cells[u].fault = "none" => DfActive'[u].sound
      BY <1>5
    <3> HIDE DEF file, DfActive
    <3>2. QED  BY <1>2, <1>4, <3>1, ValidFileMakesUp
  <2>2. QED  BY <1>1, <2>1 DEF VerdictTells, DfMakesUp
<1>8. MissingTells' /\ JudgedRight' /\ SubmittedIsValid'
  BY <1>1, <1>5, <1>6 DEF MissingTells, DfMissing, JudgedRight, SubmittedIsValid
<1>9. DfWrites(q, IdleDfReq)
  BY DEF ReplaceDfDataset
<1>10. ~DfFresh(q)'
  BY <1>9, DfWritesOvertake DEF DfFresh, IdleDfReq
<1>11. QED  BY <1>7, <1>8, <1>9, <1>10, WriteKeepsAddsUp

\* A request that writes neither form nor rows, and is as far as it was, keeps the invariant if it
\* knows what is there.
LEMMA ReadAddsUp ==
  ASSUME AddsUp, UNCHANGED <<dfForm, dfRow>>, NEW q \in DfRequest,
         \A p \in DfRequest \ {q} : dfReq'[p] = dfReq[p],
         dfReq'[q].pc \in {"count", "form"} <=> dfReq[q].pc \in {"count", "form"},
         DfFresh(q)' => /\ DfKnows(dfReq[q])'
                        /\ \A p \in DfRequest \ {q} : dfReq[p].pc \notin {"count", "form"}
  PROVE  AddsUp'
<1>1. HalfWay' <=> HalfWay
  BY DEF HalfWay
<1>2. VerdictTells' /\ SubmittedIsValid' /\ MissingTells' /\ JudgedRight'
  BY <1>1, DfUnwritten DEF AddsUp, VerdictTells, SubmittedIsValid
<1>3. FreshDfKnow'
  <2> SUFFICES ASSUME NEW p \in DfRequest, DfFresh(p)'
               PROVE  DfKnows(dfReq[p])'
    BY DEF FreshDfKnow
  <2>1. CASE p = q
    BY <2>1
  <2>2. CASE p # q
    <3>1. dfReq'[p] = dfReq[p] /\ DfKnows(dfReq[p])
      BY <2>2 DEF DfFresh, AddsUp, FreshDfKnow
    <3>2. QED  BY <3>1, DfUnwritten DEF DfKnows
  <2>3. QED  BY <2>1, <2>2
<1>4. FreshIsAlone'
  <2> SUFFICES ASSUME NEW p \in DfRequest, NEW s \in DfRequest, DfFresh(s)',
                      dfReq'[p].pc \in {"count", "form"}
               PROVE  p = s
    BY DEF FreshIsAlone
  <2>1. dfReq[p].pc \in {"count", "form"}
    BY <1>1
  <2>2. CASE s = q
    BY <2>1, <2>2
  <2>3. CASE s # q
    BY <2>1, <2>3 DEF DfFresh, AddsUp, FreshIsAlone
  <2>4. QED  BY <2>2, <2>3
<1>5. QED  BY <1>2, <1>3, <1>4 DEF AddsUp

\* A request that begins knows what it has read, and is fresh only if none is half-way.
LEMMA DfBeginsAddsUp ==
  ASSUME DfTypeOK, DraftsEditable, NEW q \in DfRequest, NEW op \in DfOp, NEW r \in DfReqState, NEW total,
         DfBegins(q, op, r, total), r.pc = "write",
         op \in {"approve", "reject"} <=> DfSubmitted,
         op = "submit" => dfForm.summary.verdict = "VALID",
         op = "revalidate" => r.file = StoredFile(DfActive),
         op = "edit" => SomeDfRow,
         op = "draft" => dfForm.status \in DfStateEditable
  PROVE  DraftsEditable' /\ (AddsUp => AddsUp')
<1> DEFINE begun == [r EXCEPT !.op = op, !.number = dfOps + 1, !.total = total,
                              !.version = dfForm.version, !.status = dfForm.status,
                              !.stale = HalfWay]
<1>1. /\ dfReq'[q] = begun /\ dfReq[q].pc = "idle" /\ UNCHANGED <<dfForm, dfRow>>
      /\ \A p \in DfRequest \ {q} : dfReq'[p] = dfReq[p]
  BY DEF DfBegins, DfTypeOK
<1>2. /\ begun.op = op /\ begun.version = dfForm.version /\ begun.file = r.file
      /\ begun.pc = "write" /\ begun.stale = HalfWay /\ begun.status = dfForm.status
  BY DEF DfReqState
<1> HIDE DEF begun
<1>3. DfKnows(dfReq[q])'
  BY <1>1, <1>2, DfUnwritten DEF DfKnows
<1>4. DfFresh(q)' => \A p \in DfRequest : dfReq[p].pc \notin {"count", "form"}
  BY <1>1, <1>2 DEF DfFresh, HalfWay
<1>5. DraftsEditable'
  BY <1>1, <1>2 DEF DraftsEditable
<1>6. QED  BY <1>1, <1>2, <1>3, <1>4, <1>5, ReadAddsUp

\* All of them do.
LEMMA DfReadsAddUp ==
  ASSUME DfTypeOK, DraftsEditable, NEW q \in DfRequest,
         \/ ReadDfDraft(q) \/ ReadDfRevalidate(q) \/ ReadDfDelete(q) \/ ReadDfSubmit(q)
         \/ \E file \in DfFile : ReadDfUpload(q, file)
         \/ \E u \in DfUlb, amount \in DfAmount, fault \in {"none", "split"} :
              ReadDfEdit(q, u, amount, fault)
         \/ \E op \in {"approve", "reject"} : ReadDfReview(q, op)
  PROVE  DraftsEditable' /\ (AddsUp => AddsUp')
<1>0. /\ DfOp = {"draft", "upload", "revalidate", "delete", "edit", "submit", "approve", "reject"}
      /\ dfForm.status \in DfStateEditable => ~DfSubmitted
      /\ DfActive \in [DfUlb -> DfRow]
  BY DfActiveTyped DEF DfOp, DfStateEditable, DfSubmitted
<1>1. LET r == [IdleDfReq EXCEPT !.pc = "write"] IN r \in DfReqState /\ r.pc = "write"
  BY IdleDfTyped DEF DfReqState
<1>2. ASSUME NEW file \in DfFile
      PROVE  LET r == [IdleDfReq EXCEPT !.pc = "write", !.file = file]
             IN r \in DfReqState /\ r.pc = "write" /\ r.file = file
  BY IdleDfTyped DEF DfReqState
<1>3. CASE ReadDfDraft(q) \/ ReadDfDelete(q) \/ ReadDfSubmit(q)
  BY <1>0, <1>1, <1>3, DfBeginsAddsUp DEF ReadDfDraft, ReadDfDelete, ReadDfSubmit, DfSubmittable
<1>4. ASSUME NEW file \in DfFile, ReadDfUpload(q, file)
      PROVE  DraftsEditable' /\ (AddsUp => AddsUp')
  BY <1>0, <1>2, <1>4, DfBeginsAddsUp DEF ReadDfUpload
<1>5. CASE ReadDfRevalidate(q)
  <2>1. StoredFile(DfActive) \in DfFile
    BY <1>0, StoredFileTyped
  <2>2. QED  BY <1>0, <1>2, <1>5, <2>1, DfBeginsAddsUp DEF ReadDfRevalidate
<1>6. ASSUME NEW u \in DfUlb, NEW amount \in DfAmount, NEW fault \in {"none", "split"},
             ReadDfEdit(q, u, amount, fault)
      PROVE  DraftsEditable' /\ (AddsUp => AddsUp')
  <2> DEFINE r == [IdleDfReq EXCEPT !.pc = "write",
                     !.file.cells[u] = [there |-> TRUE, amount |-> amount, fault |-> fault]]
  <2>1. r \in DfReqState /\ r.pc = "write"
    BY IdleDfTyped DEF DfReqState, DfFile, DfCell, DfFault
  <2>2. DfBegins(q, "edit", r, dfForm.total) /\ SomeDfRow /\ ~DfSubmitted
    BY <1>0, <1>6 DEF ReadDfEdit, SomeDfRow
  <2> HIDE DEF r
  <2>3. QED  BY <1>0, <2>1, <2>2, DfBeginsAddsUp
<1>7. ASSUME NEW op \in {"approve", "reject"}, ReadDfReview(q, op)
      PROVE  DraftsEditable' /\ (AddsUp => AddsUp')
  BY <1>0, <1>1, <1>7, DfBeginsAddsUp DEF ReadDfReview, DfSubmitted
<1>8. QED  BY <1>3, <1>4, <1>5, <1>6, <1>7

\* A count finds the rows as they are if no other request has written since the edit; one that stops
\* half-way tangles.
LEMMA DfRestAddsUp ==
  ASSUME DfTypeOK, AddsUp, ~dfTangled', NEW q \in DfRequest, RecountDf(q) \/ DfStops(q)
  PROVE  AddsUp'
<1>0. dfReq[q] \in DfReqState /\ DfActive \in [DfUlb -> DfRow]
  BY DfActiveTyped DEF DfTypeOK
<1>1. UNCHANGED <<dfForm, dfRow>> /\ \A p \in DfRequest \ {q} : dfReq'[p] = dfReq[p]
  BY DEF RecountDf, DfStops, DfEnds, DfTypeOK
<1>2. CASE RecountDf(q)
  <2> DEFINE rows == dfRow[dfReq[q].version]
             verdict == DfVerdict(\E u \in DfUlb : rows[u].there /\ ~rows[u].valid,
                                  dfForm.summary.missing,
                                  DfSum([u \in DfUlb |->
                                    IF rows[u].there /\ rows[u].valid THEN rows[u].amount ELSE 0]),
                                  dfForm.total)
  <2>1. dfReq'[q] = [dfReq[q] EXCEPT !.pc = "form", !.verdict = verdict]
          /\ dfReq[q].pc = "count" /\ dfReq[q].op = "edit"
    BY <1>2 DEF RecountDf, DfTypeOK
  <2> HIDE DEF verdict
  <2>2. /\ dfReq'[q].pc = "form" /\ dfReq'[q].op = "edit" /\ dfReq'[q].verdict = verdict
        /\ dfReq'[q].version = dfReq[q].version /\ dfReq'[q].stale = dfReq[q].stale
    BY <1>0, <2>1 DEF DfReqState
  <2>3. ASSUME DfFresh(q)'
        PROVE  /\ DfKnows(dfReq[q])'
               /\ \A p \in DfRequest \ {q} : dfReq[p].pc \notin {"count", "form"}
    <3>1. DfFresh(q)
      BY <2>1, <2>2, <2>3 DEF DfFresh
    <3>2. /\ DfKnows(dfReq[q]) /\ SomeDfRow /\ dfReq[q].version = dfForm.version
          /\ \A p \in DfRequest \ {q} : dfReq[p].pc \notin {"count", "form"}
      BY <2>1, <3>1 DEF AddsUp, FreshDfKnow, FreshIsAlone, DfKnows
    <3>3. rows = DfActive
      BY <3>2 DEF DfActive
    <3>4. verdict = "VALID" => DfMakesUp
      <4>1. /\ \A u \in DfUlb : DfActive[u].there /\ DfActive[u].valid => DfActive[u].sound
            /\ ~dfForm.summary.missing => \A u \in DfUlb : DfActive[u].there
        BY <3>2 DEF AddsUp, JudgedRight, MissingTells
      <4> HIDE DEF rows
      <4>2. verdict = "VALID" =>
              /\ \A u \in DfUlb : DfActive[u].there /\ DfActive[u].sound
              /\ DfSum(DfAmountsOf(DfActive)) = dfForm.total
        BY <1>0, <3>3, <4>1, ValidRowsMakeUp DEF verdict
      <4>3. QED  BY <4>2 DEF DfMakesUp
    <3>5. QED  BY <1>1, <2>1, <2>2, <3>2, <3>4, DfUnwritten DEF DfKnows
  <2>4. QED  BY <1>1, <2>1, <2>2, <2>3, ReadAddsUp
<1>3. CASE DfStops(q)
  <2>1. dfReq'[q].pc = "idle" /\ dfReq[q].pc \notin {"count", "form"}
    BY <1>3 DEF DfStops, DfEnds, DfTypeOK, IdleDfReq
  <2>2. ~DfFresh(q)'
    BY <2>1 DEF DfFresh
  <2>3. QED  BY <1>1, <2>1, <2>2, ReadAddsUp
<1>4. QED  BY <1>2, <1>3

\* Drafts stay as they have read, or end.
LEMMA DraftsStayEditable ==
  ASSUME DfTypeOK, DraftsEditable, NEW q \in DfRequest,
         \/ WriteDfDraft(q) \/ ReplaceDfDataset(q) \/ WriteDfVerdicts(q) \/ WriteDfRevalidated(q)
         \/ DeleteDfRows(q) \/ ResetDfForm(q) \/ WriteDfRow(q) \/ RecountDf(q) \/ WriteDfRecount(q)
         \/ CommitDfSubmit(q) \/ CommitDfReview(q) \/ DfStops(q)
  PROVE  DraftsEditable'
<1>0. \A p \in DfRequest : dfReq[p] \in DfReqState
  BY DEF DfTypeOK
<1>1. ASSUME NEW r, DfWrites(q, r),
             \/ r.pc = "idle"
             \/ dfReq[q].pc # "idle" /\ r.op = dfReq[q].op /\ r.status = dfReq[q].status
      PROVE  DraftsEditable'
  <2> SUFFICES ASSUME NEW p \in DfRequest, dfReq'[p].pc # "idle", dfReq'[p].op = "draft"
               PROVE  dfReq'[p].status \in DfStateEditable
    BY DEF DraftsEditable
  <2>1. dfReq[p].pc # "idle" /\ dfReq'[p].op = dfReq[p].op /\ dfReq'[p].status = dfReq[p].status
    BY <1>0, <1>1 DEF DfWrites, DfOpen, DfReqState
  <2>2. QED  BY <2>1 DEF DraftsEditable
<1>2. ASSUME DfEnds(q)
      PROVE  DraftsEditable'
  BY <1>2 DEF DfEnds, DfTypeOK, IdleDfReq, DraftsEditable
<1>3. IdleDfReq.pc = "idle"
  BY DEF IdleDfReq
<1>4. CASE \/ WriteDfDraft(q) \/ ReplaceDfDataset(q) \/ WriteDfRevalidated(q) \/ ResetDfForm(q)
           \/ WriteDfRecount(q) \/ CommitDfSubmit(q) \/ CommitDfReview(q) \/ DfStops(q)
  <2>1. DfWrites(q, IdleDfReq) \/ DfEnds(q)
    BY <1>4
    DEF WriteDfDraft, ReplaceDfDataset, WriteDfRevalidated, ResetDfForm, WriteDfRecount,
        CommitDfSubmit, CommitDfReview, DfStops
  <2>2. QED  BY <1>1, <1>2, <1>3, <2>1
<1>5. ASSUME NEW pc
      PROVE  LET r == [dfReq[q] EXCEPT !.pc = pc]
             IN r.op = dfReq[q].op /\ r.status = dfReq[q].status
  BY <1>0 DEF DfReqState
<1>6. CASE WriteDfVerdicts(q) \/ DeleteDfRows(q) \/ WriteDfRow(q)
  BY <1>1, <1>5, <1>6 DEF WriteDfVerdicts, DeleteDfRows, WriteDfRow
<1>7. CASE RecountDf(q)
  <2>1. PICK verdict : dfReq' = [dfReq EXCEPT ![q].pc = "form", ![q].verdict = verdict]
    BY <1>7 DEF RecountDf
  <2>2. /\ dfReq[q].pc = "count" /\ dfReq'[q].op = dfReq[q].op /\ dfReq'[q].status = dfReq[q].status
        /\ \A p \in DfRequest \ {q} : dfReq'[p] = dfReq[p]
    BY <1>0, <1>7, <2>1 DEF RecountDf, DfTypeOK, DfReqState
  <2>3. QED  BY <2>2 DEF DraftsEditable
<1>8. QED  BY <1>4, <1>6, <1>7

\* Every step keeps the invariant: what is tangled stays so but for an upload, which needs no more than
\* whole datasets.
LEMMA DfStepsAddUp == AddsUpInv /\ [DfNext]_dfVars => AddsUpInv'
<1> SUFFICES ASSUME AddsUpInv, [DfNext]_dfVars
             PROVE  AddsUpInv'
  OBVIOUS
<1>0. /\ DfTypeOK /\ DfDatasetIsWhole /\ DraftsEditable /\ (dfTangled \/ AddsUp)
      /\ dfCast.files \subseteq DfFile
  BY DfCastsAssumption DEF AddsUpInv
<1>1. DfTypeOK' /\ (dfCast \in DfCasts)' /\ DfDatasetIsWhole'
  BY DfStepTyped, DfStepsWhole DEF AddsUpInv
<1>2. SUFFICES DraftsEditable' /\ (dfTangled' \/ AddsUp')
  BY <1>1 DEF AddsUpInv
<1>3. CASE UNCHANGED dfVars \/ GrantChanges
  <2>1. UNCHANGED <<dfForm, dfRow, dfReq, dfTangled>>
    BY <1>3 DEF dfVars, GrantChanges
  <2>2. DraftsEditable'
    BY <1>0, <2>1 DEF DraftsEditable
  <2>3. AddsUp => AddsUp'
    BY <2>1, DfUnwritten
    DEF AddsUp, VerdictTells, SubmittedIsValid, HalfWay, FreshDfKnow, FreshIsAlone, DfFresh, DfKnows
  <2>4. QED  BY <1>0, <2>1, <2>2, <2>3
<1>4. ASSUME NEW q \in DfRequest,
             \/ ReadDfDraft(q) \/ ReadDfRevalidate(q) \/ ReadDfDelete(q) \/ ReadDfSubmit(q)
             \/ \E file \in dfCast.files : ReadDfUpload(q, file)
             \/ \E u \in DfUlb, amount \in DfAmount, fault \in {"none", "split"} :
                  ReadDfEdit(q, u, amount, fault)
             \/ \E op \in {"approve", "reject"} : ReadDfReview(q, op)
      PROVE  DraftsEditable' /\ (dfTangled' \/ AddsUp')
  <2>1. UNCHANGED dfTangled
    <3>1. \A op, r, total : DfBegins(q, op, r, total) => UNCHANGED dfTangled
      BY DEF DfBegins
    <3>2. QED
      BY <1>4, <3>1
      DEF ReadDfDraft, ReadDfRevalidate, ReadDfDelete, ReadDfSubmit, ReadDfUpload, ReadDfEdit,
          ReadDfReview
  <2>2. QED  BY <1>0, <1>4, <2>1, DfReadsAddUp
<1>5. ASSUME NEW q \in DfRequest,
             \/ WriteDfDraft(q) \/ WriteDfVerdicts(q) \/ WriteDfRevalidated(q) \/ DeleteDfRows(q)
             \/ ResetDfForm(q) \/ WriteDfRow(q) \/ RecountDf(q) \/ WriteDfRecount(q)
             \/ CommitDfSubmit(q) \/ CommitDfReview(q) \/ DfStops(q)
      PROVE  DraftsEditable' /\ (dfTangled' \/ AddsUp')
  <2>1. dfTangled => dfTangled'
    BY <1>5
    DEF WriteDfDraft, WriteDfVerdicts, WriteDfRevalidated, DeleteDfRows, ResetDfForm, WriteDfRow,
        RecountDf, WriteDfRecount, CommitDfSubmit, CommitDfReview, DfStops, DfTangles
  <2>2. ~dfTangled' => AddsUp'
    BY <1>0, <1>5, <2>1, DraftAddsUp, FirstWritesAddUp, LastWritesAddUp, StatusWritesAddUp, DfRestAddsUp
  <2>3. QED  BY <1>0, <1>5, <2>2, DraftsStayEditable
<1>6. ASSUME NEW q \in DfRequest, ReplaceDfDataset(q)
      PROVE  DraftsEditable' /\ (dfTangled' \/ AddsUp')
  BY <1>0, <1>6, DraftsStayEditable, UploadAddsUp
<1>7. QED  BY <1>3, <1>4, <1>5, <1>6 DEF DfNext

\* A form that was submitted has a sound row for every ULB, and these make up the allocation it was
\* validated against, after any uploads, edits, revalidations, deletions, drafts and reviews, until
\* requests get entangled or a draft takes over a grant that changed, and again from the next upload on.
THEOREM AllocationAddsUp == DfSpec => []DfAddsUpUnlessTangled
<1>1. DfInit => AddsUpInv
  <2> SUFFICES ASSUME DfInit
               PROVE  AddsUpInv
    OBVIOUS
  <2>1. \A u \in DfUlb : ~DfActive[u].there
    BY DfAssumption DEF DfInit, DfActive, DfNumber, NoDfRows, NoDfRow
  <2>2. \A q \in DfRequest : dfReq[q].pc = "idle"
    BY DEF DfInit, IdleDfReq
  <2>3. DfDatasetIsWhole
    BY DEF DfInit, DfDatasetIsWhole, NoDfRows, NoDfRow
  <2>4. VerdictTells /\ SubmittedIsValid /\ MissingTells /\ JudgedRight
    BY <2>1
    DEF DfInit, VerdictTells, SubmittedIsValid, MissingTells, JudgedRight, DfNotValidated, DfSubmitted,
        SomeDfRow
  <2>5. DraftsEditable /\ FreshDfKnow /\ FreshIsAlone
    BY <2>2 DEF DraftsEditable, FreshDfKnow, FreshIsAlone, DfFresh
  <2>6. QED  BY <2>3, <2>4, <2>5, DfInitTyped DEF DfInit, AddsUpInv, AddsUp
<1>2. AddsUpInv => DfAddsUpUnlessTangled
  <2> SUFFICES ASSUME AddsUp, DfSubmitted
               PROVE  DfMakesUp
    BY DEF AddsUpInv, DfAddsUpUnlessTangled, DfBalanced, DfMakesUp
  <2>1. QED  BY DEF AddsUp, SubmittedIsValid, VerdictTells
<1>3. QED  BY <1>1, <1>2, DfStepsAddUp, PTL DEF DfSpec
=============================================================================

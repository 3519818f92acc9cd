-------------------------- MODULE ReviewedForms_proofs --------------------------
(***************************************************************************)
(* Theorems about Request Exemption and the SFC Status form, for any number *)
(* of filings, decisions, saves, submits and reviewers and any forms; about *)
(* the FC unspent declaration, for any ULBs, any number of requests and     *)
(* reviewers, and any overlap of their transactions; and that what is       *)
(* proved of each reviewed form holds of them side by side.                 *)
(***************************************************************************)
EXTENDS ReviewedForms, ElectedBodies_proofs, DevolutionFormula_proofs, FiniteSetTheorems

-----------------------------------------------------------------------------
(* Exemptions and the SFC form: types                                      *)

\* The initial states are well typed.
LEMMA InitTyped == StateFormsInit => StateFormsTypeOK
BY ExemptionAssumption
DEF StateFormsInit, EStoreInit, ExemptionInit, SfcInit, StateFormsTypeOK, EStoreTypeOK,
    ExemptionTypeOK, SfcTypeOK, ExemptionDoc, Entry, NoEntry, NoData, LogRow, SfcStatuses,
    FilingState, IdleFiling, DecisionState, IdleDecision, ChangeState, IdleChange, ReviewState,
    IdleReview, Rejected, SfcRow

\* The statuses and rows a step may write are of their types.
LEMMA ConstantsTyped ==
  /\ NoEntry \in Entry /\ NoData \in [FormId -> Entry]
  /\ IdleFiling \in FilingState /\ IdleDecision \in DecisionState
  /\ IdleChange \in ChangeState /\ IdleReview \in ReviewState
  /\ [IdleFiling EXCEPT !.pc = "done"] \in FilingState
  /\ [IdleDecision EXCEPT !.pc = "done"] \in DecisionState
  /\ [IdleChange EXCEPT !.pc = "done"] \in ChangeState
BY ExemptionAssumption
DEF Entry, NoEntry, NoData, FilingState, IdleFiling, DecisionState, IdleDecision, ChangeState,
    IdleChange, ReviewState, IdleReview, SfcStatuses, Rejected

\* Every step of a filing or a decision keeps the types.
LEMMA ExemptionStepTyped ==
  ASSUME StateFormsTypeOK, ExemptionStep, UNCHANGED fvars
  PROVE  StateFormsTypeOK'
<1> USE ConstantsTyped DEF StateFormsTypeOK, EStoreTypeOK, ExemptionTypeOK, fvars
<1>0. SfcTypeOK'  BY DEF SfcTypeOK
<1>1. ASSUME NEW r \in Filing, NEW F \in SUBSET FormId, ReadExisting(r, F)
      PROVE  StateFormsTypeOK'
  <2>1. filing' \in [Filing -> FilingState]
    <3>1. \A d \in Docs : /\ d \in Filing
                         /\ exemption[d].data \in [FormId -> Entry]
                         /\ exemption[d].updatedAt \in Nat
      BY DEF Docs, ExemptionDoc
    <3>2. CASE \E d \in Docs : filing' = [filing EXCEPT ![r] =
                 [pc |-> "check", forms |-> F, on |-> d, data |-> exemption[d].data,
                  updatedAt |-> exemption[d].updatedAt]]
      BY <3>1, <3>2 DEF FilingState
    <3>3. CASE filing' = [filing EXCEPT ![r] = [IdleFiling EXCEPT !.pc = "check", !.forms = F]]
      BY <3>3 DEF FilingState, IdleFiling
    <3>4. QED  BY <1>1, <3>2, <3>3 DEF ReadExisting
  <2>2. QED  BY <1>0, <1>1, <2>1 DEF ReadExisting, estore
<1>2. ASSUME NEW r \in Filing, CheckTargets(r)
      PROVE  StateFormsTypeOK'
  <2>1. filing' \in [Filing -> FilingState]
    <3>1. [filing[r] EXCEPT !.pc = "write"] \in FilingState
      BY DEF FilingState
    <3>2. QED  BY <1>2, <3>1 DEF CheckTargets, FilingEnd
  <2>2. QED  BY <1>0, <1>2, <2>1 DEF CheckTargets, estore
<1>3. ASSUME NEW r \in Filing, WriteFiling(r)
      PROVE  StateFormsTypeOK'
  <2>1. Merged(r) \in [FormId -> Entry]
    BY DEF Merged, Entry, FilingState
  <2>2. filing' \in [Filing -> FilingState]
    BY <1>3 DEF WriteFiling, FilingEnd
  <2>3. CASE FilingFits(r)
    <3>1. exemption' \in [Filing -> ExemptionDoc]
      <4>1. Document(r) \in Filing
        BY DEF Document, FilingState
      <4>2. [exists |-> TRUE, data |-> Merged(r),
             updatedAt |-> exemption[Document(r)].updatedAt + 1] \in ExemptionDoc
        BY <2>1, <4>1 DEF ExemptionDoc
      <4>3. QED  BY <1>3, <2>3, <4>1, <4>2 DEF WriteFiling
    <3>2. log' \in [FormId -> Seq(LogRow)]
      <4>1. SubmittedRow(r) \in LogRow
        BY DEF SubmittedRow, LogRow
      <4>2. \A f \in FormId : Append(log[f], SubmittedRow(r)) \in Seq(LogRow)
        BY <4>1
      <4>3. log' = [f \in FormId |->
              IF f \in filing[r].forms THEN Append(log[f], SubmittedRow(r)) ELSE log[f]]
        BY <1>3, <2>3 DEF WriteFiling
      <4>4. log \in [FormId -> Seq(LogRow)]
        OBVIOUS
      <4> HIDE DEF EStoreTypeOK, ExemptionTypeOK, StateFormsTypeOK
      <4>5. QED  BY ONLY <4>2, <4>3, <4>4
    <3>3. QED  BY <1>0, <1>3, <2>2, <3>1, <3>2 DEF WriteFiling
  <2>4. CASE ~FilingFits(r)
    BY <1>0, <1>3, <2>2, <2>4 DEF WriteFiling
  <2>5. QED  BY <2>3, <2>4
<1>4. ASSUME NEW q \in Decision, NEW d \in Filing, NEW f \in FormId, NEW v \in {Approved, Rejected},
             ReadPending(q, d, f, v)
      PROVE  StateFormsTypeOK'
  BY <1>0, <1>4 DEF ReadPending, estore, DecisionState
<1>5. ASSUME NEW q \in Decision, CheckSection(q)
      PROVE  StateFormsTypeOK'
  <2>1. [decision[q] EXCEPT !.pc = "write"] \in DecisionState
    BY DEF DecisionState
  <2>2. QED  BY <1>0, <1>5, <2>1 DEF CheckSection, DecisionEnd, estore
<1>6. ASSUME NEW q \in Decision, WriteDecision(q)
      PROVE  StateFormsTypeOK'
  <2>1. decision' \in [Decision -> DecisionState]
    BY <1>6 DEF WriteDecision, DecisionEnd
  <2>2. /\ decision[q].form \in FormId
        /\ decision[q].verdict \in {Approved, Rejected}
    BY DEF DecisionState
  <2>3. CASE StillPending(q)
    <3> DEFINE d == decision[q].on
    <3>1. exemption' \in [Filing -> ExemptionDoc]
      <4>1. ASSUME d \in Filing
            PROVE  [exists |-> TRUE, data |-> Decided(q), updatedAt |-> exemption[d].updatedAt + 1]
                     \in ExemptionDoc
        <5>1. Decided(q) \in [FormId -> Entry]
          BY <2>2, <4>1 DEF Decided, ExemptionDoc, Entry
        <5>2. QED  BY <4>1, <5>1 DEF ExemptionDoc
      <4>2. QED  BY <1>6, <2>3, <4>1 DEF WriteDecision
    <3>2. log' \in [FormId -> Seq(LogRow)]
      <4>1. DecidedRow(q) \in LogRow
        BY DEF DecidedRow, LogRow
      <4>2. Append(log[decision[q].form], DecidedRow(q)) \in Seq(LogRow)
        BY <2>2, <4>1
      <4>3. QED  BY <1>6, <2>2, <2>3, <4>2 DEF WriteDecision
    <3>3. QED  BY <1>0, <1>6, <2>1, <3>1, <3>2 DEF WriteDecision
  <2>4. CASE ~StillPending(q)
    BY <1>0, <1>6, <2>1, <2>4 DEF WriteDecision
  <2>5. QED  BY <2>3, <2>4
<1>7. QED  BY <1>1, <1>2, <1>3, <1>4, <1>5, <1>6 DEF ExemptionStep

\* Every step of the SFC form keeps the types.
LEMMA SfcStepTyped ==
  ASSUME StateFormsTypeOK, SfcStep, UNCHANGED xvars
  PROVE  StateFormsTypeOK'
<1> USE ConstantsTyped DEF StateFormsTypeOK, EStoreTypeOK, SfcTypeOK, xvars, estore
<1>0. ExemptionTypeOK'  BY DEF ExemptionTypeOK
<1>1. ASSUME NEW q \in Saver \cup Submitter,
             Begin(q) \/ ReadForm(q) \/ Recheck(q)
      PROVE  StateFormsTypeOK'
  <2>1. change' \in [Saver \cup Submitter -> ChangeState]
    <3>1. \A pc \in {"read", "write"} : [change[q] EXCEPT !.pc = pc] \in ChangeState
      BY DEF ChangeState
    <3>2. [pc |-> IF q \in Saver THEN "write" ELSE "recheck", from |-> sfc.status] \in ChangeState
      BY DEF ChangeState
    <3>3. QED  BY <1>1, <3>1, <3>2 DEF Begin, ReadForm, Recheck, ChangeEnd, ChangeGoto
  <2>2. QED  BY <1>0, <1>1, <2>1 DEF Begin, ReadForm, Recheck
<1>2. ASSUME NEW q \in Saver \cup Submitter, WriteForm(q)
      PROVE  StateFormsTypeOK'
  <2>1. change' \in [Saver \cup Submitter -> ChangeState]
    <3>1. [change[q] EXCEPT !.pc = "history"] \in ChangeState
      BY DEF ChangeState
    <3>2. QED  BY <1>2, <3>1 DEF WriteForm, LostRace, ChangeEnd, ChangeGoto
  <2>2. Target(q) \in SfcStatuses
    BY DEF Target, SfcStatuses
  <2>3. [from |-> sfc.status, to |-> Target(q), by |-> q] \in SfcRow
    BY <2>2 DEF SfcRow
  <2>4. QED  BY <1>0, <1>2, <2>1, <2>2, <2>3 DEF WriteForm
<1>3. ASSUME NEW q \in Saver \cup Submitter, WriteHistory(q)
      PROVE  StateFormsTypeOK'
  <2>1. Target(q) \in SfcStatuses
    BY DEF Target, SfcStatuses
  <2>2. [from |-> change[q].from, to |-> Target(q), by |-> q] \in SfcRow
    BY <2>1 DEF SfcRow, ChangeState
  <2>3. QED  BY <1>0, <1>3, <2>2 DEF WriteHistory, ChangeEnd
<1>4. ASSUME NEW p \in Reviewer, NEW to \in {"UNDER_REVIEW_BY_MOHUA", "RETURNED_BY_PMU"},
             ReadReview(p, to)
      PROVE  StateFormsTypeOK'
  BY <1>0, <1>4 DEF ReadReview, ReviewState, SfcStatuses
<1>5. ASSUME NEW p \in Reviewer, TransitionForm(p)
      PROVE  StateFormsTypeOK'
  BY <1>0, <1>5 DEF TransitionForm, ReviewState
<1>6. ASSUME NEW p \in Reviewer, WriteReviewHistory(p)
      PROVE  StateFormsTypeOK'
  BY <1>0, <1>6 DEF WriteReviewHistory, ReviewState, SfcRow, SfcStatuses
<1>7. ASSUME NEW p \in Reviewer, LoseReviewHistory(p)
      PROVE  StateFormsTypeOK'
  BY <1>0, <1>7 DEF LoseReviewHistory
<1>8. QED  BY <1>1, <1>2, <1>3, <1>4, <1>5, <1>6, <1>7 DEF SfcStep

\* Every reachable state is well typed: a form has only the statuses of its own life.
THEOREM FormsTypeCorrect == StateFormsSpec => []StateFormsTypeOK
<1>1. StateFormsTypeOK /\ [StateFormsNext]_formVars => StateFormsTypeOK'
  <2>1. ASSUME StateFormsTypeOK, UNCHANGED formVars
        PROVE  StateFormsTypeOK'
    BY <2>1 DEF formVars, estore, xvars, fvars, StateFormsTypeOK, EStoreTypeOK, ExemptionTypeOK,
                SfcTypeOK
  <2>2. QED  BY <2>1, ExemptionStepTyped, SfcStepTyped DEF StateFormsNext
<1>2. QED  BY <1>1, InitTyped, PTL DEF StateFormsSpec

-----------------------------------------------------------------------------
(* Exemptions and the SFC form: rows and entries                           *)

IsLastFiled(s, i) ==
  s[i].action = "SUBMITTED" /\ \A j \in DOMAIN s : s[j].action = "SUBMITTED" => j <= i

\* The rows s of a form say that its entry is e.
Tells(s, e) ==
  IF s = <<>> THEN e = NoEntry
  ELSE /\ e.status = StatusAfter(s[Len(s)].action)
       /\ \E i \in DOMAIN s : IsLastFiled(s, i) /\ e.by = s[i].by

\* A SUBMITTED row tells of the filing that wrote it, whatever was there before.
LEMMA TellsSubmitted ==
  ASSUME NEW s \in Seq(LogRow), NEW r \in Filing
  PROVE  Tells(Append(s, [action |-> "SUBMITTED", by |-> r]), [status |-> Pending, by |-> r])
<1> DEFINE t == Append(s, [action |-> "SUBMITTED", by |-> r])
<1>1. [action |-> "SUBMITTED", by |-> r] \in LogRow  BY DEF LogRow
<1>2. /\ t \in Seq(LogRow) /\ Len(t) = Len(s) + 1 /\ DOMAIN t = 1 .. Len(s) + 1
      /\ t[Len(s) + 1] = [action |-> "SUBMITTED", by |-> r]
  BY <1>1
<1>3. t # <<>> /\ Len(s) + 1 \in DOMAIN t  BY <1>2
<1>4. IsLastFiled(t, Len(s) + 1)  BY <1>2 DEF IsLastFiled
<1>5. QED  BY <1>2, <1>3, <1>4 DEF Tells, StatusAfter

\* A row of a decision tells of its verdict on the same filing.
LEMMA TellsDecided ==
  ASSUME NEW s \in Seq(LogRow), NEW e \in Entry, s # <<>>, Tells(s, e),
         NEW what \in {"APPROVED", "RETURNED"}
  PROVE  Tells(Append(s, [action |-> what, by |-> NoFiling]),
               [status |-> StatusAfter(what), by |-> e.by])
<1> DEFINE t == Append(s, [action |-> what, by |-> NoFiling])
<1>1. [action |-> what, by |-> NoFiling] \in LogRow  BY DEF LogRow
<1>2. /\ t \in Seq(LogRow) /\ Len(t) = Len(s) + 1 /\ DOMAIN t = 1 .. Len(s) + 1
      /\ t[Len(s) + 1] = [action |-> what, by |-> NoFiling]
      /\ \A j \in DOMAIN s : t[j] = s[j]
  BY <1>1
<1>3. PICK i \in DOMAIN s : IsLastFiled(s, i) /\ e.by = s[i].by  BY DEF Tells
<1>4. i \in DOMAIN t /\ IsLastFiled(t, i) /\ e.by = t[i].by
  <2>1. DOMAIN s = 1 .. Len(s)  OBVIOUS
  <2>2. \A j \in DOMAIN t : t[j].action = "SUBMITTED" => j \in DOMAIN s
    BY <1>2, <2>1
  <2>3. QED  BY <1>2, <1>3, <2>1, <2>2 DEF IsLastFiled
<1>5. t # <<>>  BY <1>2
<1>6. QED  BY <1>2, <1>4, <1>5 DEF Tells

\* What Tells says is what LogTellsEntries says.
LEMMA TellsEntry ==
  ASSUME NEW f \in FormId, log[f] \in Seq(LogRow), NEW e \in Entry, Tells(log[f], e)
  PROVE  e = IF log[f] = <<>> THEN NoEntry
             ELSE [status |-> StatusAfter(log[f][Len(log[f])].action), by |-> LastFiled(f)]
<1>1. CASE log[f] = <<>>  BY <1>1 DEF Tells
<1>2. CASE log[f] # <<>>
  <2> DEFINE rows == {i \in DOMAIN log[f] : log[f][i].action = "SUBMITTED"}
             last == CHOOSE i \in rows : \A j \in rows : j <= i
  <2>1. PICK i \in rows : (\A j \in rows : j <= i) /\ e.by = log[f][i].by
    BY <1>2 DEF Tells, IsLastFiled
  <2>2. last \in rows /\ \A j \in rows : j <= last
    BY <2>1
  <2>3. rows \subseteq Nat
    OBVIOUS
  <2>4. last = i
    BY <2>1, <2>2, <2>3
  <2>5. LastFiled(f) = e.by
    BY <2>1, <2>4 DEF LastFiled
  <2>6. QED  BY <1>2, <2>5 DEF Tells, Entry
<1>3. QED  BY <1>1, <1>2

-----------------------------------------------------------------------------
(* Exemptions: the inductive invariant                                     *)

\* The log tells the document, and there is no log without one.
LogInv ==
  /\ \A d \in Docs, f \in FormId : Tells(log[f], exemption[d].data[f])
  /\ Docs = {} => \A f \in FormId : log[f] = <<>>

\* A filing under way knows a document, and its entries as long as nobody has written it.
FilingInv(r) ==
  filing[r].pc \in {"check", "write"} =>
    /\ filing[r].forms # {}
    /\ filing[r].on = NoFiling => filing[r].data = NoData
    /\ \A f \in filing[r].forms : filing[r].data[f].status \in {"NONE", Rejected}
    /\ filing[r].on # NoFiling =>
         /\ filing[r].on \in Docs
         /\ filing[r].updatedAt <= exemption[filing[r].on].updatedAt
         /\ filing[r].updatedAt = exemption[filing[r].on].updatedAt
              => filing[r].data = exemption[filing[r].on].data

DecisionInv(q) == decision[q].pc \in {"check", "write"} => decision[q].on \in Docs

ExemptionInv ==
  /\ OneRequestDocument
  /\ LogInv
  /\ \A r \in Filing : FilingInv(r)
  /\ \A q \in Decision : DecisionInv(q)

\* Nothing has been asked for: the invariant holds.
LEMMA InitExemptionInv == StateFormsInit => ExemptionInv
<1> SUFFICES ASSUME StateFormsInit  PROVE ExemptionInv
  OBVIOUS
<1>1. Docs = {}  BY DEF Docs, StateFormsInit, EStoreInit
<1>2. \A r \in Filing : filing[r].pc = "idle"
  BY DEF StateFormsInit, ExemptionInit, IdleFiling
<1>3. \A q \in Decision : decision[q].pc = "idle"
  BY DEF StateFormsInit, ExemptionInit, IdleDecision
<1>4. \A f \in FormId : log[f] = <<>>
  BY DEF StateFormsInit, EStoreInit
<1>5. QED
  BY <1>1, <1>2, <1>3, <1>4
  DEF ExemptionInv, OneRequestDocument, LogInv, FilingInv, DecisionInv

\* What a write of document d does for everybody else: d keeps existing, and is never again at a
\* count of writes somebody has read.
LEMMA WriteKeepsReaders ==
  ASSUME StateFormsTypeOK, NEW d \in Filing, NEW entries,
         exemption' = [exemption EXCEPT ![d] =
           [exists |-> TRUE, data |-> entries, updatedAt |-> @.updatedAt + 1]]
  PROVE  /\ Docs' = Docs \cup {d}
         /\ \A r \in Filing : FilingInv(r) /\ filing'[r] = filing[r] => FilingInv(r)'
         /\ \A q \in Decision : DecisionInv(q) /\ decision'[q] = decision[q] => DecisionInv(q)'
<1>1. \A e \in Filing : exemption[e].updatedAt \in Nat
  BY DEF StateFormsTypeOK, EStoreTypeOK, ExemptionDoc
<1>2. /\ exemption'[d].exists /\ exemption'[d].updatedAt = exemption[d].updatedAt + 1
      /\ \A e \in Filing : e # d => exemption'[e] = exemption[e]
  BY DEF StateFormsTypeOK, EStoreTypeOK
<1>3. Docs' = Docs \cup {d}
  BY <1>2 DEF Docs
<1>4. ASSUME NEW r \in Filing, FilingInv(r), filing'[r] = filing[r]
      PROVE  FilingInv(r)'
  <2>1. filing[r].updatedAt \in Nat /\ filing[r].on \in Filing \cup {NoFiling}
    BY DEF StateFormsTypeOK, ExemptionTypeOK, FilingState
  <2>2. CASE filing[r].on = d
    BY <1>1, <1>2, <1>3, <1>4, <2>1, <2>2 DEF FilingInv
  <2>3. CASE filing[r].on # d
    BY <1>1, <1>2, <1>3, <1>4, <2>1, <2>3 DEF FilingInv
  <2>4. QED  BY <2>2, <2>3
<1>5. \A q \in Decision : DecisionInv(q) /\ decision'[q] = decision[q] => DecisionInv(q)'
  BY <1>3 DEF DecisionInv
<1>6. QED  BY <1>3, <1>4, <1>5

\* A step that does not touch the document and its log keeps what it does not read.
LEMMA NoWriteKeeps ==
  ASSUME ExemptionInv, UNCHANGED <<exemption, log>>
  PROVE  /\ OneRequestDocument' /\ LogInv' /\ Docs' = Docs
         /\ \A r \in Filing : filing'[r] = filing[r] => FilingInv(r)'
         /\ \A q \in Decision : decision'[q] = decision[q] => DecisionInv(q)'
BY DEF ExemptionInv, OneRequestDocument, LogInv, FilingInv, DecisionInv, Docs

\* When a filing fits, it writes the document there is, or the first one, and the entries it
\* replaces can be filed.
LEMMA FittingFiling ==
  ASSUME StateFormsTypeOK, ExemptionInv, NEW r \in Filing, filing[r].pc = "write", FilingFits(r)
  PROVE  /\ Document(r) \in Filing /\ Docs \subseteq {Document(r)}
         /\ \A f \in FormId : Tells(log[f], filing[r].data[f])
         /\ \A f \in filing[r].forms : filing[r].data[f].status \in {"NONE", Rejected}
         /\ filing[r].forms # {} /\ filing[r].forms \subseteq FormId
         /\ filing[r].data \in [FormId -> Entry]
<1>1. FilingInv(r)  BY DEF ExemptionInv
<1>2. /\ filing[r].on \in Filing \cup {NoFiling} /\ filing[r].forms \subseteq FormId
      /\ filing[r].data \in [FormId -> Entry]
  BY DEF StateFormsTypeOK, ExemptionTypeOK, FilingState
<1>3. CASE filing[r].on = NoFiling
  <2>1. Docs = {} /\ filing[r].data = NoData
    BY <1>1, <1>3 DEF FilingFits, FilingInv
  <2>2. \A f \in FormId : Tells(log[f], filing[r].data[f])
    BY <2>1 DEF ExemptionInv, LogInv, Tells, NoData
  <2>3. QED  BY <1>1, <1>2, <1>3, <2>1, <2>2 DEF FilingInv, Document
<1>4. CASE filing[r].on # NoFiling
  <2>1. filing[r].on \in Docs /\ filing[r].data = exemption[filing[r].on].data
    BY <1>1, <1>4 DEF FilingFits, FilingInv
  <2>2. \A f \in FormId : Tells(log[f], filing[r].data[f])
    BY <2>1 DEF ExemptionInv, LogInv
  <2>3. Docs \subseteq {filing[r].on}
    BY <2>1 DEF ExemptionInv, OneRequestDocument
  <2>4. QED  BY <1>1, <1>2, <1>4, <2>1, <2>2, <2>3 DEF FilingInv, Document
<1>5. QED  BY <1>3, <1>4

\* When a decision still finds the entry pending, the document is the one there is, and the last row
\* of the form is a filing.
LEMMA FittingDecision ==
  ASSUME StateFormsTypeOK, ExemptionInv, NEW q \in Decision, decision[q].pc = "write",
         StillPending(q)
  PROVE  /\ decision[q].on \in Docs /\ Docs = {decision[q].on}
         /\ decision[q].form \in FormId /\ decision[q].verdict \in {Approved, Rejected}
         /\ log[decision[q].form] # <<>>
         /\ log[decision[q].form][Len(log[decision[q].form])].action = "SUBMITTED"
<1> DEFINE f == decision[q].form
           d == decision[q].on
<1>1. d \in Docs /\ Docs = {d}
  BY DEF ExemptionInv, DecisionInv, OneRequestDocument
<1>2. f \in FormId /\ decision[q].verdict \in {Approved, Rejected}
  BY DEF StateFormsTypeOK, ExemptionTypeOK, DecisionState
<1>3. Tells(log[f], exemption[d].data[f]) /\ exemption[d].data[f].status = Pending
  BY <1>1, <1>2 DEF ExemptionInv, LogInv, StillPending
<1>4. log[f] # <<>>
  BY <1>3 DEF Tells, NoEntry, Pending
<1>5. log[f][Len(log[f])] \in LogRow
  <2>1. log[f] \in Seq(LogRow)
    BY <1>2 DEF StateFormsTypeOK, EStoreTypeOK
  <2>2. Len(log[f]) \in 1 .. Len(log[f])
    BY <1>4, <2>1
  <2>3. QED  BY <2>1, <2>2
<1>6. StatusAfter(log[f][Len(log[f])].action) = Pending
  BY <1>3, <1>4 DEF Tells
<1>7. log[f][Len(log[f])].action = "SUBMITTED"
  BY <1>5, <1>6 DEF StatusAfter, LogRow, Pending, Approved, Rejected
<1>8. QED  BY <1>1, <1>2, <1>4, <1>7

\* Every step of a filing or a decision keeps the invariant.
LEMMA ExemptionStepKeepsInv ==
  ASSUME StateFormsTypeOK, ExemptionInv, ExemptionStep, UNCHANGED fvars
  PROVE  ExemptionInv'
<1>1. ASSUME NEW r \in Filing, NEW F \in SUBSET FormId, ReadExisting(r, F)
      PROVE  ExemptionInv'
  <2>1. UNCHANGED <<exemption, log>> /\ decision' = decision
    BY <1>1 DEF ReadExisting, estore
  <2>2. \A s \in Filing : s # r => filing'[s] = filing[s]
    BY <1>1 DEF ReadExisting, StateFormsTypeOK, ExemptionTypeOK
  <2>3. FilingInv(r)'
    <3>1. CASE \E d \in Docs :
                 /\ \A f \in F : exemption[d].data[f].status \in {"NONE", Rejected}
                 /\ filing' = [filing EXCEPT ![r] =
                      [pc |-> "check", forms |-> F, on |-> d, data |-> exemption[d].data,
                       updatedAt |-> exemption[d].updatedAt]]
      <4>1. PICK d \in Docs :
              /\ \A f \in F : exemption[d].data[f].status \in {"NONE", Rejected}
              /\ filing'[r] = [pc |-> "check", forms |-> F, on |-> d, data |-> exemption[d].data,
                               updatedAt |-> exemption[d].updatedAt]
        BY <3>1 DEF StateFormsTypeOK, ExemptionTypeOK
      <4>2. d \in Filing /\ d # NoFiling /\ exemption[d].updatedAt \in Nat /\ Docs' = Docs
        BY <2>1, ExemptionAssumption DEF Docs, StateFormsTypeOK, EStoreTypeOK, ExemptionDoc
      <4>3. QED  BY <1>1, <2>1, <4>1, <4>2 DEF FilingInv, ReadExisting
    <3>2. CASE filing' = [filing EXCEPT ![r] = [IdleFiling EXCEPT !.pc = "check", !.forms = F]]
      <4>1. filing'[r] = [pc |-> "check", forms |-> F, on |-> NoFiling, data |-> NoData,
                         updatedAt |-> 0]
        BY <3>2 DEF StateFormsTypeOK, ExemptionTypeOK, IdleFiling
      <4>2. \A f \in F : NoData[f].status = "NONE"
        BY DEF NoData, NoEntry
      <4>3. QED  BY <1>1, <4>1, <4>2 DEF FilingInv, ReadExisting
    <3>3. QED  BY <1>1, <3>1, <3>2 DEF ReadExisting
  <2>4. QED  BY <2>1, <2>2, <2>3, NoWriteKeeps DEF ExemptionInv
<1>2. ASSUME NEW r \in Filing, CheckTargets(r)
      PROVE  ExemptionInv'
  <2>1. UNCHANGED <<exemption, log>> /\ decision' = decision
    BY <1>2 DEF CheckTargets, estore
  <2>2. \A s \in Filing : s # r => filing'[s] = filing[s]
    BY <1>2 DEF CheckTargets, FilingEnd, StateFormsTypeOK, ExemptionTypeOK
  <2>3. \/ filing'[r].pc = "done"
        \/ filing'[r] = [filing[r] EXCEPT !.pc = "write"]
    BY <1>2 DEF CheckTargets, FilingEnd, IdleFiling, StateFormsTypeOK, ExemptionTypeOK, FilingState
  <2>4. FilingInv(r)'
    BY <1>2, <2>1, <2>3
    DEF FilingInv, CheckTargets, ExemptionInv, Docs, StateFormsTypeOK, ExemptionTypeOK, FilingState
  <2>5. QED  BY <2>1, <2>2, <2>4, NoWriteKeeps DEF ExemptionInv
<1>3. ASSUME NEW r \in Filing, WriteFiling(r)
      PROVE  ExemptionInv'
  <2>1. /\ decision' = decision
        /\ \A s \in Filing : s # r => filing'[s] = filing[s]
        /\ filing'[r].pc = "done"
    BY <1>3 DEF WriteFiling, FilingEnd, IdleFiling, StateFormsTypeOK, ExemptionTypeOK
  <2>2. FilingInv(r)'
    BY <2>1 DEF FilingInv
  <2>3. CASE FilingFits(r)
    <3> DEFINE d == Document(r)
    <3>1. /\ exemption' = [exemption EXCEPT ![d] =
               [exists |-> TRUE, data |-> Merged(r), updatedAt |-> @.updatedAt + 1]]
          /\ log' = [f \in FormId |->
               IF f \in filing[r].forms THEN Append(log[f], SubmittedRow(r)) ELSE log[f]]
          /\ filing[r].pc = "write"
      BY <1>3, <2>3 DEF WriteFiling
    <3>2. /\ d \in Filing /\ Docs \subseteq {d}
          /\ \A f \in FormId : Tells(log[f], filing[r].data[f])
      BY <2>3, <3>1, FittingFiling
    <3>3. /\ Docs' = {d}
          /\ \A s \in Filing : s # r => FilingInv(s)'
          /\ \A q \in Decision : DecisionInv(q)'
      BY <2>1, <3>1, <3>2, WriteKeepsReaders DEF ExemptionInv
    <3>4. ASSUME NEW f \in FormId
          PROVE  Tells(log'[f], Merged(r)[f])
      <4>1. CASE f \in filing[r].forms
        <5>1. log[f] \in Seq(LogRow)
          BY DEF StateFormsTypeOK, EStoreTypeOK
        <5>2. log'[f] = Append(log[f], [action |-> "SUBMITTED", by |-> r])
          BY <3>1, <4>1 DEF SubmittedRow
        <5>3. Merged(r)[f] = [status |-> Pending, by |-> r]
          BY <4>1 DEF Merged
        <5>4. QED  BY <5>1, <5>2, <5>3, TellsSubmitted
      <4>2. CASE f \notin filing[r].forms
        BY <3>1, <3>2, <4>2 DEF Merged
      <4>3. QED  BY <4>1, <4>2
    <3>5. exemption'[d].data = Merged(r)
      BY <3>1, <3>2 DEF StateFormsTypeOK, EStoreTypeOK
    <3>6. OneRequestDocument' /\ LogInv'
      BY <3>3, <3>4, <3>5 DEF OneRequestDocument, LogInv
    <3>7. QED  BY <2>2, <3>3, <3>6 DEF ExemptionInv
  <2>4. CASE ~FilingFits(r)
    <3>1. UNCHANGED <<exemption, log>>
      BY <1>3, <2>4 DEF WriteFiling
    <3>2. QED  BY <2>1, <2>2, <3>1, NoWriteKeeps DEF ExemptionInv
  <2>5. QED  BY <2>3, <2>4
<1>4. ASSUME NEW q \in Decision, NEW d \in Filing, NEW f \in FormId, NEW v \in {Approved, Rejected},
             ReadPending(q, d, f, v)
      PROVE  ExemptionInv'
  <2>1. UNCHANGED <<exemption, log>> /\ filing' = filing
    BY <1>4 DEF ReadPending, estore
  <2>2. /\ \A p \in Decision : p # q => decision'[p] = decision[p]
        /\ decision'[q].on \in Docs
    BY <1>4 DEF ReadPending, StateFormsTypeOK, ExemptionTypeOK
  <2>3. DecisionInv(q)'
    BY <2>1, <2>2 DEF DecisionInv, Docs
  <2>4. QED  BY <2>1, <2>2, <2>3, NoWriteKeeps DEF ExemptionInv
<1>5. ASSUME NEW q \in Decision, CheckSection(q)
      PROVE  ExemptionInv'
  <2>1. UNCHANGED <<exemption, log>> /\ filing' = filing
    BY <1>5 DEF CheckSection, estore
  <2>2. /\ \A p \in Decision : p # q => decision'[p] = decision[p]
        /\ decision'[q].pc = "done" \/ decision'[q].on = decision[q].on
    BY <1>5 DEF CheckSection, DecisionEnd, IdleDecision, StateFormsTypeOK, ExemptionTypeOK,
                DecisionState
  <2>3. DecisionInv(q)'
    BY <1>5, <2>1, <2>2 DEF DecisionInv, ExemptionInv, CheckSection, Docs
  <2>4. QED  BY <2>1, <2>2, <2>3, NoWriteKeeps DEF ExemptionInv
<1>6. ASSUME NEW q \in Decision, WriteDecision(q)
      PROVE  ExemptionInv'
  <2>1. /\ filing' = filing
        /\ \A p \in Decision : p # q => decision'[p] = decision[p]
        /\ decision'[q].pc = "done"
    BY <1>6 DEF WriteDecision, DecisionEnd, IdleDecision, StateFormsTypeOK, ExemptionTypeOK
  <2>2. DecisionInv(q)'
    BY <2>1 DEF DecisionInv
  <2>3. CASE StillPending(q)
    <3> DEFINE d == decision[q].on
               g == decision[q].form
    <3>1. /\ exemption' = [exemption EXCEPT ![d] =
               [exists |-> TRUE, data |-> Decided(q), updatedAt |-> @.updatedAt + 1]]
          /\ log' = [log EXCEPT ![g] = Append(@, DecidedRow(q))]
          /\ decision[q].pc = "write"
      BY <1>6, <2>3 DEF WriteDecision
    <3>2. /\ d \in Docs /\ Docs = {d} /\ g \in FormId /\ log[g] # <<>>
          /\ decision[q].verdict \in {Approved, Rejected}
      BY <2>3, <3>1, FittingDecision
    <3>3. d \in Filing
      BY <3>2 DEF Docs
    <3>4. /\ Docs' = {d}
          /\ \A r \in Filing : FilingInv(r)'
          /\ \A p \in Decision : p # q => DecisionInv(p)'
      BY <2>1, <3>1, <3>2, <3>3, WriteKeepsReaders DEF ExemptionInv
    <3>5. /\ exemption[d].data \in [FormId -> Entry]
          /\ \A f \in FormId : log[f] \in Seq(LogRow) /\ Tells(log[f], exemption[d].data[f])
      BY <3>2, <3>3 DEF StateFormsTypeOK, EStoreTypeOK, ExemptionDoc, ExemptionInv, LogInv
    <3>6. ASSUME NEW f \in FormId
          PROVE  Tells(log'[f], Decided(q)[f])
      <4>1. CASE f = g
        <5> DEFINE what == DecidedRow(q).action
        <5>1. /\ what \in {"APPROVED", "RETURNED"} /\ StatusAfter(what) = decision[q].verdict
              /\ DecidedRow(q) = [action |-> what, by |-> NoFiling]
          BY <3>2 DEF DecidedRow, StatusAfter, Approved, Rejected
        <5>2. log'[f] = Append(log[f], DecidedRow(q))
          BY <3>1, <4>1 DEF StateFormsTypeOK, EStoreTypeOK
        <5>3. Decided(q)[f] = [status |-> decision[q].verdict, by |-> exemption[d].data[f].by]
          BY <3>5, <4>1 DEF Decided
        <5>4. exemption[d].data[f] \in Entry
          BY <3>5
        <5> HIDE DEF what
        <5>5. QED  BY <3>2, <3>5, <4>1, <5>1, <5>2, <5>3, <5>4, TellsDecided
      <4>2. CASE f # g
        BY <3>1, <3>5, <4>2 DEF Decided, StateFormsTypeOK, EStoreTypeOK
      <4>3. QED  BY <4>1, <4>2
    <3>7. exemption'[d].data = Decided(q)
      BY <3>1, <3>3 DEF StateFormsTypeOK, EStoreTypeOK
    <3>8. OneRequestDocument' /\ LogInv'
      BY <3>4, <3>6, <3>7 DEF OneRequestDocument, LogInv
    <3>9. QED  BY <2>2, <3>4, <3>8 DEF ExemptionInv
  <2>4. CASE ~StillPending(q)
    <3>1. UNCHANGED <<exemption, log>>
      BY <1>6, <2>4 DEF WriteDecision
    <3>2. QED  BY <2>1, <2>2, <3>1, NoWriteKeeps DEF ExemptionInv
  <2>5. QED  BY <2>3, <2>4
<1>7. QED  BY <1>1, <1>2, <1>3, <1>4, <1>5, <1>6 DEF ExemptionStep

\* The document, the log, the filings and the decisions, which the SFC form does not touch.
LEMMA OthersKeepInv ==
  ASSUME ExemptionInv, UNCHANGED <<exemption, log, filing, decision>>
  PROVE  ExemptionInv'
BY DEF ExemptionInv, OneRequestDocument, LogInv, FilingInv, DecisionInv, Docs

\* Every step keeps the invariant.
LEMMA StepKeepsInv ==
  StateFormsTypeOK /\ ExemptionInv /\ [StateFormsNext]_formVars => ExemptionInv'
<1> SUFFICES ASSUME StateFormsTypeOK, ExemptionInv, [StateFormsNext]_formVars
             PROVE  ExemptionInv'
  OBVIOUS
<1>1. CASE ExemptionStep /\ UNCHANGED fvars
  BY <1>1, ExemptionStepKeepsInv
<1>2. CASE SfcStep /\ UNCHANGED xvars
  <2>1. UNCHANGED <<exemption, log>>
    BY <1>2 DEF SfcStep, Begin, ReadForm, Recheck, WriteForm, WriteHistory, ReadReview,
                TransitionForm, WriteReviewHistory, LoseReviewHistory, estore
  <2>2. QED  BY <1>2, <2>1, OthersKeepInv DEF xvars
<1>3. CASE UNCHANGED formVars
  BY <1>3, OthersKeepInv DEF formVars, estore, xvars
<1>4. QED  BY <1>1, <1>2, <1>3 DEF StateFormsNext

\* The inductive invariant: the log tells the document, and what a filing has read of it is true
\* as long as its updatedAt is.
THEOREM ExemptionInvAlways == StateFormsSpec => []ExemptionInv
BY InitExemptionInv, StepKeepsInv, FormsTypeCorrect, PTL DEF StateFormsSpec

\* However many first filings race, there is one exemption document.
THEOREM OneDocument == StateFormsSpec => []OneRequestDocument
<1>1. ExemptionInv => OneRequestDocument  BY DEF ExemptionInv
<1>2. QED  BY <1>1, ExemptionInvAlways, PTL

\* The log of a form always says what the status of its entry is and whose filing it holds.
THEOREM LogIsExact == StateFormsSpec => []LogTellsEntries
<1>1. StateFormsTypeOK /\ ExemptionInv => LogTellsEntries
  <2> SUFFICES ASSUME StateFormsTypeOK, ExemptionInv, NEW d \in Docs, NEW f \in FormId
               PROVE  exemption[d].data[f] =
                        IF log[f] = <<>> THEN NoEntry
                        ELSE [status |-> StatusAfter(log[f][Len(log[f])].action),
                              by |-> LastFiled(f)]
    BY DEF LogTellsEntries
  <2>1. exemption[d].data[f] \in Entry /\ log[f] \in Seq(LogRow)
    BY DEF StateFormsTypeOK, EStoreTypeOK, ExemptionDoc, Docs
  <2>2. Tells(log[f], exemption[d].data[f])
    BY DEF ExemptionInv, LogInv
  <2>3. QED  BY <2>1, <2>2, TellsEntry
<1>2. QED  BY <1>1, ExemptionInvAlways, FormsTypeCorrect, PTL

-----------------------------------------------------------------------------
(* Exemptions: the refinement of the life cycle                            *)

Actions(s) == [i \in DOMAIN s |-> s[i].action]

\* A row more in the log is an action more in the life of the form.
LEMMA ActionsOfAppend ==
  ASSUME NEW s \in Seq(LogRow), NEW row \in LogRow
  PROVE  Actions(Append(s, row)) = Append(Actions(s), row.action)
<1> DEFINE Verb == {"SUBMITTED", "APPROVED", "RETURNED"}
           t == Append(s, row)
<1>1. /\ t \in Seq(LogRow) /\ Len(t) = Len(s) + 1 /\ DOMAIN t = 1 .. Len(s) + 1
      /\ t[Len(s) + 1] = row /\ DOMAIN s = 1 .. Len(s) /\ Len(s) \in Nat
      /\ \A j \in 1 .. Len(s) : t[j] = s[j]
  OBVIOUS
<1>2. row.action \in Verb /\ \A j \in DOMAIN s : s[j].action \in Verb
  <2>1. \A x \in LogRow : x.action \in Verb
    BY DEF LogRow
  <2>2. \A j \in DOMAIN s : s[j] \in LogRow
    BY <1>1
  <2>3. QED  BY <2>1, <2>2
<1>3. Actions(s) \in [1 .. Len(s) -> Verb]
  BY <1>1, <1>2 DEF Actions
<1>4. Actions(s) \in Seq(Verb) /\ Len(Actions(s)) = Len(s)
  BY <1>1, <1>3
<1> DEFINE u == Append(Actions(s), row.action)
<1>5. /\ u \in Seq(Verb) /\ Len(u) = Len(s) + 1 /\ DOMAIN u = 1 .. Len(s) + 1
      /\ u[Len(s) + 1] = row.action
      /\ \A j \in 1 .. Len(s) : u[j] = Actions(s)[j]
  BY <1>2, <1>4
<1>6. Actions(t) = [i \in 1 .. Len(s) + 1 |-> t[i].action]
  BY <1>1 DEF Actions
<1>7. u = [i \in 1 .. Len(s) + 1 |-> u[i]]
  BY <1>5
<1>8. \A i \in 1 .. Len(s) + 1 : u[i] = t[i].action
  BY <1>1, <1>5 DEF Actions
<1>9. QED  BY <1>6, <1>7, <1>8

\* The last thing that happened to a form is the action of its last row.
LEMMA LatestAction ==
  ASSUME NEW f \in FormId, log[f] \in Seq(LogRow)
  PROVE  Life!Latest(f) = IF log[f] = <<>> THEN "NOTHING" ELSE log[f][Len(log[f])].action
<1>1. Actions(log[f]) = [i \in 1 .. Len(log[f]) |-> log[f][i].action] /\ Len(log[f]) \in Nat
  BY DEF Actions
<1>2. log[f] = <<>> <=> Len(log[f]) = 0
  OBVIOUS
<1>3. log[f] # <<>> => Len(log[f]) \in 1 .. Len(log[f])
  BY <1>1, <1>2
<1>4. QED  BY <1>1, <1>2, <1>3 DEF Life!Latest, Actions

\* Filings and decisions, whatever they read before, come to single steps of the life cycle.
THEOREM LogImplementsLife == StateFormsSpec => ImplementsLife
<1> DEFINE life == [f \in FormId |-> Actions(log[f])]
<1>0. ASSUME StateFormsTypeOK
      PROVE  \A f \in FormId : log[f] \in Seq(LogRow) /\ exemption \in [Filing -> ExemptionDoc]
  BY <1>0 DEF StateFormsTypeOK, EStoreTypeOK
<1>1. StateFormsInit => Life!LifeInit
  <2> SUFFICES ASSUME StateFormsInit  PROVE Life!LifeInit
    OBVIOUS
  <2>1. \A f \in FormId : [i \in DOMAIN log[f] |-> log[f][i].action] = <<>>
    BY DEF StateFormsInit, EStoreInit
  <2>2. QED  BY <2>1 DEF Life!LifeInit
<1>2. ASSUME StateFormsTypeOK, ExemptionInv, NEW r \in Filing, WriteFiling(r), FilingFits(r),
             NEW F \in SUBSET FormId, F = filing[r].forms
      PROVE  Life!File(F)
  <2>1. /\ \A f \in FormId : Tells(log[f], filing[r].data[f])
        /\ \A f \in F : filing[r].data[f].status \in {"NONE", Rejected}
        /\ F # {}
    BY <1>2, FittingFiling DEF WriteFiling
  <2>2. ASSUME NEW f \in F
        PROVE  Life!Latest(f) \in {"NOTHING", "RETURNED"}
    <3>1. f \in FormId /\ log[f] \in Seq(LogRow)
      BY <1>0, <1>2, <2>1
    <3>2. CASE log[f] = <<>>
      BY <3>1, <3>2, LatestAction
    <3>3. CASE log[f] # <<>>
      <4>1. log[f][Len(log[f])] \in LogRow
        BY <3>1, <3>3
      <4>2. StatusAfter(log[f][Len(log[f])].action) \in {"NONE", Rejected}
        BY <2>1, <3>1, <3>3 DEF Tells
      <4>3. log[f][Len(log[f])].action = "RETURNED"
        BY <4>1, <4>2 DEF StatusAfter, LogRow, Pending, Approved, Rejected
      <4>4. QED  BY <3>1, <3>3, <4>3, LatestAction
    <3>4. QED  BY <3>2, <3>3
  <2>3. \A f \in FormId : Actions(log'[f]) =
          IF f \in F THEN Append(Actions(log[f]), "SUBMITTED") ELSE Actions(log[f])
    <3>1. \A f \in FormId : log'[f] =
            IF f \in F THEN Append(log[f], SubmittedRow(r)) ELSE log[f]
      BY <1>2 DEF WriteFiling
    <3>2. SubmittedRow(r) \in LogRow /\ SubmittedRow(r).action = "SUBMITTED"
      BY DEF SubmittedRow, LogRow
    <3>3. QED  BY <1>0, <1>2, <3>1, <3>2, ActionsOfAppend
  <2>4. Life!Extend(F, "SUBMITTED")
    BY <2>3 DEF Life!Extend, Actions
  <2>5. QED  BY <2>1, <2>2, <2>4 DEF Life!File
<1>3. ASSUME StateFormsTypeOK, ExemptionInv, NEW q \in Decision, WriteDecision(q), StillPending(q),
             NEW g \in FormId, g = decision[q].form,
             NEW verb \in {"APPROVED", "RETURNED"}, verb = DecidedRow(q).action
      PROVE  Life!Decide(g, verb)
  <2>1. /\ decision[q].verdict \in {Approved, Rejected}
        /\ log[g] # <<>> /\ log[g][Len(log[g])].action = "SUBMITTED"
    BY <1>3, FittingDecision DEF WriteDecision
  <2>2. Life!Latest(g) = "SUBMITTED"
    BY <1>0, <1>3, <2>1, LatestAction
  <2>3. \A f \in FormId : Actions(log'[f]) =
          IF f = g THEN Append(Actions(log[f]), verb) ELSE Actions(log[f])
    <3>1. \A f \in FormId : log'[f] = IF f = g THEN Append(log[f], DecidedRow(q)) ELSE log[f]
      BY <1>3 DEF WriteDecision, StateFormsTypeOK, EStoreTypeOK
    <3>2. DecidedRow(q) \in LogRow
      BY DEF DecidedRow, LogRow
    <3>3. QED  BY <1>0, <1>3, <3>1, <3>2, ActionsOfAppend
  <2>4. Life!Extend({g}, verb)
    BY <2>3 DEF Life!Extend, Actions
  <2>5. QED  BY <2>2, <2>4 DEF Life!Decide
<1>4. ASSUME UNCHANGED log
      PROVE  UNCHANGED [f \in FormId |-> [i \in DOMAIN log[f] |-> log[f][i].action]]
  BY <1>4
<1>5. ASSUME StateFormsTypeOK, ExemptionInv, [StateFormsNext]_formVars
      PROVE  [Life!LifeNext]_[f \in FormId |-> [i \in DOMAIN log[f] |-> log[f][i].action]]
  <2>1. \/ UNCHANGED log
        \/ \E r \in Filing : WriteFiling(r) /\ FilingFits(r)
        \/ \E q \in Decision : WriteDecision(q) /\ StillPending(q)
    BY <1>5 DEF StateFormsNext, ExemptionStep, ReadExisting, CheckTargets, WriteFiling, ReadPending,
                CheckSection, WriteDecision, SfcStep, Begin, ReadForm, Recheck, WriteForm,
                WriteHistory, ReadReview, TransitionForm, WriteReviewHistory, LoseReviewHistory,
                estore, formVars
  <2>2. ASSUME NEW r \in Filing, WriteFiling(r), FilingFits(r)
        PROVE  Life!LifeNext
    <3>1. filing[r].forms \in SUBSET FormId
      BY <1>5 DEF StateFormsTypeOK, ExemptionTypeOK, FilingState
    <3>2. PICK F \in SUBSET FormId : F = filing[r].forms
      BY <3>1
    <3>3. Life!File(F)
      BY <1>2, <1>5, <2>2, <3>2
    <3>4. QED  BY <3>3 DEF Life!LifeNext
  <2>3. ASSUME NEW q \in Decision, WriteDecision(q), StillPending(q)
        PROVE  Life!LifeNext
    <3>1. decision[q].form \in FormId /\ DecidedRow(q).action \in {"APPROVED", "RETURNED"}
      BY <1>5 DEF StateFormsTypeOK, ExemptionTypeOK, DecisionState, DecidedRow
    <3>2. PICK g \in FormId, verb \in {"APPROVED", "RETURNED"} :
            g = decision[q].form /\ verb = DecidedRow(q).action
      BY <3>1
    <3>3. Life!Decide(g, verb)
      BY <1>3, <1>5, <2>3, <3>2
    <3>4. QED  BY <3>3 DEF Life!LifeNext
  <2>4. QED  BY <1>4, <2>1, <2>2, <2>3
<1>6. QED
  BY <1>1, <1>5, ExemptionInvAlways, FormsTypeCorrect, PTL
  DEF StateFormsSpec, ImplementsLife, Life!LifeSpec

-----------------------------------------------------------------------------
(* The SFC form                                                            *)

\* What a save or submit has read let it go on, and the row it is about to write is true.
SfcInv ==
  /\ \A q \in Saver \cup Submitter :
       /\ change[q].pc \in {"recheck", "write", "history"} => change[q].from \in StateEditable
       /\ change[q].pc = "history" =>
            [from |-> change[q].from, to |-> Target(q), by |-> q] \in moves
  /\ HistoryIsTrue

\* Nothing is under way: the invariant holds.
LEMMA InitSfcInv == StateFormsInit => SfcInv
BY DEF StateFormsInit, EStoreInit, SfcInit, IdleChange, SfcInv, HistoryIsTrue

\* Every step of the SFC form keeps its invariant, and writes data only into an editable form.
LEMMA SfcStepKeepsInv ==
  ASSUME StateFormsTypeOK, SfcInv, SfcStep
  PROVE  SfcInv' /\ (sfc'.data # sfc.data => sfc.status \in StateEditable)
<1> USE DEF SfcInv, HistoryIsTrue, StateFormsTypeOK, SfcTypeOK, EStoreTypeOK, estore
<1>1. ASSUME NEW q \in Saver \cup Submitter, Begin(q)
      PROVE  SfcInv' /\ sfc' = sfc
  <2>1. UNCHANGED <<sfc, sfcHistory, moves>>
    BY <1>1 DEF Begin
  <2>2. \A p \in Saver \cup Submitter :
          change'[p] = change[p] \/ change'[p].pc \in {"done", "read"}
    BY <1>1 DEF Begin, ChangeEnd, ChangeGoto, IdleChange, ChangeState
  <2>3. QED  BY <2>1, <2>2
<1>2. ASSUME NEW q \in Saver \cup Submitter, ReadForm(q)
      PROVE  SfcInv' /\ sfc' = sfc
  BY <1>2 DEF ReadForm, ChangeEnd, IdleChange
<1>3. ASSUME NEW q \in Saver \cup Submitter, Recheck(q)
      PROVE  SfcInv' /\ sfc' = sfc
  <2>1. UNCHANGED <<sfc, sfcHistory, moves>>
    BY <1>3 DEF Recheck
  <2>2. \A p \in Saver \cup Submitter :
          \/ change'[p] = change[p]
          \/ change'[p].pc = "done"
          \/ change[p].pc = "recheck" /\ change'[p].pc = "write" /\ change'[p].from = change[p].from
    BY <1>3 DEF Recheck, ChangeEnd, ChangeGoto, IdleChange, ChangeState
  <2>3. QED  BY <2>1, <2>2
<1>4. ASSUME NEW q \in Saver \cup Submitter, WriteForm(q)
      PROVE  SfcInv' /\ (sfc'.data # sfc.data => sfc.status \in StateEditable)
  <2>1. \A p \in Saver \cup Submitter : p # q => change'[p] = change[p]
    BY <1>4 DEF WriteForm, LostRace, ChangeEnd, ChangeGoto
  <2>2. sfcHistory' = sfcHistory /\ moves \subseteq moves'
    BY <1>4 DEF WriteForm
  <2>3. CASE FormFits(q)
    <3>1. sfc.status = change[q].from /\ change[q].from \in StateEditable
      BY <1>4, <2>3 DEF FormFits, WriteForm
    <3>2. \/ change'[q].pc = "done"
          \/ /\ change'[q].pc = "history" /\ change'[q].from = change[q].from
             /\ [from |-> change[q].from, to |-> Target(q), by |-> q] \in moves'
      BY <1>4, <2>3, <3>1 DEF WriteForm, ChangeEnd, ChangeGoto, IdleChange, ChangeState
    <3>3. QED  BY <2>1, <2>2, <3>1, <3>2
  <2>4. CASE ~FormFits(q)
    <3>1. change'[q].pc = "done" /\ sfc' = sfc
      BY <1>4, <2>4 DEF WriteForm, LostRace, ChangeEnd, IdleChange
    <3>2. QED  BY <2>1, <2>2, <3>1
  <2>5. QED  BY <2>3, <2>4
<1>5. ASSUME NEW q \in Saver \cup Submitter, WriteHistory(q)
      PROVE  SfcInv' /\ sfc' = sfc
  BY <1>5 DEF WriteHistory, ChangeEnd, IdleChange
<1>6. ASSUME NEW p \in Reviewer, NEW to \in {"UNDER_REVIEW_BY_MOHUA", "RETURNED_BY_PMU"},
             ReadReview(p, to)
      PROVE  SfcInv' /\ sfc' = sfc
  BY <1>6 DEF ReadReview
<1>7. ASSUME NEW p \in Reviewer, TransitionForm(p)
      PROVE  SfcInv' /\ sfc'.data = sfc.data
  BY <1>7 DEF TransitionForm
<1>8. ASSUME NEW p \in Reviewer, WriteReviewHistory(p)
      PROVE  SfcInv' /\ sfc' = sfc
  BY <1>8 DEF WriteReviewHistory
<1>9. ASSUME NEW p \in Reviewer, LoseReviewHistory(p)
      PROVE  SfcInv' /\ sfc' = sfc
  BY <1>9 DEF LoseReviewHistory
<1>10. QED  BY <1>1, <1>2, <1>3, <1>4, <1>5, <1>6, <1>7, <1>8, <1>9 DEF SfcStep

\* So does every step of the two forms together.
LEMMA StepKeepsSfc ==
  ASSUME StateFormsTypeOK, SfcInv, [StateFormsNext]_formVars
  PROVE  SfcInv' /\ (sfc'.data # sfc.data => sfc.status \in StateEditable)
<1>1. CASE ExemptionStep /\ UNCHANGED fvars
  <2>1. UNCHANGED <<sfc, sfcHistory>>
    BY <1>1 DEF ExemptionStep, ReadExisting, CheckTargets, WriteFiling, ReadPending, CheckSection,
                WriteDecision, estore
  <2>2. QED  BY <1>1, <2>1 DEF SfcInv, HistoryIsTrue, fvars
<1>2. CASE SfcStep /\ UNCHANGED xvars
  BY <1>2, SfcStepKeepsInv
<1>3. CASE UNCHANGED formVars
  BY <1>3 DEF formVars, estore, fvars, SfcInv, HistoryIsTrue
<1>4. QED  BY <1>1, <1>2, <1>3 DEF StateFormsNext

\* The inductive invariant of the SFC form: what a save or submit read was editable.
THEOREM SfcInvAlways == StateFormsSpec => []SfcInv
<1>1. StateFormsTypeOK /\ SfcInv /\ [StateFormsNext]_formVars => SfcInv'
  BY StepKeepsSfc
<1>2. QED  BY <1>1, InitSfcInv, FormsTypeCorrect, PTL DEF StateFormsSpec

\* Each history row a save or submit writes tells of a change it made.
THEOREM HistoryTrue == StateFormsSpec => []HistoryIsTrue
<1>1. SfcInv => HistoryIsTrue  BY DEF SfcInv
<1>2. QED  BY <1>1, SfcInvAlways, PTL

\* The data of a form under review never changes, with any number of saves, submits and reviewers.
THEOREM ReviewFrozen == StateFormsSpec => UnderReviewIsFrozen
<1>1. StateFormsTypeOK /\ SfcInv /\ [StateFormsNext]_formVars
        => [sfc'.data # sfc.data => sfc.status \in StateEditable]_formVars
  BY StepKeepsSfc
<1>2. QED
  BY <1>1, SfcInvAlways, FormsTypeCorrect, PTL DEF StateFormsSpec, UnderReviewIsFrozen

-----------------------------------------------------------------------------
(* FC unspent declaration: types                                           *)

\* A request that has ended is one.
LEMMA IdleTyped == IdleFcReq \in FcReqState
BY FcAssumption
DEF FcReqState, IdleFcReq, FcRow, RowStatus, NoFcRow, StateOp, FormOp, RowsOp, Stage, FcAnswer

\* The initial states are well typed.
LEMMA FcInitTyped == FcInit => FcTypeOK
<1> SUFFICES ASSUME FcInit
             PROVE  FcTypeOK
  OBVIOUS
<1>1. fcForm \in FcForm
  BY DEF FcInit, FcForm, FcFormStatus, FcAnswer
<1>2. fcRow \in [FcUlb -> FcRow] /\ fcSaves \in 0 .. FcMaxSaves
  BY FcAssumption DEF FcInit, FcRow, RowStatus, NoFcRow
<1>3. QED  BY <1>1, <1>2, IdleTyped DEF FcInit, FcTypeOK

\* What a transaction does to the requests keeps their type.
LEMMA CommitsTyped ==
  ASSUME FcTypeOK, NEW q \in FcRequest, NEW W \in SUBSET (FcUlb \cup {FcFormDoc}), Commits(q, W)
  PROVE  fcReq' \in [FcRequest -> FcReqState] /\ fcSkewed' \in BOOLEAN
<1>1. \A p \in FcRequest : [fcReq[p] EXCEPT !.missed = @ \cup W] \in FcReqState
  BY DEF FcTypeOK, FcReqState
<1>2. QED  BY <1>1, IdleTyped DEF Commits, FcTypeOK

\* The decision of a reviewer is a status of a row and of the form.
LEMMA VerdictTyped ==
  ASSUME FcTypeOK, NEW q \in FcRequest
  PROVE  Verdict(q) \in RowStatus \cap FcFormStatus
BY DEF FcTypeOK, FcReqState, Verdict, Passed, SentBack, RowStatus, FcFormStatus

\* Decided rows are rows.
LEMMA DecidedTyped ==
  ASSUME FcTypeOK, NEW q \in FcRequest, NEW rows \in [FcUlb -> FcRow]
  PROVE  DecidedRows(q, rows) \in [FcUlb -> FcRow]
BY VerdictTyped DEF DecidedRows, FcRow

\* The transaction of the State keeps the types.
LEMMA CommitStateTyped ==
  ASSUME FcTypeOK, NEW q \in FcRequest, CommitState(q)
  PROVE  FcTypeOK'
<1> DEFINE r == fcReq[q]
<1>1. r \in FcReqState
  BY DEF FcTypeOK
<1>2. /\ Upserted(q) \subseteq FcUlb /\ Deactivated(q) \subseteq FcUlb
  BY <1>1 DEF Upserted, Deactivated, Omitted, Active, FcReqState
<1>3. fcReq' \in [FcRequest -> FcReqState] /\ fcSkewed' \in BOOLEAN
  BY <1>2, CommitsTyped DEF CommitState
<1>4. fcForm' \in FcForm
  BY <1>1 DEF CommitState, FcForm, FcFormStatus, FcReqState
<1>5. fcRow' \in [FcUlb -> FcRow]
  <2>1. ASSUME NEW u \in FcUlb
        PROVE  UpsertedRow(q, u) \in FcRow
    BY <1>1 DEF UpsertedRow, FcRow, FcReqState, RowStatus, FcFormStatus
  <2>2. \A u \in FcUlb : fcRow[u] \in FcRow /\ [fcRow[u] EXCEPT !.active = FALSE] \in FcRow
    BY DEF FcTypeOK, FcRow
  <2>3. QED  BY <2>1, <2>2 DEF CommitState
<1>6. fcListed' \subseteq FcUlb /\ fcSaves' \in 0 .. FcMaxSaves
  BY <1>1 DEF CommitState, FcTypeOK, FcReqState
<1>7. QED  BY <1>3, <1>4, <1>5, <1>6 DEF FcTypeOK

\* The transaction of a reviewer keeps the types.
LEMMA CommitReviewTyped ==
  ASSUME FcTypeOK, NEW q \in FcRequest, CommitReview(q)
  PROVE  FcTypeOK'
<1>1. fcReq[q].ulbs \subseteq FcUlb
  BY DEF FcTypeOK, FcReqState
<1>2. fcReq' \in [FcRequest -> FcReqState] /\ fcSkewed' \in BOOLEAN
  BY <1>1, CommitsTyped DEF CommitReview
<1>3. fcRow' \in [FcUlb -> FcRow]
  BY DecidedTyped DEF CommitReview, FcTypeOK
<1>4. NextStatus(q) \subseteq FcFormStatus
  BY VerdictTyped DEF NextStatus, PmuOutcome, Acknowledged, FcFormStatus
<1>5. fcForm' \in FcForm
  BY <1>4 DEF CommitReview, FcForm, FcTypeOK
<1>6. QED  BY <1>2, <1>3, <1>5 DEF CommitReview, FcTypeOK

\* Every step keeps the types.
LEMMA FcStepTyped == FcTypeOK /\ [FcNext]_fcVars => FcTypeOK'
<1> SUFFICES ASSUME FcTypeOK, [FcNext]_fcVars
             PROVE  FcTypeOK'
  OBVIOUS
<1> USE DEF FcStep, FcEnd
<1>1. ASSUME NEW q \in FcRequest, NEW op \in StateOp, NEW answer \in FcAnswer,
             NEW L \in SUBSET FcUlb, ReadFcForm(q, op, answer, L)
      PROVE  FcTypeOK'
  <2>1. fcSaves + 1 \in 0 .. FcMaxSaves
    BY <1>1, FcAssumption DEF ReadFcForm, FcTypeOK
  <2>2. [IdleFcReq EXCEPT !.pc = "begin", !.op = op, !.answer = answer, !.ulbs = L,
                          !.number = fcSaves + 1] \in FcReqState
    BY <2>1, IdleTyped DEF FcReqState
  <2>3. QED  BY <1>1, <2>1, <2>2 DEF ReadFcForm, FcTypeOK
<1>2. ASSUME NEW q \in FcRequest, NEW op \in FormOp \cup RowsOp, NEW stage \in Stage,
             ReadFcReview(q, op, stage)
      PROVE  FcTypeOK'
  <2>1. [IdleFcReq EXCEPT !.pc = IF fcForm.answer = "yes" THEN "load" ELSE "begin",
                          !.op = op, !.stage = stage] \in FcReqState
    BY IdleTyped DEF FcReqState
  <2>2. QED  BY <1>2, <2>1 DEF ReadFcReview, FcTypeOK
<1>3. ASSUME NEW q \in FcRequest, LoadRowsOfForm(q)
      PROVE  FcTypeOK'
  <2>1. [fcReq[q] EXCEPT !.pc = "begin", !.ulbs = ActiveIn(fcRow, {Waiting(fcReq[q].stage)})]
          \in FcReqState
    BY DEF FcTypeOK, FcReqState, ActiveIn, Active
  <2>2. QED  BY <1>3, <2>1, IdleTyped DEF LoadRowsOfForm, FcTypeOK
<1>4. ASSUME NEW q \in FcRequest, NEW D \in SUBSET FcUlb, LoadRows(q, D)
      PROVE  FcTypeOK'
  <2>1. [fcReq[q] EXCEPT !.pc = "begin", !.ulbs = D] \in FcReqState
    BY DEF FcTypeOK, FcReqState
  <2>2. QED  BY <1>4, <2>1, IdleTyped DEF LoadRows, FcTypeOK
<1>5. ASSUME NEW q \in FcRequest, BeginTransaction(q)
      PROVE  FcTypeOK'
  <2>1. [fcReq[q] EXCEPT !.pc = "commit", !.snap = fcRow] \in FcReqState
    BY DEF FcTypeOK, FcReqState
  <2>2. QED  BY <1>5, <2>1 DEF BeginTransaction, FcTypeOK
<1>6. ASSUME NEW q \in FcRequest, Aborts(q)
      PROVE  FcTypeOK'
  BY <1>6, IdleTyped DEF Aborts, FcTypeOK
<1>7. CASE UNCHANGED fcVars
  BY <1>7 DEF fcVars, FcTypeOK
<1>8. QED
  BY <1>1, <1>2, <1>3, <1>4, <1>5, <1>6, <1>7, CommitStateTyped, CommitReviewTyped DEF FcNext

\* Type correctness.
THEOREM FcTypeCorrect == FcSpec => []FcTypeOK
BY FcInitTyped, FcStepTyped, PTL DEF FcSpec

-----------------------------------------------------------------------------
(* FC unspent declaration: snapshots                                       *)

\* A row that an open transaction has not missed is in its snapshot as it is.
SnapshotsAreCurrent ==
  \A q \in FcRequest, u \in FcUlb :
    fcReq[q].pc = "commit" /\ u \notin fcReq[q].missed => fcReq[q].snap[u] = fcRow[u]

FcInv == FcTypeOK /\ SnapshotsAreCurrent

\* A transaction whose writes the others miss leaves their snapshots current.
LEMMA CommitsKeepSnapshots ==
  ASSUME FcInv, NEW q \in FcRequest, NEW W, Commits(q, W),
         \A u \in FcUlb \ W : fcRow'[u] = fcRow[u]
  PROVE  SnapshotsAreCurrent'
<1> SUFFICES ASSUME NEW p \in FcRequest, NEW u \in FcUlb,
                    fcReq'[p].pc = "commit", u \notin fcReq'[p].missed
             PROVE  fcReq'[p].snap[u] = fcRow'[u]
  BY DEF SnapshotsAreCurrent
<1>1. p # q /\ fcReq[p].pc = "commit"
  BY DEF Commits, IdleFcReq
<1>2. fcReq'[p] = [fcReq[p] EXCEPT !.missed = @ \cup W]
  BY <1>1 DEF Commits
<1>3. fcReq[p] \in FcReqState
  BY DEF FcInv, FcTypeOK
<1>4. /\ fcReq'[p].missed = fcReq[p].missed \cup W
      /\ fcReq'[p].snap = fcReq[p].snap
  BY <1>2, <1>3 DEF FcReqState
<1>5. QED  BY <1>1, <1>4 DEF FcInv, SnapshotsAreCurrent

\* What a transaction writes it has not missed, so it finds these rows in its snapshot as they are.
LEMMA WritesAreCurrent ==
  ASSUME FcInv, NEW q \in FcRequest, NEW W, Commits(q, W), NEW u \in FcUlb \cap W
  PROVE  fcReq[q].snap[u] = fcRow[u]
BY DEF FcInv, SnapshotsAreCurrent, Commits

\* A transaction of the State leaves every row outside of its writes as it is.
LEMMA StateWrites ==
  ASSUME FcTypeOK, NEW q \in FcRequest, CommitState(q),
         NEW u \in FcUlb, u \notin Upserted(q) \cup Deactivated(q)
  PROVE  fcRow'[u] = fcRow[u]
BY DEF CommitState

\* So does one of a reviewer.
LEMMA ReviewWrites ==
  ASSUME FcTypeOK, NEW q \in FcRequest, CommitReview(q), NEW u \in FcUlb, u \notin fcReq[q].ulbs
  PROVE  fcRow'[u] = fcRow[u]
BY DEF CommitReview, DecidedRows

\* The initial states satisfy the invariant: no transaction is open.
LEMMA FcInitInv == FcInit => FcInv
BY FcInitTyped DEF FcInit, FcInv, SnapshotsAreCurrent, IdleFcReq

\* Every step keeps it.
LEMMA FcStepInv == FcInv /\ [FcNext]_fcVars => FcInv'
<1> SUFFICES ASSUME FcInv, [FcNext]_fcVars
             PROVE  SnapshotsAreCurrent'
  BY FcStepTyped DEF FcInv
<1>0. FcTypeOK /\ fcReq \in [FcRequest -> FcReqState]
  BY DEF FcInv, FcTypeOK
<1>1. ASSUME NEW q \in FcRequest, NEW r, r.pc # "commit", FcStep(q, r), UNCHANGED fcRow
      PROVE  SnapshotsAreCurrent'
  BY <1>0, <1>1 DEF FcStep, FcInv, SnapshotsAreCurrent
<1>2. ASSUME NEW q \in FcRequest, NEW op \in StateOp, NEW answer \in FcAnswer,
             NEW L \in SUBSET FcUlb, ReadFcForm(q, op, answer, L)
      PROVE  SnapshotsAreCurrent'
  BY <1>1, <1>2 DEF ReadFcForm, IdleFcReq
<1>3. ASSUME NEW q \in FcRequest, NEW op \in FormOp \cup RowsOp, NEW stage \in Stage,
             ReadFcReview(q, op, stage)
      PROVE  SnapshotsAreCurrent'
  BY <1>1, <1>3 DEF ReadFcReview, IdleFcReq
<1>4. ASSUME NEW q \in FcRequest, \/ LoadRowsOfForm(q)
                                  \/ \E D \in SUBSET FcUlb : LoadRows(q, D)
      PROVE  SnapshotsAreCurrent'
  <2>1. \A D : [fcReq[q] EXCEPT !.pc = "begin", !.ulbs = D].pc # "commit"
    BY <1>0 DEF FcReqState
  <2>2. IdleFcReq.pc # "commit"
    BY DEF IdleFcReq
  <2>3. QED  BY <1>1, <1>4, <2>1, <2>2 DEF LoadRowsOfForm, LoadRows, FcEnd
<1>5. ASSUME NEW q \in FcRequest, BeginTransaction(q)
      PROVE  SnapshotsAreCurrent'
  <2>1. fcReq'[q].snap = fcRow' /\ \A p \in FcRequest \ {q} : fcReq'[p] = fcReq[p]
    BY <1>0, <1>5 DEF BeginTransaction, FcStep, FcReqState
  <2>2. QED  BY <1>5, <2>1 DEF BeginTransaction, FcInv, SnapshotsAreCurrent
<1>6. ASSUME NEW q \in FcRequest, CommitState(q)
      PROVE  SnapshotsAreCurrent'
  <2> DEFINE W == {FcFormDoc} \cup Upserted(q) \cup Deactivated(q)
  <2>1. \A u \in FcUlb \ W : fcRow'[u] = fcRow[u]
    BY <1>0, <1>6, StateWrites
  <2>2. Commits(q, W)
    BY <1>6 DEF CommitState
  <2> HIDE DEF W
  <2>3. QED  BY <2>1, <2>2, CommitsKeepSnapshots
<1>7. ASSUME NEW q \in FcRequest, CommitReview(q)
      PROVE  SnapshotsAreCurrent'
  <2> DEFINE W == fcReq[q].ulbs \cup (IF NextStatus(q) = {} THEN {} ELSE {FcFormDoc})
  <2>1. \A u \in FcUlb \ W : fcRow'[u] = fcRow[u]
    BY <1>0, <1>7, ReviewWrites
  <2>2. Commits(q, W)
    BY <1>7 DEF CommitReview
  <2> HIDE DEF W
  <2>3. QED  BY <2>1, <2>2, CommitsKeepSnapshots
<1>8. ASSUME NEW q \in FcRequest, Aborts(q)
      PROVE  SnapshotsAreCurrent'
  BY <1>1, <1>8 DEF Aborts, FcEnd, IdleFcReq
<1>9. CASE UNCHANGED fcVars
  BY <1>9 DEF fcVars, FcInv, SnapshotsAreCurrent
<1>10. QED
  BY <1>2, <1>3, <1>4, <1>5, <1>6, <1>7, <1>8, <1>9 DEF FcNext

\* The invariant holds throughout.
THEOREM FcInvAlways == FcSpec => []FcInv
BY FcInitInv, FcStepInv, PTL DEF FcSpec

-----------------------------------------------------------------------------
(* FC unspent declaration: what PMU approved                               *)

\* The row of u is as its last State request left it, and if its status changes a reviewer who asked
\* for it has decided.
Kept(u) ==
  /\ fcRow'[u].by = fcRow[u].by
  /\ fcRow'[u].status # fcRow[u].status =>
       \E q \in Reviewing : u \in fcReq[q].ulbs /\ fcReq'[q].pc = "idle"

\* No step writes over an approved row.
LEMMA StepKeepsApproved ==
  ASSUME FcInv, [FcNext]_fcVars, NEW u \in FcUlb, ApprovedRow(fcRow[u])
  PROVE  Kept(u)
<1>0. FcTypeOK /\ fcRow[u] \in FcRow
  BY DEF FcInv, FcTypeOK
<1>1. ASSUME fcRow'[u] = fcRow[u]
      PROVE  Kept(u)
  BY <1>1 DEF Kept
<1>2. ASSUME NEW q \in FcRequest, CommitState(q)
      PROVE  Kept(u)
  <2>1. CASE u \notin Upserted(q) \cup Deactivated(q)
    BY <1>0, <1>1, <1>2, <2>1, StateWrites
  <2>2. CASE u \in Upserted(q) \cup Deactivated(q)
    <3> DEFINE W == {FcFormDoc} \cup Upserted(q) \cup Deactivated(q)
    <3>1. Commits(q, W)
      BY <1>2 DEF CommitState
    <3>2. fcReq[q].snap[u] = fcRow[u]
      BY <2>2, <3>1, WritesAreCurrent
    <3>3. u \notin Upserted(q)
      BY <3>2 DEF Upserted, CanStateEditRow, ApprovedRow
    <3>4. fcRow'[u] = [fcRow[u] EXCEPT !.active = FALSE]
      BY <1>2, <2>2, <3>3 DEF CommitState
    <3>5. QED  BY <1>0, <3>4 DEF Kept, FcRow
  <2>3. QED  BY <2>1, <2>2
<1>3. ASSUME NEW q \in FcRequest, CommitReview(q)
      PROVE  Kept(u)
  <2>1. CASE u \notin fcReq[q].ulbs
    BY <1>0, <1>1, <1>3, <2>1, ReviewWrites
  <2>2. CASE u \in fcReq[q].ulbs
    <3>1. fcRow'[u].by = fcRow[u].by
      BY <1>0, <1>3 DEF CommitReview, DecidedRows, FcRow
    <3>2. q \in Reviewing /\ fcReq'[q].pc = "idle"
      BY <1>3 DEF CommitReview, Commits, Reviewing, FcOpen, IdleFcReq
    <3>3. QED  BY <2>2, <3>1, <3>2 DEF Kept
  <2>3. QED  BY <2>1, <2>2
<1>4. QED
  BY <1>1, <1>2, <1>3
  DEF FcNext, fcVars, ReadFcForm, ReadFcReview, LoadRowsOfForm, LoadRows, BeginTransaction, Aborts

\* What PMU has approved the State never writes over nor sends to review again.
THEOREM ApprovedAreKept == FcSpec => ApprovedRowsAreKept
<1>1. FcInv /\ [FcNext]_fcVars => [\A u \in FcUlb : ApprovedRow(fcRow[u]) => Kept(u)]_fcVars
  BY StepKeepsApproved
<1>2. FcSpec => [][\A u \in FcUlb : ApprovedRow(fcRow[u]) => Kept(u)]_fcVars
  BY <1>1, FcInvAlways, PTL DEF FcSpec
<1>3. QED  BY <1>2 DEF ApprovedRowsAreKept, Kept

-----------------------------------------------------------------------------
(* FC unspent declaration: PMU can decide                                  *)

\* The scenes in which no request of MoHUA is taken.
WithoutMohua == \A cast \in FcCasts : "mohua" \notin cast.ops

\* Then every review is one of PMU, and no row is acknowledged.
OnlyPmuReviews ==
  /\ fcCast \in FcCasts
  /\ \A q \in Reviewing : fcReq[q].stage = "pmu"
  /\ \A u \in FcUlb : fcRow[u].status # "SUBMISSION_ACKNOWLEDGED_BY_MOHUA"

PmuInv == FcInv /\ OnlyPmuReviews /\ PmuCanDecideUnlessSkewed

\* A transaction that has missed nothing works on the rows as they are.
LEMMA UnskewedIsCurrent ==
  ASSUME FcInv, NEW q \in FcRequest, NEW W, Commits(q, W), ~fcSkewed'
  PROVE  fcReq[q].snap = fcRow
<1>1. fcReq[q].missed = {} /\ fcReq[q].pc = "commit"
  BY DEF Commits
<1>2. fcReq[q].snap \in [FcUlb -> FcRow] /\ fcRow \in [FcUlb -> FcRow]
  BY DEF FcInv, FcTypeOK, FcReqState
<1>3. \A u \in FcUlb : fcReq[q].snap[u] = fcRow[u]
  BY <1>1 DEF FcInv, SnapshotsAreCurrent
<1>4. QED  BY <1>2, <1>3

\* A submit on the rows as they are leaves PMU something to decide.
LEMMA SubmitIsDecidable ==
  ASSUME FcInv, OnlyPmuReviews, NEW q \in FcRequest, CommitState(q), ~fcSkewed'
  PROVE  PmuCanDecide'
<1> DEFINE r == fcReq[q]
<1>1. r.snap = fcRow /\ r.ulbs \subseteq FcUlb /\ fcRow \in [FcUlb -> FcRow]
  BY UnskewedIsCurrent DEF CommitState, FcInv, FcTypeOK, FcReqState
<1> SUFFICES ASSUME fcForm'.status = "UNDER_REVIEW_BY_PMU", fcForm'.answer = "yes"
             PROVE  \/ ActiveIn(fcRow, {"UNDER_REVIEW_BY_PMU"})' # {}
                    \/ \E op \in FormOp : Decidable(op, "pmu")'
  BY DEF PmuCanDecide
<1>2. r.op = "submit" /\ r.answer = "yes"
  BY DEF CommitState
<1>3. CASE Upserted(q) # {}
  <2>1. PICK u \in Upserted(q) : TRUE
    BY <1>3
  <2>2. u \in FcUlb /\ fcRow'[u] = UpsertedRow(q, u)
    <3>1. u \in FcUlb /\ u \in Upserted(q)
      BY <1>1, <2>1 DEF Upserted
    <3>2. QED  BY <3>1 DEF CommitState
  <2>3. u \in ActiveIn(fcRow, {"UNDER_REVIEW_BY_PMU"})'
    BY <1>2, <2>2 DEF ActiveIn, Active, UpsertedRow
  <2>4. QED  BY <2>3
<1>4. CASE Upserted(q) = {}
  <2>1. ASSUME NEW u \in FcUlb, fcRow'[u].active
        PROVE  fcRow'[u].status \in {"UNDER_REVIEW_BY_PMU", "UNDER_REVIEW_BY_MOHUA"}
    <3>1. fcRow[u] \in FcRow
      BY <1>1
    <3>2. u \notin Deactivated(q) /\ fcRow'[u] = fcRow[u]
      BY <1>4, <2>1, <3>1 DEF CommitState, FcRow
    <3>3. u \notin Omitted(q)
      BY <1>2, <3>2 DEF Deactivated
    <3>4. CASE u \in r.ulbs
      <4>1. ~CanStateEditRow(fcRow[u])
        BY <1>1, <1>4, <3>4 DEF Upserted
      <4>2. QED
        BY <3>1, <3>2, <4>1 DEF CanStateEditRow, FcRow, RowStatus, FcFormStatus, OnlyPmuReviews
    <3>5. CASE u \notin r.ulbs
      <4>1. fcRow[u].active
        BY <2>1, <3>2
      <4>2. fcRow[u].status \in {"UNDER_REVIEW_BY_MOHUA", "SUBMISSION_ACKNOWLEDGED_BY_MOHUA"}
        BY <1>1, <3>3, <3>5, <4>1 DEF Omitted, Active
      <4>3. QED  BY <3>2, <4>2 DEF OnlyPmuReviews
    <3>6. QED  BY <3>4, <3>5
  <2>2. Active(fcRow)' = ActiveIn(fcRow, {"UNDER_REVIEW_BY_PMU", "UNDER_REVIEW_BY_MOHUA"})'
    BY <2>1 DEF Active, ActiveIn
  <2>3. CASE Active(fcRow)' = {}
    BY <2>3 DEF Decidable, ActiveIn, FormOp
  <2>4. CASE Active(fcRow)' # {}
    BY <2>2, <2>4 DEF Decidable, Waiting, Passed, FormOp
  <2>5. QED  BY <2>3, <2>4
<1>5. QED  BY <1>3, <1>4

\* A decision on the rows as they are settles the form or leaves a row to decide.
LEMMA DecisionIsSettled ==
  ASSUME FcInv, OnlyPmuReviews, NEW q \in FcRequest, CommitReview(q), ~fcSkewed'
  PROVE  PmuCanDecide'
<1>1. fcReq[q].snap = fcRow
  BY UnskewedIsCurrent DEF CommitReview
<1>2. fcReq[q].stage = "pmu"
  BY DEF OnlyPmuReviews, CommitReview, Commits, Reviewing, FcOpen
<1>3. CASE NextStatus(q) = {}
  <2>1. ActiveIn(DecidedRows(q, fcRow), {"UNDER_REVIEW_BY_PMU"}) # {}
    BY <1>1, <1>2, <1>3 DEF NextStatus, PmuOutcome
  <2>2. fcRow' = DecidedRows(q, fcRow)
    BY DEF CommitReview
  <2>3. QED  BY <2>1, <2>2 DEF PmuCanDecide, ActiveIn, Active
<1>4. CASE NextStatus(q) # {}
  <2>1. "UNDER_REVIEW_BY_PMU" \notin NextStatus(q)
    BY <1>2 DEF NextStatus, PmuOutcome, Verdict, Passed, SentBack
  <2>2. fcForm'.status # "UNDER_REVIEW_BY_PMU"
    BY <1>4, <2>1 DEF CommitReview, FcInv, FcTypeOK, FcForm
  <2>3. QED  BY <2>2 DEF PmuCanDecide
<1>5. QED  BY <1>3, <1>4

\* Every step keeps reviews those of PMU.
LEMMA StepKeepsOnlyPmu ==
  ASSUME WithoutMohua, FcInv, OnlyPmuReviews, [FcNext]_fcVars
  PROVE  OnlyPmuReviews'
<1>0. FcTypeOK /\ fcReq \in [FcRequest -> FcReqState] /\ fcRow \in [FcUlb -> FcRow]
  BY DEF FcInv, FcTypeOK
<1>1. ASSUME NEW q \in FcRequest, NEW r, FcStep(q, r), UNCHANGED <<fcRow, fcCast>>,
             \/ r.pc = "idle" \/ r.op \in StateOp \/ r.stage = "pmu"
      PROVE  OnlyPmuReviews'
  BY <1>0, <1>1 DEF FcStep, OnlyPmuReviews, Reviewing, FcOpen
<1>2. ASSUME NEW q \in FcRequest, NEW W, Commits(q, W)
      PROVE  \A p \in Reviewing' : fcReq'[p].stage = "pmu"
  <2> SUFFICES ASSUME NEW p \in Reviewing'
               PROVE  fcReq'[p].stage = "pmu"
    OBVIOUS
  <2>1. p \in FcRequest /\ fcReq'[p].pc # "idle" /\ fcReq'[p].op \notin StateOp
    BY DEF Reviewing, FcOpen
  <2>2. p # q
    BY <1>2, <2>1 DEF Commits, IdleFcReq
  <2>3. \/ fcReq'[p] = fcReq[p]
        \/ fcReq'[p] = [fcReq[p] EXCEPT !.missed = @ \cup W]
    BY <1>2, <2>1, <2>2 DEF Commits
  <2>4. /\ fcReq'[p].pc = fcReq[p].pc /\ fcReq'[p].op = fcReq[p].op
        /\ fcReq'[p].stage = fcReq[p].stage
    BY <1>0, <2>1, <2>3 DEF FcReqState
  <2>5. QED  BY <2>1, <2>4 DEF OnlyPmuReviews, Reviewing, FcOpen
<1>3. ASSUME NEW q \in FcRequest, NEW op \in StateOp, NEW answer \in FcAnswer,
             NEW L \in SUBSET FcUlb, ReadFcForm(q, op, answer, L)
      PROVE  OnlyPmuReviews'
  BY <1>1, <1>3 DEF ReadFcForm, IdleFcReq
<1>4. ASSUME NEW q \in FcRequest, NEW op \in FormOp \cup RowsOp, NEW stage \in Stage,
             ReadFcReview(q, op, stage)
      PROVE  OnlyPmuReviews'
  <2>1. stage = "pmu"
    BY <1>4 DEF ReadFcReview, OnlyPmuReviews, WithoutMohua, Stage
  <2>2. QED  BY <1>1, <1>4, <2>1 DEF ReadFcReview, IdleFcReq
<1>5. ASSUME NEW q \in FcRequest, \/ LoadRowsOfForm(q)
                                  \/ \E D \in SUBSET FcUlb : LoadRows(q, D)
                                  \/ BeginTransaction(q)
      PROVE  OnlyPmuReviews'
  <2>1. fcReq[q] \in FcReqState /\ fcReq[q].pc # "idle"
    BY <1>0, <1>5 DEF LoadRowsOfForm, LoadRows, BeginTransaction
  <2>2. fcReq[q].op \in StateOp \/ fcReq[q].stage = "pmu"
    BY <2>1 DEF OnlyPmuReviews, Reviewing, FcOpen
  <2>3. \A D : LET r == [fcReq[q] EXCEPT !.pc = "begin", !.ulbs = D]
               IN r.op \in StateOp \/ r.stage = "pmu"
    BY <2>1, <2>2 DEF FcReqState
  <2>4. LET r == [fcReq[q] EXCEPT !.pc = "commit", !.snap = fcRow]
        IN r.op \in StateOp \/ r.stage = "pmu"
    BY <2>1, <2>2 DEF FcReqState
  <2>5. IdleFcReq.pc = "idle"
    BY DEF IdleFcReq
  <2>6. QED
    BY <1>1, <1>5, <2>3, <2>4, <2>5 DEF LoadRowsOfForm, LoadRows, BeginTransaction, FcEnd
<1>6. ASSUME NEW q \in FcRequest, CommitState(q)
      PROVE  OnlyPmuReviews'
  <2> DEFINE W == {FcFormDoc} \cup Upserted(q) \cup Deactivated(q)
  <2>1. Commits(q, W)
    BY <1>6 DEF CommitState
  <2>2. \A u \in Upserted(q) : fcReq[q].snap[u] = fcRow[u] /\ u \in FcUlb
    BY <1>0, <2>1, WritesAreCurrent DEF Upserted, FcReqState
  <2>3. \A u \in FcUlb : fcRow'[u].status # "SUBMISSION_ACKNOWLEDGED_BY_MOHUA"
    <3> SUFFICES ASSUME NEW u \in FcUlb
                 PROVE  fcRow'[u].status # "SUBMISSION_ACKNOWLEDGED_BY_MOHUA"
      OBVIOUS
    <3>1. fcRow[u] \in FcRow /\ fcRow[u].status # "SUBMISSION_ACKNOWLEDGED_BY_MOHUA"
      BY <1>0 DEF OnlyPmuReviews
    <3>2. CASE u \in Upserted(q)
      BY <1>6, <2>2, <3>1, <3>2 DEF CommitState, UpsertedRow
    <3>3. CASE u \notin Upserted(q)
      BY <1>6, <3>1, <3>3 DEF CommitState, FcRow
    <3>4. QED  BY <3>2, <3>3
  <2>4. QED  BY <1>2, <1>6, <2>1, <2>3 DEF CommitState, OnlyPmuReviews
<1>7. ASSUME NEW q \in FcRequest, CommitReview(q)
      PROVE  OnlyPmuReviews'
  <2>1. PICK W : Commits(q, W)
    BY <1>7 DEF CommitReview
  <2>2. fcReq[q].stage = "pmu"
    BY <1>7 DEF CommitReview, Commits, OnlyPmuReviews, Reviewing, FcOpen
  <2>3. Verdict(q) # "SUBMISSION_ACKNOWLEDGED_BY_MOHUA"
    BY <2>2 DEF Verdict, Passed, SentBack
  <2>4. \A u \in FcUlb : fcRow'[u].status # "SUBMISSION_ACKNOWLEDGED_BY_MOHUA"
    BY <1>0, <1>7, <2>3 DEF CommitReview, DecidedRows, OnlyPmuReviews, FcRow
  <2>5. QED  BY <1>2, <1>7, <2>1, <2>4 DEF CommitReview, OnlyPmuReviews
<1>8. ASSUME NEW q \in FcRequest, Aborts(q)
      PROVE  OnlyPmuReviews'
  BY <1>1, <1>8 DEF Aborts, FcEnd, IdleFcReq
<1>9. CASE UNCHANGED fcVars
  BY <1>9 DEF fcVars, OnlyPmuReviews, Reviewing, FcOpen
<1>10. QED
  BY <1>3, <1>4, <1>5, <1>6, <1>7, <1>8, <1>9 DEF FcNext

\* The initial states satisfy the invariant.
LEMMA PmuInitInv == FcInit => PmuInv
<1> SUFFICES ASSUME FcInit
             PROVE  OnlyPmuReviews /\ PmuCanDecideUnlessSkewed
  BY FcInitInv DEF PmuInv
<1>1. OnlyPmuReviews
  BY DEF FcInit, OnlyPmuReviews, Reviewing, FcOpen, IdleFcReq, NoFcRow
<1>2. PmuCanDecide
  BY DEF FcInit, PmuCanDecide
<1>3. QED  BY <1>1, <1>2 DEF PmuCanDecideUnlessSkewed

\* Every step keeps it.
LEMMA PmuStepInv == WithoutMohua /\ PmuInv /\ [FcNext]_fcVars => PmuInv'
<1> SUFFICES ASSUME WithoutMohua, PmuInv, [FcNext]_fcVars, ~fcSkewed'
             PROVE  PmuCanDecide'
  BY FcStepInv, StepKeepsOnlyPmu DEF PmuInv, PmuCanDecideUnlessSkewed
<1>1. CASE \E q \in FcRequest : CommitState(q)
  BY <1>1, SubmitIsDecidable DEF PmuInv
<1>2. CASE \E q \in FcRequest : CommitReview(q)
  BY <1>2, DecisionIsSettled DEF PmuInv
<1>3. CASE UNCHANGED <<fcForm, fcRow, fcSkewed>>
  BY <1>3 DEF PmuInv, PmuCanDecideUnlessSkewed, PmuCanDecide, Decidable, ActiveIn, Active
<1>4. QED
  BY <1>1, <1>2, <1>3
  DEF FcNext, fcVars, ReadFcForm, ReadFcReview, LoadRowsOfForm, LoadRows, BeginTransaction, Aborts

\* Up to MoHUA's part, a form before PMU can be decided after any number of stale submits and
\* decisions, as long as no two transactions that overlap have both committed.
THEOREM PmuDecides ==
  ASSUME WithoutMohua
  PROVE  FcSpec => []PmuCanDecideUnlessSkewed
<1>1. PmuInv /\ [FcNext]_fcVars => PmuInv'
  BY PmuStepInv
<1>2. PmuInv => PmuCanDecideUnlessSkewed
  BY DEF PmuInv
<1>3. QED  BY <1>1, <1>2, PmuInitInv, PTL DEF FcSpec

-----------------------------------------------------------------------------
(* FC unspent declaration: what PMU finds on its table                     *)

\* The scenes in which nothing overlaps, or PMU alone reviews and has one request at a time.
CalmScenes ==
  /\ IsFiniteSet(FcRequest)
  /\ \A cast \in FcCasts :
       /\ cast.open \in Nat /\ cast.reviews \in Nat
       /\ cast.open <= 1 \/ (cast.reviews <= 1 /\ "mohua" \notin cast.ops)

\* There is one review at a time, and MoHUA's finds the form waiting for it until it ends.
ReviewsAreCalm ==
  /\ fcCast \in FcCasts
  /\ fcCast.open <= 1 => \A p, q \in FcOpen : p = q
  /\ \A p, q \in Reviewing : p = q
  /\ \A q \in Reviewing :
       fcReq[q].stage = "mohua" => fcCast.open <= 1 /\ fcForm.status = Waiting("mohua")

\* The rows a reviewer is about to decide still wait.
LoadedRowsWait ==
  \A q \in Reviewing : \A u \in fcReq[q].ulbs : fcRow[u].status = Waiting(fcReq[q].stage)

\* The transaction of the State knows which rows are active and which are approved, as long as it has
\* not missed another one of the State.
SubmitSeesRows ==
  \A q \in FcRequest, u \in FcUlb :
    fcReq[q].pc = "commit" /\ fcReq[q].op \in StateOp /\ FcFormDoc \notin fcReq[q].missed =>
      /\ fcReq[q].snap[u].active = fcRow[u].active
      /\ ApprovedRow(fcReq[q].snap[u]) => ApprovedRow(fcRow[u])

\* Rows are listed with a Yes only.
ListedWithYes ==
  \A q \in FcRequest :
    fcReq[q].op \in StateOp /\ fcReq[q].answer # "yes" => fcReq[q].ulbs = {}

TableInv ==
  /\ FcInv /\ ReviewsAreCalm /\ LoadedRowsWait /\ SubmitSeesRows /\ ListedWithYes
  /\ ReviewIsOfTheSubmit

\* Where fewer than one request may be open none is.
LEMMA NoneBelowOne ==
  ASSUME IsFiniteSet(FcRequest), NEW S \in SUBSET FcRequest, NEW n \in Nat, n <= 1, Cardinality(S) < n
  PROVE  S = {}
<1>1. IsFiniteSet(S)
  BY FS_Subset
<1>2. Cardinality(S) \in Nat
  BY <1>1, FS_CardinalityType
<1>3. Cardinality(S) = 0
  BY <1>2
<1>4. QED  BY <1>1, <1>3, FS_EmptySet

\* What a request that goes on as r has to satisfy.
Suits(q, r) ==
  /\ r.pc # "idle" => (fcCast.open <= 1 => FcOpen \subseteq {q})
  /\ r.pc # "idle" /\ r.op \notin StateOp =>
       /\ Reviewing \subseteq {q}
       /\ r.stage = "mohua" => fcCast.open <= 1 /\ fcForm.status = Waiting("mohua")
       /\ \A u \in r.ulbs : fcRow[u].status = Waiting(r.stage)
  /\ r.pc = "commit" => r.snap = fcRow
  /\ r.op \in StateOp /\ r.answer # "yes" => r.ulbs = {}

\* A request that reads, or ends without writing, keeps the invariant.
LEMMA ReadKeepsTable ==
  ASSUME TableInv, FcInv', NEW q \in FcRequest, NEW r, FcStep(q, r), Suits(q, r),
         UNCHANGED <<fcForm, fcRow, fcListed, fcCast>>
  PROVE  TableInv'
<1>0. fcReq \in [FcRequest -> FcReqState]
  BY DEF TableInv, FcInv, FcTypeOK
<1>1. fcReq'[q] = r /\ \A p \in FcRequest \ {q} : fcReq'[p] = fcReq[p]
  BY <1>0 DEF FcStep
<1>2. FcOpen' \subseteq FcOpen \cup {q} /\ Reviewing' \subseteq Reviewing \cup {q}
  BY <1>1 DEF FcOpen, Reviewing
<1>3. q \in FcOpen' => r.pc # "idle"
  BY <1>1 DEF FcOpen
<1>4. q \in Reviewing' => r.pc # "idle" /\ r.op \notin StateOp
  BY <1>1 DEF FcOpen, Reviewing
<1>5. FcOpen' \subseteq FcRequest /\ Reviewing' \subseteq FcRequest
  BY DEF FcOpen, Reviewing
<1>6. ReviewsAreCalm'
  <2>1. fcCast \in FcCasts /\ (fcCast.open <= 1 => \A p, t \in FcOpen : p = t)
          /\ \A p, t \in Reviewing : p = t
    BY DEF TableInv, ReviewsAreCalm
  <2>2. fcCast.open <= 1 => \A p, t \in FcOpen' : p = t
    BY <1>2, <1>3, <2>1 DEF Suits
  <2>3. \A p, t \in Reviewing' : p = t
    BY <1>2, <1>4, <2>1 DEF Suits
  <2>4. ASSUME NEW p \in Reviewing', fcReq'[p].stage = "mohua"
        PROVE  fcCast.open <= 1 /\ fcForm.status = Waiting("mohua")
    BY <1>1, <1>2, <1>4, <1>5, <2>4 DEF Suits, TableInv, ReviewsAreCalm
  <2>5. QED  BY <2>1, <2>2, <2>3, <2>4 DEF ReviewsAreCalm
<1>7. LoadedRowsWait'
  <2> SUFFICES ASSUME NEW p \in Reviewing', NEW u \in fcReq'[p].ulbs
               PROVE  fcRow[u].status = Waiting(fcReq'[p].stage)
    BY DEF LoadedRowsWait
  <2>1. QED  BY <1>1, <1>2, <1>4, <1>5 DEF Suits, TableInv, LoadedRowsWait
<1>8. SubmitSeesRows'
  BY <1>1 DEF Suits, TableInv, SubmitSeesRows
<1>9. ListedWithYes'
  BY <1>1 DEF Suits, TableInv, ListedWithYes
<1>10. ReviewIsOfTheSubmit'
  BY DEF TableInv, ReviewIsOfTheSubmit, Active, ApprovedRow
<1>11. QED  BY <1>6, <1>7, <1>8, <1>9, <1>10 DEF TableInv

\* A transaction that commits ends, and the others go on as they were, but for what they have missed.
LEMMA CommitsLeaveOthers ==
  ASSUME FcTypeOK, NEW q \in FcRequest, NEW W, Commits(q, W)
  PROVE  /\ fcReq'[q] = IdleFcReq
         /\ \A p \in FcRequest \ {q} :
              /\ fcReq'[p].pc = fcReq[p].pc /\ fcReq'[p].op = fcReq[p].op
              /\ fcReq'[p].stage = fcReq[p].stage /\ fcReq'[p].answer = fcReq[p].answer
              /\ fcReq'[p].ulbs = fcReq[p].ulbs /\ fcReq'[p].snap = fcReq[p].snap
              /\ fcReq[p].pc = "commit" => fcReq'[p].missed = fcReq[p].missed \cup W
         /\ FcOpen' \subseteq FcOpen \ {q} /\ Reviewing' \subseteq Reviewing \ {q}
<1>0. fcReq \in [FcRequest -> FcReqState]
  BY DEF FcTypeOK
<1>1. fcReq'[q] = IdleFcReq
  BY DEF Commits
<1>2. ASSUME NEW p \in FcRequest \ {q}
      PROVE  /\ fcReq'[p].pc = fcReq[p].pc /\ fcReq'[p].op = fcReq[p].op
             /\ fcReq'[p].stage = fcReq[p].stage /\ fcReq'[p].answer = fcReq[p].answer
             /\ fcReq'[p].ulbs = fcReq[p].ulbs /\ fcReq'[p].snap = fcReq[p].snap
             /\ fcReq[p].pc = "commit" => fcReq'[p].missed = fcReq[p].missed \cup W
  BY <1>0 DEF Commits, FcReqState
<1>3. FcOpen' \subseteq FcOpen \ {q} /\ Reviewing' \subseteq Reviewing \ {q}
  BY <1>1, <1>2 DEF FcOpen, Reviewing, IdleFcReq
<1>4. QED  BY <1>1, <1>2, <1>3

\* With fewer requests the reviews stay calm, if MoHUA's still find the form waiting.
LEMMA CommitsKeepCalm ==
  ASSUME TableInv, NEW q \in FcRequest, NEW W, Commits(q, W), UNCHANGED fcCast,
         fcCast.open <= 1 => q \in FcOpen
  PROVE  ReviewsAreCalm' /\ ListedWithYes'
<1>0. FcTypeOK /\ ReviewsAreCalm /\ ListedWithYes
  BY DEF TableInv, FcInv
<1>1. \A p \in Reviewing' : fcReq'[p].stage # "mohua"
  <2> SUFFICES ASSUME NEW p \in Reviewing', fcReq'[p].stage = "mohua"
               PROVE  FALSE
    OBVIOUS
  <2>1. p \in Reviewing /\ p # q /\ p \in FcRequest /\ fcReq[p].stage = "mohua" /\ p \in FcOpen
    BY <1>0, CommitsLeaveOthers DEF Reviewing, FcOpen
  <2>2. QED  BY <1>0, <2>1 DEF ReviewsAreCalm
<1>2. ReviewsAreCalm'
  BY <1>0, <1>1, CommitsLeaveOthers DEF ReviewsAreCalm
<1>3. ListedWithYes'
  BY <1>0, CommitsLeaveOthers DEF ListedWithYes, IdleFcReq
<1>4. QED  BY <1>2, <1>3

\* What the State writes: the rows it lists were open to it, the others keep their status.
LEMMA StateWritesRows ==
  ASSUME FcInv, NEW q \in FcRequest, CommitState(q), NEW u \in FcUlb
  PROVE  /\ u \in Upserted(q) => CanStateEditRow(fcRow[u]) /\ u \in fcReq[q].ulbs
         /\ u \notin Upserted(q) => fcRow'[u].status = fcRow[u].status
         /\ u \notin Upserted(q) /\ u \in Deactivated(q) => ~fcRow'[u].active
         /\ u \notin Upserted(q) /\ u \notin Deactivated(q) => fcRow'[u] = fcRow[u]
<1>0. FcTypeOK /\ fcRow[u] \in FcRow
  BY DEF FcInv, FcTypeOK
<1> DEFINE W == {FcFormDoc} \cup Upserted(q) \cup Deactivated(q)
<1>1. Commits(q, W)
  BY DEF CommitState
<1>2. u \in Upserted(q) => CanStateEditRow(fcRow[u]) /\ u \in fcReq[q].ulbs
  BY <1>1, WritesAreCurrent DEF Upserted
<1>3. u \notin Upserted(q) /\ u \in Deactivated(q) => fcRow'[u] = [fcRow[u] EXCEPT !.active = FALSE]
  BY DEF CommitState
<1>4. u \notin Upserted(q) /\ u \notin Deactivated(q) => fcRow'[u] = fcRow[u]
  BY DEF CommitState
<1>5. QED  BY <1>0, <1>2, <1>3, <1>4 DEF FcRow

\* A save or submit keeps the invariant.
LEMMA StateKeepsTable ==
  ASSUME TableInv, FcInv', NEW q \in FcRequest, CommitState(q)
  PROVE  TableInv'
<1>0. FcInv /\ FcTypeOK /\ fcReq[q] \in FcReqState
  BY DEF TableInv, FcInv, FcTypeOK
<1> DEFINE W == {FcFormDoc} \cup Upserted(q) \cup Deactivated(q)
<1>1. Commits(q, W) /\ fcReq[q].op \in StateOp /\ UNCHANGED fcCast /\ FcFormDoc \in W
  BY DEF CommitState
<1>2. fcReq[q].pc = "commit" /\ q \in FcOpen /\ FcFormDoc \notin fcReq[q].missed
  BY <1>1 DEF Commits, FcOpen
<1> HIDE DEF W
<1>3. ReviewsAreCalm' /\ ListedWithYes'
  BY <1>1, <1>2, CommitsKeepCalm
<1>4. LoadedRowsWait'
  <2> SUFFICES ASSUME NEW p \in Reviewing', NEW u \in fcReq'[p].ulbs
               PROVE  fcRow'[u].status = Waiting(fcReq'[p].stage)
    BY DEF LoadedRowsWait
  <2>1. p \in Reviewing /\ p \in FcRequest /\ p # q /\ fcReq[p] \in FcReqState
    BY <1>0, <1>1, CommitsLeaveOthers DEF Reviewing, FcOpen, FcTypeOK
  <2>2. u \in fcReq[p].ulbs /\ fcReq'[p].stage = fcReq[p].stage /\ u \in FcUlb
    BY <1>0, <1>1, <2>1, CommitsLeaveOthers DEF FcReqState
  <2>3. fcRow[u].status = Waiting(fcReq[p].stage)
    BY <2>1, <2>2 DEF TableInv, LoadedRowsWait
  <2>4. ~CanStateEditRow(fcRow[u])
    BY <2>3 DEF CanStateEditRow, Waiting
  <2>5. QED  BY <1>0, <2>2, <2>3, <2>4, StateWritesRows
<1>5. SubmitSeesRows'
  <2> SUFFICES ASSUME NEW p \in FcRequest, fcReq'[p].pc = "commit", FcFormDoc \notin fcReq'[p].missed
               PROVE  FALSE
    BY DEF SubmitSeesRows
  <2>1. p # q
    BY <1>0, <1>1, CommitsLeaveOthers DEF IdleFcReq
  <2>2. QED  BY <1>0, <1>1, <2>1, CommitsLeaveOthers
<1>6. ReviewIsOfTheSubmit'
  <2> SUFFICES ASSUME fcForm'.status = "UNDER_REVIEW_BY_PMU", NEW u \in FcUlb, fcRow'[u].active
               PROVE  fcForm'.answer = "yes" /\ (u \in fcListed' \/ ApprovedRow(fcRow'[u]))
    BY DEF ReviewIsOfTheSubmit, Active
  <2>1. fcReq[q].op = "submit" /\ fcListed' = fcReq[q].ulbs /\ fcForm'.answer = fcReq[q].answer
    BY DEF CommitState, StateOp
  <2>2. fcReq[q].snap[u].active = fcRow[u].active
          /\ (ApprovedRow(fcReq[q].snap[u]) => ApprovedRow(fcRow[u]))
    BY <1>1, <1>2 DEF TableInv, SubmitSeesRows
  <2>3. fcReq[q].answer # "yes" => fcReq[q].ulbs = {}
    BY <1>1 DEF TableInv, ListedWithYes
  <2>4. CASE u \in Upserted(q)
    BY <1>0, <2>1, <2>3, <2>4, StateWritesRows
  <2>5. CASE u \notin Upserted(q)
    <3>1. u \notin Deactivated(q) /\ fcRow'[u] = fcRow[u]
      BY <1>0, <2>5, StateWritesRows
    <3>2. u \in Active(fcReq[q].snap)
      BY <2>2, <3>1 DEF Active
    <3>3. fcReq[q].answer = "yes" /\ u \notin Omitted(q)
      BY <3>1, <3>2 DEF Deactivated
    <3>4. u \in fcReq[q].ulbs \/ ApprovedRow(fcReq[q].snap[u])
      BY <3>2, <3>3 DEF Omitted, ApprovedRow
    <3>5. QED  BY <2>1, <2>2, <3>1, <3>3, <3>4
  <2>6. QED  BY <2>4, <2>5
<1>7. QED  BY <1>3, <1>4, <1>5, <1>6 DEF TableInv

\* A decision keeps the invariant.
LEMMA ReviewKeepsTable ==
  ASSUME TableInv, FcInv', NEW q \in FcRequest, CommitReview(q)
  PROVE  TableInv'
<1>0. FcInv /\ FcTypeOK /\ fcReq[q] \in FcReqState /\ fcRow \in [FcUlb -> FcRow] /\ fcForm \in FcForm
  BY DEF TableInv, FcInv, FcTypeOK
<1> DEFINE W == fcReq[q].ulbs \cup (IF NextStatus(q) = {} THEN {} ELSE {FcFormDoc})
<1>1. Commits(q, W) /\ fcReq[q].op \notin StateOp /\ UNCHANGED <<fcCast, fcListed>>
  BY DEF CommitReview
<1>2. q \in FcOpen /\ q \in Reviewing
  BY <1>1 DEF Commits, FcOpen, Reviewing
<1> HIDE DEF W
<1>3. ReviewsAreCalm' /\ ListedWithYes'
  BY <1>1, <1>2, CommitsKeepCalm
<1>4. LoadedRowsWait'
  <2>1. Reviewing' = {}
    BY <1>0, <1>1, <1>2, CommitsLeaveOthers DEF TableInv, ReviewsAreCalm
  <2>2. QED  BY <2>1 DEF LoadedRowsWait
<1>5. \A u \in FcUlb :
        /\ fcRow'[u].active = fcRow[u].active
        /\ u \notin fcReq[q].ulbs => fcRow'[u] = fcRow[u]
        /\ u \in fcReq[q].ulbs => fcRow[u].status = Waiting(fcReq[q].stage)
  BY <1>0, <1>2 DEF CommitReview, DecidedRows, FcRow, TableInv, LoadedRowsWait
<1>6. SubmitSeesRows'
  <2> SUFFICES ASSUME NEW p \in FcRequest, NEW u \in FcUlb, fcReq'[p].pc = "commit",
                      fcReq'[p].op \in StateOp, FcFormDoc \notin fcReq'[p].missed
               PROVE  /\ fcReq'[p].snap[u].active = fcRow'[u].active
                      /\ ApprovedRow(fcReq'[p].snap[u]) => ApprovedRow(fcRow'[u])
    BY DEF SubmitSeesRows
  <2>1. p # q
    BY <1>0, <1>1, CommitsLeaveOthers DEF IdleFcReq
  <2>2. /\ fcReq[p].pc = "commit" /\ fcReq[p].op \in StateOp /\ FcFormDoc \notin fcReq[p].missed
        /\ fcReq'[p].snap = fcReq[p].snap
    BY <1>0, <1>1, <2>1, CommitsLeaveOthers
  <2>3. fcReq[p].snap[u].active = fcRow[u].active
          /\ (ApprovedRow(fcReq[p].snap[u]) => ApprovedRow(fcRow[u]))
    BY <2>2 DEF TableInv, SubmitSeesRows
  <2>4. fcReq[q].stage # "mohua"
    <3>1. p \in FcOpen
      BY <2>2 DEF FcOpen
    <3>2. QED  BY <1>2, <2>1, <3>1 DEF TableInv, ReviewsAreCalm
  <2>5. u \in fcReq[q].ulbs => ~ApprovedRow(fcRow[u])
    BY <1>0, <1>5, <2>4 DEF ApprovedRow, Waiting, FcReqState, Stage
  <2>6. QED  BY <1>5, <2>2, <2>3, <2>5
<1>7. ReviewIsOfTheSubmit'
  <2> SUFFICES ASSUME fcForm'.status = "UNDER_REVIEW_BY_PMU", NEW u \in FcUlb, fcRow'[u].active
               PROVE  fcForm'.answer = "yes" /\ (u \in fcListed \/ ApprovedRow(fcRow'[u]))
    BY <1>1 DEF ReviewIsOfTheSubmit, Active
  <2>1. fcForm' = fcForm
    <3>1. "UNDER_REVIEW_BY_PMU" \notin NextStatus(q)
      BY DEF NextStatus, Verdict, Passed, SentBack, PmuOutcome, Acknowledged
    <3>2. ASSUME NEW status, fcForm' = [fcForm EXCEPT !.status = status]
          PROVE  fcForm'.status = status
      BY <1>0, <3>2 DEF FcForm
    <3>3. QED  BY <3>1, <3>2 DEF CommitReview
  <2>2. fcForm.answer = "yes" /\ (u \in fcListed \/ ApprovedRow(fcRow[u]))
    BY <1>5, <2>1 DEF TableInv, ReviewIsOfTheSubmit, Active
  <2>3. fcReq[q].stage = "pmu"
    BY <1>0, <1>2, <2>1 DEF TableInv, ReviewsAreCalm, Waiting, FcReqState, Stage
  <2>4. u \in fcReq[q].ulbs => ~ApprovedRow(fcRow[u])
    BY <1>5, <2>3 DEF ApprovedRow, Waiting
  <2>5. QED  BY <1>5, <2>1, <2>2, <2>4
<1>8. QED  BY <1>3, <1>4, <1>6, <1>7 DEF TableInv

\* A request begins where no other may be open beside it, and goes on with what it reads.
LEMMA StepsKeepTable == CalmScenes /\ TableInv /\ [FcNext]_fcVars => TableInv'
<1> SUFFICES ASSUME CalmScenes, TableInv, [FcNext]_fcVars
             PROVE  TableInv'
  OBVIOUS
<1>0. FcInv /\ FcInv' /\ fcReq \in [FcRequest -> FcReqState] /\ ReviewsAreCalm
  BY FcStepInv DEF TableInv, FcInv, FcTypeOK
<1>1. fcCast.open \in Nat /\ fcCast.reviews \in Nat
        /\ (fcCast.open <= 1 \/ (fcCast.reviews <= 1 /\ "mohua" \notin fcCast.ops))
  BY <1>0 DEF CalmScenes, ReviewsAreCalm
<1>2. FcOpen \in SUBSET FcRequest /\ Reviewing \in SUBSET FcRequest /\ Reviewing \subseteq FcOpen
  BY DEF FcOpen, Reviewing
<1>3. Cardinality(FcOpen) < fcCast.open => (fcCast.open <= 1 => FcOpen = {})
  BY <1>1, <1>2, NoneBelowOne DEF CalmScenes
<1>4. Cardinality(Reviewing) < fcCast.reviews => (fcCast.reviews <= 1 => Reviewing = {})
  BY <1>1, <1>2, NoneBelowOne DEF CalmScenes
<1>5. ASSUME NEW q \in FcRequest, NEW op \in StateOp, NEW answer \in FcAnswer,
             NEW L \in SUBSET FcUlb, ReadFcForm(q, op, answer, L)
      PROVE  TableInv'
  <2> DEFINE r == [IdleFcReq EXCEPT !.pc = "begin", !.op = op, !.answer = answer, !.ulbs = L,
                                    !.number = fcSaves + 1]
  <2>1. r.pc = "begin" /\ r.op = op /\ r.answer = answer /\ r.ulbs = L
    BY DEF IdleFcReq
  <2>2. FcStep(q, r) /\ UNCHANGED <<fcForm, fcRow, fcListed, fcCast>>
          /\ (answer # "yes" => L = {}) /\ Cardinality(FcOpen) < fcCast.open
    BY <1>5 DEF ReadFcForm
  <2> HIDE DEF r
  <2>3. Suits(q, r)
    BY <1>3, <2>1, <2>2 DEF Suits
  <2>4. QED  BY <1>0, <2>2, <2>3, ReadKeepsTable
<1>6. ASSUME NEW q \in FcRequest, NEW op \in FormOp \cup RowsOp, NEW stage \in Stage,
             ReadFcReview(q, op, stage)
      PROVE  TableInv'
  <2> DEFINE r == [IdleFcReq EXCEPT !.pc = IF fcForm.answer = "yes" THEN "load" ELSE "begin",
                                    !.op = op, !.stage = stage]
  <2>1. r.pc \in {"load", "begin"} /\ r.op = op /\ r.stage = stage /\ r.ulbs = {}
    BY DEF IdleFcReq
  <2>2. FcStep(q, r) /\ UNCHANGED <<fcForm, fcRow, fcListed, fcCast>> /\ stage \in fcCast.ops
          /\ Cardinality(FcOpen) < fcCast.open /\ Cardinality(Reviewing) < fcCast.reviews
          /\ fcForm.status = Waiting(stage)
    BY <1>6 DEF ReadFcReview
  <2> HIDE DEF r
  <2>3. Reviewing = {} /\ (stage = "mohua" => fcCast.open <= 1)
    BY <1>1, <1>2, <1>3, <1>4, <2>2
  <2>4. op \notin StateOp
    BY DEF StateOp, FormOp, RowsOp
  <2>5. Suits(q, r)
    BY <1>3, <2>1, <2>2, <2>3, <2>4 DEF Suits
  <2>6. QED  BY <1>0, <2>2, <2>5, ReadKeepsTable
<1>7. ASSUME NEW q \in FcRequest, NEW D, D \subseteq ActiveIn(fcRow, {Waiting(fcReq[q].stage)}),
             fcReq[q].pc = "load", fcReq[q].op \notin StateOp,
             FcStep(q, [fcReq[q] EXCEPT !.pc = "begin", !.ulbs = D]),
             UNCHANGED <<fcForm, fcRow, fcListed, fcCast>>
      PROVE  TableInv'
  <2> DEFINE r == [fcReq[q] EXCEPT !.pc = "begin", !.ulbs = D]
  <2>1. r.pc = "begin" /\ r.op = fcReq[q].op /\ r.stage = fcReq[q].stage /\ r.ulbs = D
    BY <1>0 DEF FcReqState
  <2>2. q \in Reviewing /\ q \in FcOpen
    BY <1>7 DEF Reviewing, FcOpen
  <2>3. \A u \in D : fcRow[u].status = Waiting(fcReq[q].stage)
    BY <1>7 DEF ActiveIn
  <2>4. FcStep(q, r)
    BY <1>7
  <2> HIDE DEF r
  <2>5. Suits(q, r)
    BY <1>0, <1>7, <2>1, <2>2, <2>3 DEF Suits, ReviewsAreCalm
  <2>6. QED  BY <1>0, <1>7, <2>4, <2>5, ReadKeepsTable
<1>8. ASSUME NEW q \in FcRequest, FcEnd(q), UNCHANGED <<fcForm, fcRow, fcListed, fcCast>>
      PROVE  TableInv'
  <2>1. Suits(q, IdleFcReq)
    BY DEF Suits, IdleFcReq
  <2>2. QED  BY <1>0, <1>8, <2>1, ReadKeepsTable DEF FcEnd
<1>9. ASSUME NEW q \in FcRequest, LoadRowsOfForm(q) \/ \E D \in SUBSET FcUlb : LoadRows(q, D)
      PROVE  TableInv'
  <2>1. fcReq[q].pc = "load" /\ fcReq[q].op \notin StateOp
          /\ UNCHANGED <<fcForm, fcRow, fcListed, fcCast>>
    BY <1>9 DEF LoadRowsOfForm, LoadRows, FormOp, RowsOp, StateOp
  <2>2. \/ FcEnd(q)
        \/ \E D : /\ D \subseteq ActiveIn(fcRow, {Waiting(fcReq[q].stage)})
                  /\ FcStep(q, [fcReq[q] EXCEPT !.pc = "begin", !.ulbs = D])
    BY <1>9 DEF LoadRowsOfForm, LoadRows
  <2>3. QED  BY <1>7, <1>8, <2>1, <2>2
<1>10. ASSUME NEW q \in FcRequest, BeginTransaction(q)
       PROVE  TableInv'
  <2> DEFINE r == [fcReq[q] EXCEPT !.pc = "commit", !.snap = fcRow]
  <2>1. /\ r.pc = "commit" /\ r.op = fcReq[q].op /\ r.stage = fcReq[q].stage /\ r.ulbs = fcReq[q].ulbs
        /\ r.answer = fcReq[q].answer /\ r.snap = fcRow
    BY <1>0 DEF FcReqState
  <2>2. FcStep(q, r) /\ UNCHANGED <<fcForm, fcRow, fcListed, fcCast>> /\ q \in FcOpen
    BY <1>10 DEF BeginTransaction, FcOpen
  <2>3. fcReq[q].op \notin StateOp => q \in Reviewing
    BY <2>2 DEF Reviewing
  <2> HIDE DEF r
  <2>4. Suits(q, r)
    BY <1>0, <2>1, <2>2, <2>3 DEF Suits, ReviewsAreCalm, TableInv, LoadedRowsWait, ListedWithYes
  <2>5. QED  BY <1>0, <2>2, <2>4, ReadKeepsTable
<1>11. ASSUME NEW q \in FcRequest, Aborts(q)
       PROVE  TableInv'
  BY <1>8, <1>11 DEF Aborts
<1>12. CASE UNCHANGED fcVars
  BY <1>0, <1>12
  DEF fcVars, TableInv, ReviewsAreCalm, LoadedRowsWait, SubmitSeesRows, ListedWithYes,
      ReviewIsOfTheSubmit, Active, Reviewing, FcOpen
<1>13. QED
  BY <1>0, <1>5, <1>6, <1>9, <1>10, <1>11, <1>12, StateKeepsTable, ReviewKeepsTable DEF FcNext

\* What PMU finds on its table is the last submit, however many saves and submits overlap with each
\* other and with the one reviewer there is, or else, with MoHUA too, one request after the other.
THEOREM ReviewOfTheSubmit ==
  ASSUME CalmScenes
  PROVE  FcSpec => []ReviewIsOfTheSubmit
<1>1. FcInit => TableInv
  <2> SUFFICES ASSUME FcInit
               PROVE  TableInv
    OBVIOUS
  <2>1. \A q \in FcRequest : fcReq[q] = IdleFcReq
    BY DEF FcInit
  <2>2. FcOpen = {} /\ Reviewing = {}
    BY <2>1 DEF FcOpen, Reviewing, IdleFcReq
  <2>3. ReviewsAreCalm /\ LoadedRowsWait
    BY <2>2 DEF FcInit, ReviewsAreCalm, LoadedRowsWait
  <2>4. SubmitSeesRows /\ ListedWithYes
    BY <2>1 DEF SubmitSeesRows, ListedWithYes, IdleFcReq
  <2>5. QED  BY <2>3, <2>4, FcInitInv DEF FcInit, TableInv, ReviewIsOfTheSubmit
<1>2. TableInv /\ [FcNext]_fcVars => TableInv'
  BY StepsKeepTable
<1>3. TableInv => ReviewIsOfTheSubmit
  BY DEF TableInv
<1>4. QED  BY <1>1, <1>2, <1>3, PTL DEF FcSpec

-----------------------------------------------------------------------------
(* Side by side                                                            *)

\* Side by side, the SFC form and the exemptions behave as they do alone.
THEOREM BehavesAsStateForms == FormsSpec => StateFormsSpec
<1>1. FormsInit => StateFormsInit
  BY DEF FormsInit
<1>2. [FormsNext]_<<formVars, fcVars, eulbVars, dfVars>> => [StateFormsNext]_formVars
  BY DEF FormsNext
<1>3. QED  BY <1>1, <1>2, PTL DEF FormsSpec, StateFormsSpec

\* And so does the FC unspent declaration.
THEOREM BehavesAsFcUnspent == FormsSpec => FcSpec
<1>1. FormsInit => FcInit
  BY DEF FormsInit
<1>2. [FormsNext]_<<formVars, fcVars, eulbVars, dfVars>> => [FcNext]_fcVars
  BY DEF FormsNext
<1>3. QED  BY <1>1, <1>2, PTL DEF FormsSpec, FcSpec

\* And so does the form of the elected urban local bodies.
THEOREM BehavesAsElectedBodies == FormsSpec => EulbSpec
<1>1. FormsInit => EulbInit
  BY DEF FormsInit
<1>2. [FormsNext]_<<formVars, fcVars, eulbVars, dfVars>> => [EulbNext]_eulbVars
  BY DEF FormsNext
<1>3. QED  BY <1>1, <1>2, PTL DEF FormsSpec, EulbSpec

\* And so does the devolution formula.
THEOREM BehavesAsDevolutionFormula == FormsSpec => DfSpec
<1>1. FormsInit => DfInit
  BY DEF FormsInit
<1>2. [FormsNext]_<<formVars, fcVars, eulbVars, dfVars>> => [DfNext]_dfVars
  BY DEF FormsNext
<1>3. QED  BY <1>1, <1>2, PTL DEF FormsSpec, DfSpec

\* Type correctness of all of them.
THEOREM AllFormsTypeCorrect == FormsSpec => []FormsTypeOK
BY BehavesAsStateForms, BehavesAsFcUnspent, BehavesAsElectedBodies, BehavesAsDevolutionFormula,
   FormsTypeCorrect, FcTypeCorrect, EulbTypeCorrect, DfTypeCorrect, PTL
DEF FormsTypeOK

\* The rows there are belong to the active dataset version and came with one upload, in the form of
\* the elected bodies and in the devolution formula, however the requests on them overlap.
THEOREM DatasetsWhole == FormsSpec => []DatasetsAreWhole
BY BehavesAsElectedBodies, BehavesAsDevolutionFormula, OneDataset, DfOneDataset, PTL
DEF DatasetsAreWhole
=============================================================================

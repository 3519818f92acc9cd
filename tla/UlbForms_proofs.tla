----------------------------- MODULE UlbForms_proofs -----------------------------
(***************************************************************************)
(* Theorems about the utilisation report of a ULB, for any documents, any   *)
(* number of uploads, requests and validation runs, and any scenes; and     *)
(* that what is proved of it and of the annual accounts holds of the two    *)
(* side by side.                                                            *)
(***************************************************************************)
EXTENDS UlbForms, AnnualAccounts_proofs

-----------------------------------------------------------------------------
(* DUR: types                                                              *)

\* The uploads whose request has arrived.
DurArrived == {v \in DurUpload : durFiling[v].pc # "new"}

\* A version is at most the number of uploads that have arrived.
DurVersionsInv ==
  /\ \A u \in DurUpload : durFiling[u].version <= Cardinality(DurArrived)
  /\ \A d \in DurDocId : slot[d].version <= Cardinality(DurArrived)

\* A retry is of an upload.
DurQueueInv ==
  \A h \in DurHandler : durReq[h].op \in {"retry", "enqueue"} => durReq[h].on \in DurUpload

\* A run that has a job has one of the queued runs, but for the cron's.
DurJobInv ==
  \A w \in DurWorker :
    /\ run[w].pc \in {"submitted", "polling"} => run[w].job # 0
    /\ run[w].pc # "idle" /\ w[2] # 0 => w[2] <= queued[w[1]]

DurTypeInv == DurTypeOK /\ DurVersionsInv /\ DurQueueInv /\ DurJobInv

\* A document, an idle request and an idle run are of their types.
LEMMA DurIdleTyped ==
  ASSUME DurDocId # {}
  PROVE  AnyDurDoc \in DurDocId /\ DurIdle \in DurRequest /\ RunIdle \in RunState
BY DurAssumption, MaxAttemptsAssumption
DEF AnyDurDoc, DurIdle, DurRequest, RunIdle, RunState, Verdict, NoVerdict, Validation

LEMMA EmptySlotTyped == EmptySlot \in Slot
<1>1. Cardinality(DurUpload) \in Nat
  BY DurAssumption, FS_CardinalityType
<1>2. QED
  BY <1>1, DurAssumption, MaxAttemptsAssumption
  DEF EmptySlot, Slot, Processing, Validation, Verdict, NoVerdict, Cooldown

\* At first no upload has arrived.
LEMMA DurInitTyped ==
  ASSUME DurInit
  PROVE  DurTypeInv
<1>1. DurArrived = {}
  BY DEF DurInit, DurFormInit, DurArrived
<1>2. Cardinality(DurUpload) \in Nat /\ Cardinality({}) = 0
  BY DurAssumption, FS_CardinalityType, FS_EmptySet
<1>3. QED
  BY <1>1, <1>2, DurAssumption, DurIdleTyped, EmptySlotTyped
  DEF DurInit, DurFormInit, DurTypeInv, DurTypeOK, DurFormTypeOK, DurVersionsInv, DurQueueInv,
      DurJobInv, FormStatus, DurFiling, EmptySlot, DurIdle, RunIdle, Validation, DurWorker

\* What a run or the ADMIN makes of a document keeps its fields of their types.
LEMMA WithResultTyped ==
  ASSUME NEW item \in Slot, NEW r \in RunState
  PROVE  /\ WithResult(item, r) \in Slot
         /\ WithResult(item, r).version = item.version
         /\ WithResult(item, r).upload = item.upload
         /\ WithResult(item, r).requested = item.requested
<1>1. CASE r.result = "PASS"
  <2>1. /\ 0 \in 0..MaxAttempts /\ "PASSED" \in Processing /\ "PASS" \in Validation
        /\ NoVerdict \in Verdict \cup {NoVerdict} /\ "no" \in Cooldown
    BY MaxAttemptsAssumption DEF Processing, Validation, Cooldown
  <2>2. QED  BY <1>1, <2>1 DEF WithResult, Slot
<1>2. CASE r.result # "PASS"
  <2> DEFINE v == IF r.result = "FAIL" THEN "FAIL" ELSE item.validation
             s == IF r.counts THEN r.strikes ELSE item.strikes
             b == CASE r.counts /\ r.strikes = MaxAttempts -> "active"
                    [] r.counts /\ r.strikes # MaxAttempts /\ r.fresh -> "no"
                    [] OTHER -> item.blocked
  <2>1. v \in Validation /\ s \in 0..MaxAttempts
    BY DEF Slot, RunState, Validation
  <2>2. b \in Cooldown
    <3>1. CASE r.counts = TRUE /\ r.strikes = MaxAttempts
      BY <3>1 DEF Cooldown
    <3>2. CASE r.counts = TRUE /\ r.strikes # MaxAttempts /\ r.fresh = TRUE
      BY <3>2 DEF Cooldown
    <3>3. CASE r.counts = FALSE \/ (r.strikes # MaxAttempts /\ r.fresh = FALSE)
      BY <3>3 DEF Slot
    <3>4. QED  BY <3>1, <3>2, <3>3 DEF RunState
  <2>3. WithResult(item, r) = [item EXCEPT !.processing = "FAILED", !.validation = v,
                                           !.strikes = s, !.blocked = b]
    BY <1>2 DEF WithResult, Slot
  <2> HIDE DEF v, s, b
  <2>4. QED  BY ZenonT(40), <2>1, <2>2, <2>3 DEF Slot, Processing
<1>3. QED  BY <1>1, <1>2

LEMMA RulingTyped ==
  ASSUME NEW item \in Slot, NEW v \in Verdict
  PROVE  Ruling(item, v) \in Slot
<1>1. 0 \in 0..MaxAttempts /\ "PASSED" \in Processing
  BY MaxAttemptsAssumption DEF Processing
<1>2. QED  BY <1>1 DEF Ruling, Slot

\* A run that is over is one; so is one that has read the strikes.
LEMMA RunOverTyped ==
  ASSUME NEW w \in DurWorker
  PROVE  RunOver(w) \in RunState /\ RunOver(w).pc \in {"idle", "ended"}
BY DurAssumption, DurIdleTyped DEF RunOver, RunState, RunIdle

LEMMA NextStrikesTyped ==
  ASSUME NEW item \in Slot
  PROVE  NextStrikes(item) \in 0..MaxAttempts /\ Fresh(item) \in BOOLEAN
BY MaxAttemptsAssumption DEF NextStrikes, Fresh, Slot, Cooldown

\* Uploads that have arrived are finitely many, and never go.
LEMMA DurArrivedCounts ==
  /\ IsFiniteSet(DurArrived) /\ Cardinality(DurArrived) \in Nat
  /\ Cardinality(DurArrived) <= Cardinality(DurUpload)
  /\ Cardinality(DurUpload) \in Nat
  /\ \A u \in DurUpload \ DurArrived :
       Cardinality(DurArrived \cup {u}) = Cardinality(DurArrived) + 1
<1>1. DurArrived \in SUBSET DurUpload
  BY DEF DurArrived
<1>2. QED
  BY <1>1, DurAssumption, FS_Subset, FS_CardinalityType, FS_AddElement

\* A step that lets none arrive keeps the bound on versions, when it writes versions there were.
LEMMA DurVersionsStay ==
  ASSUME DurTypeInv, DurArrived' = DurArrived,
         \A u \in DurUpload : durFiling'[u].version = durFiling[u].version,
         \A d \in DurDocId : \/ slot'[d].version = slot[d].version
                             \/ \E u \in DurUpload : slot'[d].version = durFiling[u].version
  PROVE  DurVersionsInv'
BY DEF DurTypeInv, DurVersionsInv

\* Queueing one more run is no matter for those there are.
LEMMA DurJobsStay ==
  ASSUME DurTypeInv, run' = run,
         queued' = queued \/ \E u \in DurUpload : queued' = [queued EXCEPT ![u] = @ + 1]
  PROVE  DurJobInv'
<1>1. queued \in [DurUpload -> 0..DurMaxRuns]
  BY DEF DurTypeInv, DurTypeOK, DurFormTypeOK
<1>2. \A w \in DurWorker : w[1] \in DurUpload /\ w[2] \in Nat
  BY DurAssumption DEF DurWorker
<1>3. \A w \in DurWorker : w[2] <= queued[w[1]] => w[2] <= queued'[w[1]]
  BY <1>1, <1>2, DurAssumption
<1>4. QED  BY <1>3 DEF DurTypeInv, DurJobInv

\* The requests of uploads keep the types.
LEMMA DurConfirmTyped ==
  ASSUME DurTypeInv, NEW u \in DurUpload, DurConfirm(u), UNCHANGED <<verdict, run>>
  PROVE  DurTypeInv'
<1> USE DEF DurTypeInv
<1>0. durFiling \in [DurUpload -> DurFiling] /\ slot \in [DurDocId -> Slot]
  BY DEF DurTypeOK, DurFormTypeOK
<1>1. ASSUME NEW d \in DurDocId, DurCheckUpload(u, d)
      PROVE  DurTypeInv'
  <2>1. u \notin DurArrived /\ DurArrived' = DurArrived \cup {u}
    BY <1>0, <1>1 DEF DurCheckUpload, DurArrived
  <2>2. Cardinality(DurArrived') = Cardinality(DurArrived) + 1
    BY <2>1, DurArrivedCounts
  <2>3. Cardinality(DurArrived') <= Cardinality(DurUpload)
    <3>1. DurArrived' \in SUBSET DurUpload
      BY <2>1 DEF DurArrived
    <3>2. QED  BY <3>1, DurAssumption, FS_Subset
  <2>4. slot[d].version \in Nat /\ slot[d].version + 1 <= Cardinality(DurArrived')
    BY <2>2, <1>0, DurArrivedCounts DEF DurVersionsInv, Slot
  <2>5. [pc |-> "checked", docId |-> d, version |-> slot[d].version + 1] \in DurFiling
    <3>1. slot[d].version + 1 \in 0..Cardinality(DurUpload)
      BY <2>2, <2>3, <2>4, DurArrivedCounts
    <3>2. QED  BY <3>1 DEF DurFiling
  <2>6. DurFormTypeOK'
    BY <1>1, <2>5 DEF DurCheckUpload, DurTypeOK, DurFormTypeOK
  <2>7. DurVersionsInv'
    <3>1. \A v \in DurUpload : durFiling[v].version \in Nat
      BY <1>0, DurArrivedCounts DEF DurFiling
    <3>2. \A e \in DurDocId : slot[e].version \in Nat
      BY <1>0, DurArrivedCounts DEF Slot
    <3>3. slot' = slot /\ \A v \in DurUpload : \/ durFiling'[v].version = durFiling[v].version
                                               \/ durFiling'[v].version = slot[d].version + 1
      BY <1>0, <1>1 DEF DurCheckUpload
    <3> HIDE DEF DurTypeInv
    <3>4. QED
      BY <2>2, <2>4, <3>1, <3>2, <3>3, DurArrivedCounts DEF DurVersionsInv, DurTypeInv
  <2>8. DurQueueInv' /\ DurJobInv'
    BY <1>0, <1>1 DEF DurCheckUpload, DurQueueInv, DurJobInv
  <2>9. QED  BY <2>6, <2>7, <2>8, <1>1 DEF DurTypeOK, DurCheckUpload
<1>2. CASE DurTouchForm(u)
  <2>1. DurFormTypeOK'
    BY <1>2 DEF DurTouchForm, DurTypeOK, DurFormTypeOK, DurFiling, FormStatus
  <2>2. DurArrived' = DurArrived
    BY <1>0, <1>2 DEF DurTouchForm, DurArrived
  <2>3. DurVersionsInv'
    BY <2>2, <1>0, <1>2, DurVersionsStay DEF DurTouchForm, DurFiling
  <2>4. DurQueueInv' /\ DurJobInv'
    BY <1>0, <1>2 DEF DurTouchForm, DurQueueInv, DurJobInv
  <2>5. QED  BY <2>1, <2>3, <2>4, <1>2 DEF DurTypeOK, DurTouchForm
<1>3. CASE DurWriteSlot(u)
  <2> DEFINE f == durFiling[u]
             item == [slot[f.docId] EXCEPT !.upload = u, !.processing = "PROCESSING",
                        !.validation = "NONE", !.requested = FALSE, !.job = 0, !.version = f.version]
  <2>1. f \in DurFiling /\ item \in Slot /\ slot' = [slot EXCEPT ![f.docId] = item]
    <3>1. f \in DurFiling
      BY <1>0
    <3>2. slot[f.docId] \in Slot /\ f.version \in 0..Cardinality(DurUpload)
      BY <3>1, <1>0 DEF DurFiling
    <3>3. /\ "PROCESSING" \in Processing /\ "NONE" \in Validation /\ FALSE \in BOOLEAN
          /\ 0 \in 0..DurMaxRuns /\ u \in DurUpload \cup {NoUpload}
      BY DurAssumption DEF Processing, Validation
    <3>4. item \in Slot
      BY <3>2, <3>3 DEF Slot
    <3>5. QED  BY <3>1, <3>4, <1>3 DEF DurWriteSlot
  <2> HIDE DEF item
  <2>2. DurFormTypeOK'
    BY <2>1, <1>3 DEF DurWriteSlot, DurTypeOK, DurFormTypeOK, DurFiling
  <2>3. DurArrived' = DurArrived
    BY <1>0, <1>3 DEF DurWriteSlot, DurArrived
  <2>4. DurVersionsInv'
    <3>1. \A d \in DurDocId : slot'[d].version \in {slot[d].version, f.version}
      BY <2>1, <1>0 DEF item, Slot
    <3>2. QED  BY <2>3, <3>1, <1>0, <1>3, DurVersionsStay DEF DurWriteSlot, DurFiling
  <2>5. DurQueueInv' /\ DurJobInv'
    BY <1>0, <1>3 DEF DurWriteSlot, DurQueueInv, DurJobInv
  <2>6. QED  BY <2>2, <2>4, <2>5, <1>3 DEF DurTypeOK, DurWriteSlot
<1>4. CASE DurRecordUpload(u)
  <2>1. DurFormTypeOK'
    BY <1>4 DEF DurRecordUpload, DurTypeOK, DurFormTypeOK, DurFiling
  <2>2. DurArrived' = DurArrived
    BY <1>0, <1>4 DEF DurRecordUpload, DurArrived
  <2>3. DurVersionsInv'
    BY <2>2, <1>0, <1>4, DurVersionsStay DEF DurRecordUpload, DurFiling
  <2>4. DurQueueInv' /\ DurJobInv'
    BY <1>0, <1>4 DEF DurRecordUpload, DurQueueInv, DurJobInv
  <2>5. QED  BY <2>1, <2>3, <2>4, <1>4 DEF DurTypeOK, DurRecordUpload
<1>5. CASE DurEnqueueUpload(u)
  <2>1. queued[u] < DurMaxRuns
    BY <1>5 DEF DurEnqueueUpload
  <2>2. DurFormTypeOK'
    BY <2>1, <1>5, DurAssumption DEF DurEnqueueUpload, DurTypeOK, DurFormTypeOK, DurFiling
  <2>3. DurArrived' = DurArrived
    BY <1>0, <1>5 DEF DurEnqueueUpload, DurArrived
  <2>4. DurVersionsInv'
    BY <2>3, <1>0, <1>5, DurVersionsStay DEF DurEnqueueUpload, DurFiling
  <2>5. DurQueueInv'
    BY <1>0, <1>5 DEF DurEnqueueUpload, DurQueueInv, DurTypeOK, DurFormTypeOK
  <2>6. DurJobInv'
    BY <1>5, DurJobsStay DEF DurEnqueueUpload
  <2>7. QED  BY <2>2, <2>4, <2>5, <2>6, <1>5 DEF DurTypeOK, DurEnqueueUpload
<1>6. QED
  BY <1>1, <1>2, <1>3, <1>4, <1>5 DEF DurConfirm

\* A request that starts changes nothing but itself.
LEMMA DurStartTyped ==
  ASSUME DurTypeInv, NEW h \in DurHandler, NEW kind, NEW r \in DurRequest, DurStart(h, kind, r),
         r.op = "retry" => r.on \in DurUpload,
         r.op # "enqueue", UNCHANGED <<verdict, run>>
  PROVE  DurTypeInv'
<1> USE DEF DurTypeInv, DurStart
<1>1. DurTypeOK'
  BY DEF DurTypeOK, DurFormTypeOK
<1>2. DurVersionsInv' /\ DurJobInv'
  BY DEF DurVersionsInv, DurJobInv, DurArrived
<1>3. DurQueueInv'
  <2>1. durReq' = [durReq EXCEPT ![h] = r] /\ durReq \in [DurHandler -> DurRequest]
    BY DEF DurTypeOK, DurFormTypeOK
  <2>2. QED  BY <2>1 DEF DurQueueInv
<1>4. QED  BY <1>1, <1>2, <1>3

\* A request that ends, and changes at most documents beside, but not their versions, keeps the types.
LEMMA DurFinishTyped ==
  ASSUME DurTypeInv, NEW h \in DurHandler, DurFinish(h), durStatus' \in FormStatus,
         slot' \in [DurDocId -> Slot], rulings' \subseteq DurDocId,
         \A d \in DurDocId : slot'[d].version = slot[d].version,
         UNCHANGED <<durFiling, durCast, verdict, run>>,
         queued' = queued \/ \E u \in DurUpload : /\ queued[u] < DurMaxRuns
                                                 /\ queued' = [queued EXCEPT ![u] = @ + 1]
  PROVE  DurTypeInv'
<1> USE DEF DurTypeInv, DurFinish
<1>0. durReq \in [DurHandler -> DurRequest] /\ queued \in [DurUpload -> 0..DurMaxRuns]
  BY DEF DurTypeOK, DurFormTypeOK
<1>1. queued' \in [DurUpload -> 0..DurMaxRuns]
  BY <1>0, DurAssumption
<1>2. DurTypeOK'
  BY <1>1, DurAssumption, DurIdleTyped DEF DurTypeOK, DurFormTypeOK
<1>3. DurVersionsInv' /\ DurJobInv'
  BY DurJobsStay DEF DurVersionsInv, DurArrived
<1>4. DurQueueInv'
  BY <1>0 DEF DurQueueInv, DurIdle
<1>5. QED  BY <1>2, <1>3, <1>4

\* The requests of users keep the types.
LEMMA DurUserRequestTyped ==
  ASSUME DurTypeInv, NEW h \in DurHandler, DurUserRequest(h), UNCHANGED <<verdict, run>>
  PROVE  DurTypeInv'
<1>0. /\ durReq \in [DurHandler -> DurRequest] /\ slot \in [DurDocId -> Slot]
      /\ durStatus \in FormStatus /\ rulings \subseteq DurDocId
      /\ AnyDurDoc \in DurDocId /\ DurIdle \in DurRequest
      /\ durReq[h].docId \in DurDocId /\ durReq[h].verdict \in Verdict \cup {NoVerdict}
  BY DurAssumption, DurIdleTyped DEF DurTypeInv, DurTypeOK, DurFormTypeOK, DurRequest
<1>1. ASSUME NEW d \in DurDocId, DurBeginRetry(h, d)
      PROVE  DurTypeInv'
  <2> DEFINE r == [DurIdle EXCEPT !.op = "retry", !.docId = d, !.on = slot[d].upload]
  <2>1. r \in DurRequest /\ r.op = "retry" /\ r.on = slot[d].upload /\ r.on \in DurUpload
    BY <1>0, <1>1 DEF DurBeginRetry, DurRequest, DurIdle, Slot
  <2> HIDE DEF r
  <2>2. DurStart(h, "retry", r)
    BY <1>1, <2>1 DEF DurBeginRetry, r
  <2>3. QED  BY <2>1, <2>2, DurStartTyped
<1>2. ASSUME NEW d \in DurDocId, DurBeginAsk(h, d)
      PROVE  DurTypeInv'
  <2> DEFINE r == [DurIdle EXCEPT !.op = "ask", !.docId = d]
  <2>1. r \in DurRequest /\ r.op = "ask"
    BY <1>0 DEF DurRequest, DurIdle
  <2>2. QED  BY <1>2, <2>1, DurStartTyped DEF DurBeginAsk
<1>3. ASSUME NEW d \in DurDocId, NEW v \in Verdict, DurBeginRuling(h, d, v)
      PROVE  DurTypeInv'
  <2> DEFINE r == [DurIdle EXCEPT !.op = "decide", !.docId = d, !.verdict = v]
  <2>1. r \in DurRequest /\ r.op = "decide"
    BY <1>0 DEF DurRequest, DurIdle
  <2>2. QED  BY <1>3, <2>1, DurStartTyped DEF DurBeginRuling
<1>4. ASSUME NEW v \in Verdict, DurBeginDecide(h, v)
      PROVE  DurTypeInv'
  <2> DEFINE r == [DurIdle EXCEPT !.op = "section", !.verdict = v]
  <2>1. r \in DurRequest /\ r.op = "section"
    BY <1>0 DEF DurRequest, DurIdle
  <2>2. QED  BY <1>4, <2>1, DurStartTyped DEF DurBeginDecide
<1>5. ASSUME DurBeginSubmit(h) \/ DurBeginUndo(h)
      PROVE  DurTypeInv'
  <2>1. /\ [DurIdle EXCEPT !.op = "submit"] \in DurRequest
        /\ [DurIdle EXCEPT !.op = "undo"] \in DurRequest
        /\ [DurIdle EXCEPT !.op = "submit"].op = "submit"
        /\ [DurIdle EXCEPT !.op = "undo"].op = "undo"
    BY <1>0 DEF DurRequest, DurIdle
  <2>2. QED  BY <1>5, <2>1, DurStartTyped DEF DurBeginSubmit, DurBeginUndo
<1>6. CASE DurRetrySlot(h)
  <2>1. \A d \in DurDocId : [slot[d] EXCEPT !.processing = "PROCESSING"] \in Slot
    BY <1>0 DEF Slot, Processing
  <2>2. slot' \in [DurDocId -> Slot] /\ \A d \in DurDocId : slot'[d].version = slot[d].version
    BY <1>0, <1>6, <2>1 DEF DurRetrySlot, Slot
  <2>3. [durReq[h] EXCEPT !.op = "enqueue"] \in DurRequest
    BY <1>0 DEF DurRequest
  <2>4. durReq' \in [DurHandler -> DurRequest]
    BY <2>3, <1>0, <1>6 DEF DurRetrySlot
  <2>5. DurTypeOK' /\ DurVersionsInv' /\ DurJobInv'
    BY <1>6, <2>2, <2>4
    DEF DurRetrySlot, DurTypeInv, DurTypeOK, DurFormTypeOK, DurVersionsInv, DurJobInv, DurArrived
  <2>6. DurQueueInv'
    <3>1. /\ durFiling' = durFiling /\ queued' = queued /\ durReq[h].op = "retry"
          /\ durReq' = [durReq EXCEPT ![h] = [durReq[h] EXCEPT !.op = "enqueue"]]
      BY <1>6 DEF DurRetrySlot
    <3>2. durReq'[h].on = durReq[h].on /\ \A g \in DurHandler \ {h} : durReq'[g] = durReq[g]
      BY <3>1, <1>0 DEF DurRequest
    <3>3. QED  BY <3>1, <3>2 DEF DurTypeInv, DurQueueInv
  <2>7. QED  BY <2>5, <2>6 DEF DurTypeInv
<1>7. CASE DurEnqueueRetry(h)
  BY <1>0, <1>7, DurFinishTyped DEF DurEnqueueRetry, DurTypeInv, DurQueueInv
<1>8. CASE DurWriteStatus(h)
  <2>1. durStatus' \in FormStatus
    BY <1>0, <1>8 DEF DurWriteStatus, FormStatus, Verdict, NoVerdict, PendingStatus
  <2>2. QED  BY <1>0, <1>8, <2>1, DurFinishTyped DEF DurWriteStatus
<1>9. CASE DurAsk(h)
  <2>1. \A d \in DurDocId : [slot[d] EXCEPT !.requested = TRUE, !.review = NoVerdict] \in Slot
    BY ZenonT(40), <1>0 DEF Slot
  <2>2. slot' = [slot EXCEPT ![durReq[h].docId] =
                   [slot[durReq[h].docId] EXCEPT !.requested = TRUE, !.review = NoVerdict]]
    BY <1>9, <1>0 DEF DurAsk, Slot
  <2>3. slot' \in [DurDocId -> Slot] /\ \A d \in DurDocId : slot'[d].version = slot[d].version
    BY <1>0, <2>1, <2>2 DEF Slot
  <2>4. QED  BY <1>0, <1>9, <2>3, DurFinishTyped DEF DurAsk
<1>10. CASE DurRule(h)
  <2> DEFINE d == durReq[h].docId
             v == durReq[h].verdict
  <2>1. Ruling(slot[d], v) \in Slot /\ Ruling(slot[d], v).version = slot[d].version
    <3>1. 0 \in 0..MaxAttempts /\ "PASSED" \in Processing
      BY MaxAttemptsAssumption DEF Processing
    <3>2. slot[d] \in Slot
      BY <1>0
    <3>3. QED  BY <3>1, <3>2, <1>0 DEF Ruling, Slot
  <2>2. slot' \in [DurDocId -> Slot] /\ rulings' \subseteq DurDocId
    BY <1>0, <1>10, <2>1 DEF DurRule
  <2>3. \A e \in DurDocId : slot'[e].version = slot[e].version
    BY <1>0, <1>10, <2>1 DEF DurRule
  <2>4. QED  BY <1>0, <1>10, <2>2, <2>3, DurFinishTyped DEF DurRule
<1>11. QED
  BY <1>1, <1>2, <1>3, <1>4, <1>5, <1>6, <1>7, <1>8, <1>9, <1>10 DEF DurUserRequest

\* A request that dies, and the end of a cooldown, keep the types.
LEMMA DurMishapTyped ==
  ASSUME DurTypeInv, DurRequestDies \/ DurCooldownEnds, UNCHANGED <<verdict, run>>
  PROVE  DurTypeInv'
<1>0. /\ durFiling \in [DurUpload -> DurFiling] /\ slot \in [DurDocId -> Slot]
      /\ durStatus \in FormStatus /\ rulings \subseteq DurDocId
  BY DEF DurTypeInv, DurTypeOK, DurFormTypeOK
<1>1. ASSUME NEW u \in DurUpload, durFiling[u].pc \notin {"new", "done", "failed"},
             durFiling' = [durFiling EXCEPT ![u].pc = IF @ = "recorded" THEN "done" ELSE "failed"],
             UNCHANGED <<durReq, durStatus, slot, queued, durCast, rulings>>
      PROVE  DurTypeInv'
  <2> DEFINE next == IF durFiling[u].pc = "recorded" THEN "done" ELSE "failed"
  <2>1. durFiling' = [durFiling EXCEPT ![u] = [durFiling[u] EXCEPT !.pc = next]]
    BY <1>0, <1>1
  <2>2. [durFiling[u] EXCEPT !.pc = next] \in DurFiling
    BY <1>0 DEF DurFiling
  <2>3. /\ \A v \in DurUpload : durFiling'[v].version = durFiling[v].version
        /\ \A v \in DurUpload \ {u} : durFiling'[v] = durFiling[v]
        /\ durFiling'[u].pc \in {"done", "failed"}
    BY <1>0, <2>1 DEF DurFiling
  <2>4. DurArrived' = DurArrived
    BY <2>3, <1>1 DEF DurArrived
  <2>5. DurVersionsInv'
    BY <2>3, <2>4, <1>1, DurVersionsStay
  <2>6. DurTypeOK'
    BY <1>1, <2>1, <2>2 DEF DurTypeInv, DurTypeOK, DurFormTypeOK
  <2>7. DurQueueInv' /\ DurJobInv'
    BY <1>1, <2>3 DEF DurTypeInv, DurQueueInv, DurJobInv
  <2>8. QED  BY <2>5, <2>6, <2>7 DEF DurTypeInv
<1>2. ASSUME NEW h \in DurHandler, DurFinish(h),
             UNCHANGED <<durFiling, durStatus, slot, queued, durCast, rulings>>
      PROVE  DurTypeInv'
  BY <1>0, <1>2, DurFinishTyped
<1>3. CASE DurCooldownEnds
  <2>1. PICK d \in DurDocId : slot' = [slot EXCEPT ![d].blocked = "over"]
    BY <1>3 DEF DurCooldownEnds
  <2>2. slot' = [slot EXCEPT ![d] = [slot[d] EXCEPT !.blocked = "over"]]
    BY <2>1, <1>0
  <2>3. [slot[d] EXCEPT !.blocked = "over"] \in Slot
    BY <1>0 DEF Slot, Cooldown
  <2>4. /\ slot' \in [DurDocId -> Slot]
        /\ \A e \in DurDocId : slot'[e].version = slot[e].version
    BY <1>0, <2>2, <2>3 DEF Slot
  <2>5. QED
    BY <1>3, <2>4
    DEF DurCooldownEnds, DurTypeInv, DurTypeOK, DurFormTypeOK, DurVersionsInv, DurQueueInv, DurJobInv,
        DurArrived
<1>4. QED  BY <1>1, <1>2, <1>3 DEF DurRequestDies

\* What a run does keeps the types.
LEMMA DurRunTyped ==
  ASSUME DurTypeInv, run' \in [DurWorker -> RunState], verdict' \in [Job -> Validation \cup {"ERROR"}],
         DurJobInv', slot' \in [DurDocId -> Slot], queued' \in [DurUpload -> 0..DurMaxRuns],
         \A d \in DurDocId : slot'[d].version = slot[d].version,
         UNCHANGED <<durStatus, durFiling, durReq, durCast, rulings>>
  PROVE  DurTypeInv'
<1>1. DurTypeOK'
  BY DEF DurTypeInv, DurTypeOK, DurFormTypeOK
<1>2. DurVersionsInv' /\ DurQueueInv'
  BY DEF DurTypeInv, DurVersionsInv, DurQueueInv, DurArrived
<1>3. QED  BY <1>1, <1>2 DEF DurTypeInv

\* A run that is put to a state of its type, has a job and has been queued.
LEMMA DurRunStepTyped ==
  ASSUME DurTypeInv, NEW w \in DurWorker, NEW r \in RunState,
         r.pc \in {"submitted", "polling"} => r.job # 0,
         \/ run[w].pc # "idle" \/ w[2] = 0 \/ w[2] <= queued[w[1]],
         run' = [run EXCEPT ![w] = r],
         queued' = queued \/ \E u \in DurUpload : queued' = [queued EXCEPT ![u] = @ + 1]
  PROVE  run' \in [DurWorker -> RunState] /\ DurJobInv'
<1>1. run \in [DurWorker -> RunState] /\ queued \in [DurUpload -> 0..DurMaxRuns]
  BY DEF DurTypeInv, DurTypeOK, DurFormTypeOK
<1>2. \A v \in DurWorker : v[1] \in DurUpload /\ v[2] \in Nat
  BY DurAssumption DEF DurWorker
<1>3. \A v \in DurWorker : v[2] <= queued[v[1]] => v[2] <= queued'[v[1]]
  BY <1>1, <1>2, DurAssumption
<1>4. run' \in [DurWorker -> RunState]
  BY <1>1
<1>5. \A v \in DurWorker : run'[v] = IF v = w THEN r ELSE run[v]
  BY <1>1
<1>6. QED  BY <1>3, <1>4, <1>5 DEF DurTypeInv, DurJobInv

\* A write of a result, done or interrupted, keeps the types and the versions.
LEMMA DurInterruptedTyped ==
  ASSUME DurTypeInv, NEW w \in DurWorker, Interrupted(w) \/ slot' = WrittenSlots(w)
  PROVE  slot' \in [DurDocId -> Slot] /\ \A d \in DurDocId : slot'[d].version = slot[d].version
<1>1. slot \in [DurDocId -> Slot] /\ run[w] \in RunState
  BY DEF DurTypeInv, DurTypeOK, DurFormTypeOK
<1>2. CASE slot' = slot  BY <1>1, <1>2
<1>3. CASE slot' = WrittenSlots(w)
  <2>1. \A d \in DurDocId : /\ WithResult(slot[d], run[w]) \in Slot
                            /\ WithResult(slot[d], run[w]).version = slot[d].version
    BY <1>1, WithResultTyped
  <2>2. QED  BY <1>1, <1>3, <2>1 DEF WrittenSlots
<1>4. QED  BY <1>2, <1>3 DEF Interrupted

\* Validations keep the types.
LEMMA DurValidateTyped ==
  ASSUME DurTypeInv, NEW w \in DurWorker, Validate(w)
  PROVE  DurTypeInv'
<1>0. /\ run \in [DurWorker -> RunState] /\ slot \in [DurDocId -> Slot]
      /\ verdict \in [Job -> Validation \cup {"ERROR"}] /\ queued \in [DurUpload -> 0..DurMaxRuns]
      /\ durFiling \in [DurUpload -> DurFiling]
      /\ run[w] \in RunState /\ RunIdle \in RunState /\ w[1] \in DurUpload /\ w[2] \in 0..DurMaxRuns
      /\ w = <<w[1], w[2]>>
  BY DurAssumption, DurIdleTyped DEF DurTypeInv, DurTypeOK, DurFormTypeOK, DurWorker
<1>1. CASE SubmitJob(w)
  <2> DEFINE r == [RunIdle EXCEPT !.pc = "submitted", !.job = w[2], !.docId = durFiling[w[1]].docId]
  <2>1. durFiling[w[1]].docId \in DurDocId
    BY <1>0 DEF DurFiling
  <2>2. r \in RunState /\ r.job # 0 /\ w[2] <= queued[w[1]]
    <3>1. w[2] # 0 /\ w[2] <= queued[w[1]]
      BY <1>0, <1>1, DurAssumption DEF SubmitJob
    <3>2. QED  BY <1>0, <2>1, <3>1 DEF RunState
  <2>3. run' \in [DurWorker -> RunState] /\ DurJobInv'
    BY <1>1, <2>2, <1>0, DurRunStepTyped DEF SubmitJob, durRequests
  <2>4. verdict' \in [Job -> Validation \cup {"ERROR"}]
    BY <1>0, <1>1 DEF SubmitJob, Validation
  <2>5. QED
    BY <1>0, <1>1, <2>3, <2>4, DurRunTyped DEF SubmitJob, durRequests
<1>2. CASE RecordJobId(w)
  <2> DEFINE r == [run[w] EXCEPT !.pc = "polling"]
  <2>1. DurJobInv'
    <3>1. run' = [run EXCEPT ![w] = r] /\ run[w].pc = "submitted"
      BY <1>0, <1>2 DEF RecordJobId, RunPc
    <3>2. r.job = run[w].job /\ r \in RunState
      BY <1>0 DEF RunState
    <3>3. run[w].job # 0
      BY <3>1 DEF DurTypeInv, DurJobInv
    <3>4. QED  BY <1>0, <1>2, <3>1, <3>2, <3>3, DurRunStepTyped DEF RecordJobId
  <2>2. r \in RunState /\ run' = [run EXCEPT ![w] = r]
    BY <1>0, <1>2 DEF RecordJobId, RunPc, RunState
  <2>3. \A d \in DurDocId : /\ [slot[d] EXCEPT !.job = w[2]] \in Slot
                            /\ [slot[d] EXCEPT !.job = w[2]].version = slot[d].version
    BY <1>0 DEF Slot
  <2>4. /\ slot' \in [DurDocId -> Slot]
        /\ \A d \in DurDocId : slot'[d].version = slot[d].version
    BY <1>0, <1>2, <2>3 DEF RecordJobId
  <2>5. QED
    BY <1>0, <1>2, <2>1, <2>2, <2>4, DurRunTyped DEF RecordJobId
<1>3. CASE JobNotFound(w)
  <2>1. /\ [run[w] EXCEPT !.pc = "settled", !.result = "ERROR"] \in RunState
        /\ [run[w] EXCEPT !.pc = "settled", !.result = "ERROR"].pc \notin {"submitted", "polling"}
    BY <1>0 DEF RunState
  <2>2. run' = [run EXCEPT ![w] = [run[w] EXCEPT !.pc = "settled", !.result = "ERROR"]]
    BY <1>0, <1>3 DEF JobNotFound
  <2>3. run' \in [DurWorker -> RunState] /\ DurJobInv'
    BY <1>0, <1>3, <2>1, <2>2, DurRunStepTyped DEF JobNotFound, durRequests
  <2>4. QED
    BY <1>0, <1>3, <2>3, DurRunTyped DEF JobNotFound, durRequests
<1>e. CASE ProcessorError(w)
  <2> DEFINE r == [run[w] EXCEPT !.pc = "settled", !.result = "ERROR", !.counts = FALSE,
                                 !.caught = TRUE]
  <2>1. r \in RunState /\ r.pc \notin {"submitted", "polling"}
    BY <1>0 DEF RunState
  <2>2. run' = [run EXCEPT ![w] = r] /\ run[w].pc # "idle" /\ queued' = queued
    BY <1>e DEF ProcessorError
  <2>3. run' \in [DurWorker -> RunState] /\ DurJobInv'
    BY <1>0, <2>1, <2>2, DurRunStepTyped
  <2>4. slot' \in [DurDocId -> Slot] /\ \A d \in DurDocId : slot'[d].version = slot[d].version
    BY <1>e, DurInterruptedTyped DEF ProcessorError
  <2>5. QED
    BY <1>0, <1>e, <2>3, <2>4, DurRunTyped DEF ProcessorError
<1>4. CASE JobSettles(w)
  <2> DEFINE v == verdict[<<w[1], run[w].job>>]
             r == [run[w] EXCEPT !.result = v, !.pc = IF v = "PASS" THEN "write" ELSE "settled"]
  <2>1. run[w].job \in 1..DurMaxRuns
    BY <1>0, <1>4, DurAssumption DEF JobSettles, DurTypeInv, DurJobInv, RunState
  <2>2. v \in Validation \cup {"ERROR"}
    BY <1>0, <2>1 DEF Job
  <2>3. r \in RunState /\ r.pc \notin {"submitted", "polling"}
    BY <1>0, <2>2 DEF RunState
  <2>4. run' = [run EXCEPT ![w] = r]
    BY <1>0, <1>4 DEF JobSettles
  <2>5. run' \in [DurWorker -> RunState] /\ DurJobInv'
    BY <1>0, <1>4, <2>3, <2>4, DurRunStepTyped DEF JobSettles, durRequests
  <2>6. QED
    BY <1>0, <1>4, <2>5, DurRunTyped DEF JobSettles, durRequests
<1>5. CASE JobStillRuns(w)
  <2>1. run' \in [DurWorker -> RunState] /\ DurJobInv'
    BY <1>5, <1>0, RunOverTyped, DurRunStepTyped, DurAssumption DEF JobStillRuns, durRequests
  <2>2. QED
    BY <1>0, <1>5, <2>1, DurRunTyped DEF JobStillRuns, durRequests
<1>6. CASE DurReadStrikes(w)
  <2>1. run' \in [DurWorker -> RunState] /\ DurJobInv'
    <3>1. ASSUME NEW d \in SlotsOf(w),
                 run' = [run EXCEPT ![w] = [@ EXCEPT !.pc = "write", !.counts = TRUE,
                                        !.fresh = Fresh(slot[d]), !.strikes = NextStrikes(slot[d])]]
          PROVE  run' \in [DurWorker -> RunState] /\ DurJobInv'
      <4> DEFINE r == [run[w] EXCEPT !.pc = "write", !.counts = TRUE,
                                     !.fresh = Fresh(slot[d]), !.strikes = NextStrikes(slot[d])]
      <4>1. Fresh(slot[d]) \in BOOLEAN /\ NextStrikes(slot[d]) \in 0..MaxAttempts
        BY <1>0, <3>1, NextStrikesTyped DEF SlotsOf
      <4>2. r \in RunState /\ r.pc \notin {"submitted", "polling"}
        BY <1>0, <4>1 DEF RunState
      <4>3. run' = [run EXCEPT ![w] = r]
        BY <1>0, <3>1
      <4>4. QED  BY <1>0, <1>6, <4>2, <4>3, DurRunStepTyped DEF DurReadStrikes, durRequests
    <3>2. ASSUME RunPc(w, "write")
          PROVE  run' \in [DurWorker -> RunState] /\ DurJobInv'
      <4>1. run' = [run EXCEPT ![w] = [run[w] EXCEPT !.pc = "write"]]
        BY <1>0, <3>2 DEF RunPc
      <4>2. [run[w] EXCEPT !.pc = "write"] \in RunState /\ [run[w] EXCEPT !.pc = "write"].pc \notin {"submitted", "polling"}
        BY <1>0 DEF RunState
      <4>3. QED  BY <1>0, <1>6, <4>1, <4>2, DurRunStepTyped DEF DurReadStrikes, durRequests
    <3>3. QED  BY <1>6, <3>1, <3>2 DEF DurReadStrikes
  <2>2. QED
    BY <1>0, <1>6, <2>1, DurRunTyped DEF DurReadStrikes, durRequests
<1>7. CASE WriteResult(w)
  <2>1. run' \in [DurWorker -> RunState] /\ DurJobInv'
    BY <1>7, <1>0, RunOverTyped, DurRunStepTyped, DurAssumption DEF WriteResult, durRequests
  <2>2. /\ slot' \in [DurDocId -> Slot]
        /\ \A d \in DurDocId : slot'[d].version = slot[d].version
    BY <1>7, DurInterruptedTyped DEF WriteResult
  <2>3. QED
    BY <1>0, <1>7, <2>1, <2>2, DurRunTyped DEF WriteResult
<1>8. CASE RunDies(w)
  <2>1. run' \in [DurWorker -> RunState] /\ DurJobInv'
    BY <1>8, <1>0, RunOverTyped, DurRunStepTyped, DurAssumption DEF RunDies, durRequests
  <2>2. QED
    <3>1. queued' \in [DurUpload -> 0..DurMaxRuns]
      BY <1>0, <1>8, DurAssumption DEF RunDies
    <3>2. slot' \in [DurDocId -> Slot] /\ \A d \in DurDocId : slot'[d].version = slot[d].version
      BY <1>8, DurInterruptedTyped DEF RunDies
    <3>3. QED  BY <1>0, <1>8, <2>1, <3>1, <3>2, DurRunTyped DEF RunDies
<1>9. QED
  BY <1>1, <1>2, <1>3, <1>e, <1>4, <1>5, <1>6, <1>7, <1>8 DEF Validate

\* The cron keeps the types.
LEMMA StuckSlotTyped ==
  ASSUME DurTypeInv, NEW u \in DurUpload, NEW d \in DurDocId, StuckSlot(u, d)
  PROVE  DurTypeInv'
<1> DEFINE w == <<u, 0>>
           r == [RunIdle EXCEPT !.pc = "polling", !.docId = d, !.job = slot[d].job]
<1>1. w \in DurWorker /\ slot[d].job \in 0..DurMaxRuns /\ RunIdle \in RunState
  BY DurAssumption, DurIdleTyped DEF DurWorker, DurTypeInv, DurTypeOK, DurFormTypeOK, Slot
<1>2. r \in RunState /\ r.job # 0
  BY <1>1 DEF RunState, StuckSlot
<1>3. run' \in [DurWorker -> RunState] /\ DurJobInv'
  <2>1. w[2] = 0 /\ queued' = queued
    BY DEF StuckSlot, durRequests
  <2>2. QED  BY <1>1, <1>2, <2>1, DurRunStepTyped DEF StuckSlot
<1>4. QED
  BY <1>3, DurRunTyped DEF StuckSlot, durRequests, DurTypeInv, DurTypeOK, DurFormTypeOK

\* Every step keeps the types.
LEMMA DurStepTyped == DurTypeInv /\ [DurNext]_durVars => DurTypeInv'
<1> SUFFICES ASSUME DurTypeInv, [DurNext]_durVars
             PROVE  DurTypeInv'
  OBVIOUS
<1>1. CASE UNCHANGED durVars
  BY <1>1
  DEF durVars, durRequests, DurTypeInv, DurTypeOK, DurFormTypeOK, DurVersionsInv, DurQueueInv,
      DurJobInv, DurArrived
<1>2. QED
  BY <1>1, DurConfirmTyped, DurUserRequestTyped, DurMishapTyped, DurValidateTyped, StuckSlotTyped
  DEF DurNext

THEOREM DurTypeInvariant == DurSpec => []DurTypeInv
BY DurInitTyped, DurStepTyped, PTL DEF DurSpec

\* Type correctness of the utilisation report.
THEOREM DurTypeCorrect == DurSpec => []DurTypeOK
<1>1. DurTypeInv => DurTypeOK
  BY DEF DurTypeInv
<1>2. QED  BY <1>1, DurTypeInvariant, PTL

-----------------------------------------------------------------------------
(* DUR: evidence                                                           *)

\* A run that has not begun has no verdict yet, so no verdict is ever overwritten; and a run that
\* is about to write PASS has read it as the verdict of a job of its own upload.
DurEvidenceInv ==
  /\ DurPassedOnEvidence
  /\ \A w \in Job : run[w].pc = "idle" => verdict[w] = "NONE"
  /\ \A w \in DurWorker : run[w].pc \in {"settled", "write"} /\ run[w].result = "PASS" =>
       \E n \in 1..DurMaxRuns : verdict[<<w[1], n>>] = "PASS"

LEMMA DurEvidenceInit ==
  ASSUME DurInit
  PROVE  DurEvidenceInv
BY DEF DurInit, DurFormInit, DurEvidenceInv, DurPassedOnEvidence, EmptySlot, RunIdle, Job, DurWorker

\* With the verdicts there were, a run only has to have read its own when it is put to write PASS.
LEMMA DurEvidenceStays ==
  ASSUME DurEvidenceInv, rulings \subseteq rulings',
         \A w \in Job : verdict[w] = "PASS" => verdict'[w] = "PASS",
         \A w \in Job : run'[w].pc = "idle" => verdict'[w] = "NONE",
         \A d \in DurDocId : slot'[d].processing = "PASSED" =>
           \/ slot[d].processing = "PASSED" /\ slot'[d].upload = slot[d].upload
           \/ d \in rulings'
           \/ \E n \in 1..DurMaxRuns :
                slot'[d].upload # NoUpload /\ verdict'[<<slot'[d].upload, n>>] = "PASS",
         \A w \in DurWorker : run'[w].pc \in {"settled", "write"} /\ run'[w].result = "PASS" =>
           \/ run[w].pc \in {"settled", "write"} /\ run[w].result = "PASS"
           \/ \E n \in 1..DurMaxRuns : verdict'[<<w[1], n>>] = "PASS",
         slot \in [DurDocId -> Slot]
  PROVE  DurEvidenceInv'
<1>1. \A u \in DurUpload, n \in 1..DurMaxRuns :
        verdict[<<u, n>>] = "PASS" => verdict'[<<u, n>>] = "PASS"
  BY DEF Job
<1>2. \A w \in DurWorker : w[1] \in DurUpload
  BY DEF DurWorker
<1>3. \A d \in DurDocId : slot[d].upload # NoUpload => slot[d].upload \in DurUpload
  BY DEF Slot
<1>4. DurPassedOnEvidence'
  <2> SUFFICES ASSUME NEW d \in DurDocId, slot'[d].processing = "PASSED"
               PROVE  \/ d \in rulings'
                      \/ \E n \in 1..DurMaxRuns :
                           slot'[d].upload # NoUpload /\ verdict'[<<slot'[d].upload, n>>] = "PASS"
    BY DEF DurPassedOnEvidence
  <2>1. CASE slot[d].processing = "PASSED" /\ slot'[d].upload = slot[d].upload
    <3>1. CASE d \in rulings
      BY <3>1
    <3>2. ASSUME NEW n \in 1..DurMaxRuns, slot[d].upload # NoUpload,
                 verdict[<<slot[d].upload, n>>] = "PASS"
          PROVE  slot'[d].upload # NoUpload /\ verdict'[<<slot'[d].upload, n>>] = "PASS"
      BY <2>1, <3>2, <1>1, <1>3
    <3>3. QED  BY <2>1, <3>1, <3>2 DEF DurEvidenceInv, DurPassedOnEvidence
  <2>2. QED  BY <2>1
<1>5. QED  BY <1>1, <1>2, <1>4 DEF DurEvidenceInv

\* Requests write PASSED only with the ADMIN's ruling.
LEMMA DurEvidenceOfRequests ==
  ASSUME DurTypeInv, DurEvidenceInv, UNCHANGED <<verdict, run>>,
         \/ \E u \in DurUpload : DurConfirm(u)
         \/ \E h \in DurHandler : DurUserRequest(h)
         \/ DurRequestDies
         \/ DurCooldownEnds
  PROVE  DurEvidenceInv'
<1>0. slot \in [DurDocId -> Slot] /\ durReq \in [DurHandler -> DurRequest]
  BY ZenonT(30) DEF DurTypeInv, DurTypeOK, DurFormTypeOK
<1>1. ASSUME NEW d \in DurDocId, slot'[d].processing = "PASSED"
      PROVE  (slot[d].processing = "PASSED" /\ slot'[d].upload = slot[d].upload) \/ d \in rulings'
  <2>1. CASE UNCHANGED slot
    BY <2>1, <1>1
  <2>2. ASSUME NEW u \in DurUpload, DurWriteSlot(u)
        PROVE  slot[d].processing = "PASSED" /\ slot'[d].upload = slot[d].upload
    BY <2>2, <1>0, <1>1 DEF DurWriteSlot, Slot
  <2>3. ASSUME NEW h \in DurHandler, DurRetrySlot(h) \/ DurAsk(h)
        PROVE  slot[d].processing = "PASSED" /\ slot'[d].upload = slot[d].upload
    BY <2>3, <1>0, <1>1 DEF DurRetrySlot, DurAsk, Slot
  <2>4. ASSUME NEW h \in DurHandler, DurRule(h)
        PROVE  (slot[d].processing = "PASSED" /\ slot'[d].upload = slot[d].upload) \/ d \in rulings'
    <3> DEFINE e == durReq[h].docId
               v == durReq[h].verdict
    <3>1. CASE slot' = [slot EXCEPT ![e] = Ruling(@, v)]
      <4>1. CASE d # e
        BY <3>1, <4>1, <1>0, <1>1
      <4>2. CASE d = e
        <5>1. slot'[d] = Ruling(slot[d], v) /\ slot[d] \in Slot
          BY <3>1, <4>2, <1>0
        <5>2. CASE v = "APPROVED" /\ d \in rulings'
          BY <5>2
        <5>3. CASE v # "APPROVED"
          BY <5>1, <5>3, <1>1 DEF Ruling, Slot
        <5>4. v # "APPROVED" \/ d \in rulings' \/ UNCHANGED slot
          BY <2>4, <4>2 DEF DurRule
        <5>5. QED  BY <2>1, <5>2, <5>3, <5>4
      <4>3. QED  BY <4>1, <4>2
    <3>2. QED  BY <2>1, <2>4, <3>1 DEF DurRule
  <2>5. CASE DurCooldownEnds
    BY SMTT(40), <2>5, <1>0, <1>1 DEF DurCooldownEnds, Slot
  <2>6. QED
    BY ZenonT(40), <2>1, <2>2, <2>3, <2>4, <2>5
    DEF DurConfirm, DurCheckUpload, DurTouchForm, DurRecordUpload, DurEnqueueUpload, DurUserRequest,
        DurBeginRetry, DurBeginAsk, DurBeginRuling, DurBeginDecide, DurBeginSubmit, DurBeginUndo,
        DurEnqueueRetry, DurWriteStatus, DurStart, DurRequestDies
<1>2. rulings \subseteq rulings'
  BY ZenonT(40) DEF DurConfirm, DurCheckUpload, DurTouchForm, DurWriteSlot, DurRecordUpload, DurEnqueueUpload,
        DurUserRequest, DurBeginRetry, DurBeginAsk, DurBeginRuling, DurBeginDecide, DurBeginSubmit,
        DurBeginUndo, DurRetrySlot, DurEnqueueRetry, DurWriteStatus, DurAsk, DurRule, DurStart,
        DurRequestDies, DurCooldownEnds
<1>3. QED  BY <1>0, <1>1, <1>2, DurEvidenceStays DEF DurEvidenceInv

\* A result that is written passes only the document that holds the upload of the run, and as a job
\* of that upload passed.
LEMMA DurEvidenceOfWrite ==
  ASSUME DurTypeInv, DurEvidenceInv, NEW w \in DurWorker, verdict' = verdict,
         slot' = slot \/ (run[w].pc = "write" /\ slot' = WrittenSlots(w)),
         NEW d \in DurDocId, slot'[d].processing = "PASSED"
  PROVE  \/ slot[d].processing = "PASSED" /\ slot'[d].upload = slot[d].upload
         \/ \E n \in 1..DurMaxRuns :
              slot'[d].upload # NoUpload /\ verdict'[<<slot'[d].upload, n>>] = "PASS"
<1>1. /\ slot[d] \in Slot /\ run[w] \in RunState /\ w[1] \in DurUpload /\ w[1] # NoUpload
  BY DurAssumption DEF DurTypeInv, DurTypeOK, DurFormTypeOK, DurWorker
<1>2. CASE slot' = slot  BY <1>2
<1>3. CASE slot' = WrittenSlots(w) /\ d \notin SlotsOf(w)
  BY <1>3 DEF WrittenSlots, WritableSlots
<1>4. CASE run[w].pc = "write" /\ slot' = WrittenSlots(w) /\ d \in SlotsOf(w)
  <2>1. slot'[d] = WithResult(slot[d], run[w]) /\ slot[d].upload = w[1]
    BY <1>4 DEF WrittenSlots, WritableSlots, SlotsOf
  <2>2. slot'[d].upload = w[1]
    BY <2>1, <1>1, WithResultTyped
  <2>3. run[w].result = "PASS"
    BY <2>1, <1>1 DEF WithResult, Slot
  <2>4. QED
    BY <2>2, <2>3, <1>1, <1>4 DEF DurEvidenceInv
<1>5. QED  BY <1>2, <1>3, <1>4

\* A run writes PASS to the document that holds its upload.
LEMMA DurEvidenceOfRuns ==
  ASSUME DurTypeInv, DurEvidenceInv, NEW w \in DurWorker, Validate(w)
  PROVE  DurEvidenceInv'
<1>0. /\ run \in [DurWorker -> RunState] /\ slot \in [DurDocId -> Slot]
      /\ verdict \in [Job -> Validation \cup {"ERROR"}] /\ run[w] \in RunState
      /\ w[1] \in DurUpload /\ w[2] \in 0..DurMaxRuns /\ w = <<w[1], w[2]>> /\ w[1] # NoUpload
      /\ Job \subseteq DurWorker /\ (w[2] # 0 => w \in Job) /\ (w \in Job => w[2] # 0)
  BY DurAssumption DEF DurTypeInv, DurTypeOK, DurFormTypeOK, DurWorker, Job
<1>1. CASE SubmitJob(w)
  <2>1. w \in Job /\ verdict[w] = "NONE"
    BY <1>0, <1>1, DurAssumption DEF SubmitJob, DurEvidenceInv, DurTypeInv, DurTypeOK, DurFormTypeOK
  <2>2. \A v \in Job \ {w} : verdict'[v] = verdict[v] /\ run'[v] = run[v]
    BY <1>0, <1>1 DEF SubmitJob
  <2>3. run'[w].pc = "submitted"
    BY <1>0, <1>1 DEF SubmitJob, RunIdle
  <2>4. \A v \in DurWorker \ {w} : run'[v] = run[v]
    BY <1>0, <1>1 DEF SubmitJob
  <2>5. slot' = slot /\ rulings' = rulings
    BY <1>1 DEF SubmitJob, durRequests
  <2>6. QED
    BY <1>0, <2>1, <2>2, <2>3, <2>4, <2>5, DurEvidenceStays DEF DurEvidenceInv
<1>2. CASE JobSettles(w)
  <2> DEFINE v == verdict[<<w[1], run[w].job>>]
  <2>1. run[w].job \in 1..DurMaxRuns
    BY <1>0, <1>2, DurAssumption DEF JobSettles, DurTypeInv, DurJobInv, RunState
  <2>2. /\ \A x \in DurWorker \ {w} : run'[x] = run[x]
        /\ run'[w].result = v /\ run'[w].pc # "idle"
        /\ UNCHANGED <<slot, rulings, verdict>>
    BY <1>0, <1>2 DEF JobSettles, RunState, durRequests
  <2> HIDE DEF v
  <2>3. v = "PASS" => \E n \in 1..DurMaxRuns : verdict'[<<w[1], n>>] = "PASS"
    BY <2>1, <2>2 DEF v
  <2>4. QED
    BY <1>0, <2>2, <2>3, DurEvidenceStays DEF DurEvidenceInv
<1>3. CASE WriteResult(w)
  <2>1. /\ \A x \in DurWorker \ {w} : run'[x] = run[x]
        /\ run'[w].pc \notin {"settled", "write"} /\ (w \in Job => run'[w].pc # "idle")
        /\ UNCHANGED <<rulings, verdict>>
    BY <1>0, <1>3, DurAssumption DEF WriteResult, RunOver, RunIdle
  <2>2. run[w].pc = "write" /\ slot' = WrittenSlots(w)
    BY <1>3 DEF WriteResult
  <2>3. QED
    BY <1>0, <2>1, <2>2, DurEvidenceOfWrite, DurEvidenceStays DEF DurEvidenceInv
<1>4. CASE RecordJobId(w)
  <2>1. /\ \A x \in DurWorker \ {w} : run'[x] = run[x]
        /\ run'[w].pc = "polling" /\ UNCHANGED <<rulings, verdict>>
    BY <1>0, <1>4 DEF RecordJobId, RunPc, RunState
  <2>2. \A d \in DurDocId : /\ slot'[d].processing = slot[d].processing
                            /\ slot'[d].upload = slot[d].upload
    BY <1>0, <1>4 DEF RecordJobId, Slot
  <2>3. QED
    BY <1>0, <2>1, <2>2, DurEvidenceStays DEF DurEvidenceInv
<1>5. CASE DurReadStrikes(w)
  <2>1. /\ \A x \in DurWorker \ {w} : run'[x] = run[x]
        /\ run[w].pc = "settled" /\ run'[w].pc = "write" /\ run'[w].result = run[w].result
        /\ UNCHANGED <<slot, rulings, verdict>>
    <3>1. ASSUME NEW d \in SlotsOf(w),
                 run' = [run EXCEPT ![w] = [@ EXCEPT !.pc = "write", !.counts = TRUE,
                                        !.fresh = Fresh(slot[d]), !.strikes = NextStrikes(slot[d])]]
          PROVE  /\ \A x \in DurWorker \ {w} : run'[x] = run[x]
                 /\ run'[w].pc = "write" /\ run'[w].result = run[w].result
      BY <1>0, <3>1 DEF RunState
    <3>2. ASSUME RunPc(w, "write")
          PROVE  /\ \A x \in DurWorker \ {w} : run'[x] = run[x]
                 /\ run'[w].pc = "write" /\ run'[w].result = run[w].result
      BY <1>0, <3>2 DEF RunPc, RunState
    <3>3. QED  BY <1>5, <3>1, <3>2 DEF DurReadStrikes, durRequests
  <2>2. QED
    BY <1>0, <2>1, DurEvidenceStays DEF DurEvidenceInv
<1>6. CASE ProcessorError(w) \/ JobNotFound(w) \/ JobStillRuns(w) \/ RunDies(w)
  <2>1. /\ \A x \in DurWorker \ {w} : run'[x] = run[x]
        /\ run'[w].pc \in {"settled", "write"} => run'[w].result # "PASS"
        /\ w \in Job => run'[w].pc # "idle"
        /\ UNCHANGED <<rulings, verdict>>
    <3>1. CASE ProcessorError(w)
      <4>1. run' = [run EXCEPT ![w] = [run[w] EXCEPT !.pc = "settled", !.result = "ERROR",
                                                     !.counts = FALSE, !.caught = TRUE]]
        BY <3>1 DEF ProcessorError
      <4>2. run'[w].pc = "settled" /\ run'[w].result = "ERROR"
        BY <1>0, <4>1 DEF RunState
      <4>3. QED  BY <1>0, <3>1, <4>1, <4>2 DEF ProcessorError
    <3>2. CASE JobNotFound(w)
      BY <1>0, <3>2 DEF JobNotFound, RunState, durRequests
    <3>3. CASE JobStillRuns(w) \/ RunDies(w)
      <4>1. run' = [run EXCEPT ![w] = RunOver(w)] /\ UNCHANGED <<rulings, verdict>>
        BY <3>3 DEF JobStillRuns, RunDies, durRequests
      <4>2. RunOver(w).pc \in {"idle", "ended"} /\ (w \in Job => RunOver(w).pc = "ended")
        BY DurAssumption DEF RunOver, RunIdle, Job
      <4>3. QED  BY <1>0, <4>1, <4>2
    <3>4. QED  BY <1>6, <3>1, <3>2, <3>3
  <2>2. slot' = slot \/ (run[w].pc = "write" /\ slot' = WrittenSlots(w))
    BY <1>6 DEF ProcessorError, JobNotFound, JobStillRuns, RunDies, Interrupted, durRequests
  <2>3. QED
    BY <1>0, <2>1, <2>2, DurEvidenceOfWrite, DurEvidenceStays DEF DurEvidenceInv
<1>7. QED
  BY <1>1, <1>2, <1>3, <1>4, <1>5, <1>6 DEF Validate

LEMMA DurEvidenceStep == DurTypeInv /\ DurEvidenceInv /\ [DurNext]_durVars => DurEvidenceInv'
<1> SUFFICES ASSUME DurTypeInv, DurEvidenceInv, [DurNext]_durVars
             PROVE  DurEvidenceInv'
  OBVIOUS
<1>1. CASE UNCHANGED durVars
  BY <1>1 DEF durVars, durRequests, DurEvidenceInv, DurPassedOnEvidence
<1>2. ASSUME NEW u \in DurUpload, NEW d \in DurDocId, StuckSlot(u, d)
      PROVE  DurEvidenceInv'
  <2> DEFINE w == <<u, 0>>
  <2>1. /\ run \in [DurWorker -> RunState] /\ slot \in [DurDocId -> Slot]
        /\ w \in DurWorker /\ w \notin Job /\ Job \subseteq DurWorker
    BY DurAssumption DEF DurTypeInv, DurTypeOK, DurFormTypeOK, DurWorker, Job
  <2>2. /\ \A x \in DurWorker \ {w} : run'[x] = run[x]
        /\ run'[w].pc = "polling" /\ UNCHANGED <<slot, rulings, verdict>>
    BY <2>1, <1>2 DEF StuckSlot, RunIdle, durRequests
  <2>3. QED
    BY <2>1, <2>2, DurEvidenceStays DEF DurEvidenceInv
<1>3. QED
  BY <1>1, <1>2, DurEvidenceOfRequests, DurEvidenceOfRuns DEF DurNext

\* A document of the utilisation report passes on the verdict about the file it holds, or on the
\* ADMIN's ruling, never on a late verdict about another file.
THEOREM DurEvidence == DurSpec => []DurPassedOnEvidence
<1>1. DurInit => DurEvidenceInv
  BY DurEvidenceInit
<1>2. DurEvidenceInv => DurPassedOnEvidence
  BY DEF DurEvidenceInv
<1>3. QED
  BY <1>1, <1>2, DurEvidenceStep, DurTypeInvariant, PTL DEF DurSpec

-----------------------------------------------------------------------------
(* DUR: what is submitted has passed                                       *)

\* The scenes that DurSubmittedPassed is about.
DurPlain ==
  durCast.open = 1 /\ "retry" \notin durCast.ops /\ ~durCast.cron /\ ~durCast.faults

DurBusy(u) == durFiling[u].pc \notin {"new", "done", "failed"}

\* One request at a time.
DurOneAtATime ==
  /\ \A u, v \in DurUpload : DurBusy(u) /\ DurBusy(v) => u = v
  /\ \A g, h \in DurHandler : durReq[g] # DurIdle /\ durReq[h] # DurIdle => g = h
  /\ \A u \in DurUpload, h \in DurHandler : DurBusy(u) => durReq[h] = DurIdle

\* Neither retries nor the cron, so jobs are queued only for uploads whose request is over, and at most
\* the last queued run of an upload is not over.
DurOneRun ==
  /\ \A h \in DurHandler : durReq[h].op \notin {"retry", "enqueue"}
  /\ \A u \in DurUpload : queued[u] > 0 => durFiling[u].pc \in {"done", "failed"}
  /\ \A u \in DurUpload : /\ run[<<u, 0>>].pc = "idle"
                          /\ \A n \in 1..(queued[u] - 1) : run[<<u, n>>].pc = "ended"

\* The upload has had its validation.
DurOver(u) ==
  /\ durFiling[u].pc \in {"done", "failed"}
  /\ \A n \in 1..queued[u] : run[<<u, n>>].pc = "ended"

\* A document that passed, or has a verdict, is not validated any more; only such a one is reviewed.
DurVerdictStands ==
  /\ \A d \in DurDocId :
       /\ slot[d].upload # NoUpload /\ (slot[d].processing = "PASSED" \/ slot[d].validation # "NONE")
            => DurOver(slot[d].upload)
       /\ slot[d].requested => slot[d].upload # NoUpload /\ slot[d].validation # "NONE"
  /\ \A h \in DurHandler :
       LET item == slot[durReq[h].docId]
       IN /\ durReq[h].op = "ask" => item.upload # NoUpload /\ item.validation # "NONE"
          /\ durReq[h].op = "decide" => item.requested

\* While the State has the form no upload is under way, and a submit on its way has read that all passed.
DurWithState ==
  /\ durStatus \in {"UNDER_REVIEW_BY_STATE", "APPROVED_BY_STATE"} =>
       DurAllPassed /\ \A u \in DurUpload : ~DurBusy(u)
  /\ \A h \in DurHandler : durReq[h].op \in {"submit", "section", "undo"} => DurAllPassed

DurPlainInv == DurPlain => DurOneAtATime /\ DurOneRun /\ DurVerdictStands /\ DurWithState

\* When a request may start in a scene of one request at a time, none is open.
LEMMA DurNoneOpen ==
  ASSUME DurOneAtATime, durCast.open = 1, Cardinality(DurOpen) < durCast.open
  PROVE  /\ \A u \in DurUpload : ~DurBusy(u)
         /\ \A h \in DurHandler : durReq[h] = DurIdle
<1>1. ASSUME NEW x \in DurOpen
      PROVE  DurOpen = {x}
  BY DEF DurOneAtATime, DurOpen, DurBusy
<1>2. DurOpen = {}
  <2>1. ASSUME NEW x \in DurOpen
        PROVE  FALSE
    <3>1. DurOpen = {x}
      BY <1>1
    <3>2. Cardinality({x}) = 1
      BY FS_Singleton
    <3>3. QED  BY <3>1, <3>2
  <2>2. QED  BY <2>1
<1>3. QED  BY <1>2 DEF DurOpen, DurBusy

LEMMA DurPlainInit ==
  ASSUME DurInit
  PROVE  DurPlainInv
<1>1. \A u \in DurUpload : run[<<u, 0>>] = RunIdle
  BY DurAssumption DEF DurInit, DurWorker
<1>2. \A h \in DurHandler : durReq[h] = DurIdle /\ durReq[h].op = "none"
  BY DEF DurInit, DurFormInit, DurIdle
<1>3. DurOneAtATime
  BY <1>2 DEF DurInit, DurFormInit, DurOneAtATime, DurBusy
<1>4. DurOneRun
  <2>1. 1..(0 - 1) = {} /\ RunIdle.pc = "idle" /\ \A u \in DurUpload : queued[u] = 0
    BY DEF DurInit, DurFormInit, RunIdle
  <2>2. QED  BY <1>1, <1>2, <2>1 DEF DurOneRun
<1>5. DurVerdictStands
  BY <1>2 DEF DurInit, DurFormInit, DurVerdictStands, EmptySlot
<1>6. DurWithState
  BY <1>2 DEF DurInit, DurFormInit, DurWithState
<1>7. QED  BY <1>3, <1>4, <1>5, <1>6 DEF DurPlainInv

\* One request at a time stays so when none starts, and when one starts as no other is open.
LEMMA DurOneStays ==
  ASSUME DurOneAtATime,
         \/ /\ \A u \in DurUpload : DurBusy(u)' => DurBusy(u)
            /\ \A h \in DurHandler : durReq'[h] # DurIdle => durReq[h] # DurIdle
         \/ /\ \A u \in DurUpload : ~DurBusy(u)
            /\ \A h \in DurHandler : durReq[h] = DurIdle
            /\ \/ /\ \A h \in DurHandler : durReq'[h] = DurIdle
                  /\ \E u \in DurUpload : \A v \in DurUpload : DurBusy(v)' => v = u
               \/ /\ \A u \in DurUpload : ~DurBusy(u)'
                  /\ \E h \in DurHandler : \A g \in DurHandler : durReq'[g] # DurIdle => g = h
  PROVE  DurOneAtATime'
BY DEF DurOneAtATime, DurBusy

\* When an upload is over, it stays so if it is not queued again and its request and runs stay ended.
LEMMA DurOverStays ==
  ASSUME NEW u \in DurUpload, DurOver(u), queued'[u] = queued[u],
         durFiling'[u].pc \in {"done", "failed"},
         \A n \in 1..queued[u] : run'[<<u, n>>].pc = "ended" \/ run'[<<u, n>>] = run[<<u, n>>]
  PROVE  DurOver(u)'
BY DEF DurOver

\* The steps of an upload.
LEMMA DurPlainOfConfirm ==
  ASSUME DurTypeInv, DurPlain, DurPlainInv, NEW u \in DurUpload, DurConfirm(u), UNCHANGED <<verdict, run>>
  PROVE  DurPlainInv'
<1>0. /\ DurOneAtATime /\ DurOneRun /\ DurVerdictStands /\ DurWithState
      /\ durFiling \in [DurUpload -> DurFiling] /\ slot \in [DurDocId -> Slot]
      /\ durReq \in [DurHandler -> DurRequest] /\ queued \in [DurUpload -> 0..DurMaxRuns]
      /\ u # NoUpload
  BY DurAssumption DEF DurPlainInv, DurTypeInv, DurTypeOK, DurFormTypeOK
<1>1. ASSUME NEW d \in DurDocId, DurCheckUpload(u, d)
      PROVE  DurPlainInv'
  <2>1. /\ \A v \in DurUpload : ~DurBusy(v)
        /\ \A h \in DurHandler : durReq[h] = DurIdle
    BY <1>0, <1>1, DurNoneOpen DEF DurCheckUpload, DurPlain
  <2>2. /\ \A v \in DurUpload \ {u} : durFiling'[v] = durFiling[v]
        /\ durFiling'[u].pc = "checked" /\ durFiling[u].pc = "new"
        /\ UNCHANGED <<durStatus, slot, durReq, queued, run>>
    BY <1>0, <1>1 DEF DurCheckUpload
  <2>3. DurOneAtATime'
    BY <1>0, <2>1, <2>2, DurOneStays DEF DurBusy
  <2>4. DurOneRun'
    BY <1>0, <2>2 DEF DurOneRun
  <2>5. \A v \in DurUpload : DurOver(v) => DurOver(v)'
    BY <1>0, <2>2 DEF DurOver
  <2>6. DurVerdictStands'
    BY <1>0, <2>2, <2>5 DEF DurVerdictStands, Slot
  <2>7. DurWithState'
    BY <1>0, <1>1, <2>2 DEF DurWithState, DurCheckUpload, CanUlbUpload, UlbEditable, DurAllPassed
  <2>8. QED  BY <2>3, <2>4, <2>6, <2>7 DEF DurPlainInv
<1>2. CASE DurTouchForm(u) \/ DurRecordUpload(u)
  <2>1. /\ \A v \in DurUpload \ {u} : durFiling'[v] = durFiling[v]
        /\ DurBusy(u)
        /\ UNCHANGED <<slot, durReq, queued, run>>
        /\ durStatus' \in {durStatus, "IN_PROGRESS"}
    BY <1>0, <1>2 DEF DurTouchForm, DurRecordUpload, DurBusy
  <2>2. DurOneAtATime'
    BY <1>0, <2>1, DurOneStays DEF DurBusy
  <2>3. DurOneRun'
    BY <1>0, <2>1 DEF DurOneRun, DurBusy
  <2>4. \A v \in DurUpload : DurOver(v) => DurOver(v)'
    BY <1>0, <2>1 DEF DurOver, DurBusy
  <2>5. DurVerdictStands'
    BY <1>0, <2>1, <2>4 DEF DurVerdictStands, Slot
  <2>6. DurWithState'
    BY <1>0, <2>1 DEF DurWithState, DurAllPassed
  <2>7. QED  BY <2>2, <2>3, <2>5, <2>6 DEF DurPlainInv
<1>3. CASE DurEnqueueUpload(u)
  <2>1. /\ \A v \in DurUpload \ {u} : durFiling'[v] = durFiling[v] /\ queued'[v] = queued[v]
        /\ DurBusy(u) /\ durFiling'[u].pc = "done"
        /\ queued'[u] = queued[u] + 1 /\ queued[u] = 0
        /\ UNCHANGED <<durStatus, slot, durReq, run>>
    BY <1>0, <1>3 DEF DurEnqueueUpload, DurBusy, DurOneRun
  <2>2. DurOneAtATime'
    BY <1>0, <2>1, DurOneStays DEF DurBusy
  <2>3. DurOneRun'
    BY <1>0, <2>1 DEF DurOneRun
  <2>4. \A v \in DurUpload : DurOver(v) => DurOver(v)'
    BY <1>0, <2>1 DEF DurOver, DurBusy
  <2>5. DurVerdictStands'
    BY <1>0, <2>1, <2>4 DEF DurVerdictStands, Slot
  <2>6. DurWithState'
    BY <1>0, <2>1 DEF DurWithState, DurAllPassed
  <2>7. QED  BY <2>2, <2>3, <2>5, <2>6 DEF DurPlainInv
<1>4. CASE DurWriteSlot(u)
  <2> DEFINE d == durFiling[u].docId
  <2>1. /\ \A v \in DurUpload \ {u} : durFiling'[v] = durFiling[v]
        /\ DurBusy(u)
        /\ UNCHANGED <<durStatus, durReq, queued, run>>
    BY <1>0, <1>4 DEF DurWriteSlot, DurBusy
  <2>2. /\ \A e \in DurDocId \ {d} : slot'[e] = slot[e]
        /\ d \in DurDocId => /\ slot'[d].processing = "PROCESSING" /\ slot'[d].validation = "NONE"
                             /\ slot'[d].requested = FALSE
    BY <1>0, <1>4 DEF DurWriteSlot, Slot
  <2>3. \A h \in DurHandler : durReq[h] = DurIdle
    BY <1>0, <2>1 DEF DurOneAtATime
  <2>4. DurOneAtATime'
    BY <1>0, <2>1, DurOneStays DEF DurBusy
  <2>5. DurOneRun'
    BY <1>0, <2>1 DEF DurOneRun, DurBusy
  <2>6. \A v \in DurUpload : DurOver(v) => DurOver(v)'
    BY <1>0, <2>1 DEF DurOver, DurBusy
  <2>7. DurVerdictStands'
    BY <1>0, <2>1, <2>2, <2>3, <2>6 DEF DurVerdictStands, Slot, DurIdle
  <2>8. DurWithState'
    BY <1>0, <2>1, <2>3 DEF DurWithState, DurIdle
  <2>9. QED  BY <2>4, <2>5, <2>7, <2>8 DEF DurPlainInv
<1>5. QED
  BY <1>1, <1>2, <1>3, <1>4 DEF DurConfirm

\* A request that starts reads what its invariant says of it.
LEMMA DurPlainOfStart ==
  ASSUME DurTypeInv, DurPlain, DurPlainInv, NEW h \in DurHandler, NEW kind, NEW r \in DurRequest,
         DurStart(h, kind, r), UNCHANGED <<verdict, run>>, r.op \notin {"retry", "enqueue"},
         r.op = "ask" => slot[r.docId].upload # NoUpload /\ slot[r.docId].validation # "NONE",
         r.op = "decide" => slot[r.docId].requested,
         r.op \in {"submit", "section", "undo"} => DurAllPassed
  PROVE  DurPlainInv'
<1>0. /\ DurOneAtATime /\ DurOneRun /\ DurVerdictStands /\ DurWithState
      /\ durReq \in [DurHandler -> DurRequest] /\ slot \in [DurDocId -> Slot]
  BY DEF DurPlainInv, DurTypeInv, DurTypeOK, DurFormTypeOK
<1>1. /\ \A u \in DurUpload : ~DurBusy(u)
      /\ \A g \in DurHandler : durReq[g] = DurIdle
  BY <1>0, DurNoneOpen DEF DurStart, DurPlain
<1>2. /\ \A g \in DurHandler \ {h} : durReq'[g] = DurIdle
      /\ durReq'[h] = r
      /\ UNCHANGED <<durStatus, slot, durFiling, queued, run>>
  BY <1>0, <1>1 DEF DurStart
<1>3. DurOneAtATime'
  BY <1>0, <1>1, <1>2, DurOneStays DEF DurBusy
<1>4. DurOneRun'
  BY <1>0, <1>2 DEF DurOneRun, DurIdle
<1>5. DurVerdictStands'
  BY <1>0, <1>2 DEF DurVerdictStands, DurOver, DurIdle, Slot
<1>6. DurWithState'
  BY <1>0, <1>2 DEF DurWithState, DurAllPassed, DurBusy, DurIdle
<1>7. QED  BY <1>3, <1>4, <1>5, <1>6 DEF DurPlainInv

\* A request ends; documents that change are reviewed ones, over and left as validated.
LEMMA DurPlainOfFinish ==
  ASSUME DurTypeInv, DurPlain, DurPlainInv, NEW h \in DurHandler, DurFinish(h), durReq[h] # DurIdle,
         UNCHANGED <<durFiling, queued, verdict, run>>,
         durStatus' \in {"UNDER_REVIEW_BY_STATE", "APPROVED_BY_STATE"} =>
           durStatus' = durStatus \/ DurAllPassed,
         slot' \in [DurDocId -> Slot],
         \A d \in DurDocId :
           /\ slot'[d].upload = slot[d].upload /\ slot'[d].validation = slot[d].validation
           /\ slot'[d].processing = slot[d].processing \/ slot'[d].processing = "PASSED"
           /\ slot'[d] # slot[d] => slot[d].upload # NoUpload /\ slot[d].validation # "NONE"
  PROVE  DurPlainInv'
<1>0. /\ DurOneAtATime /\ DurOneRun /\ DurVerdictStands /\ DurWithState
      /\ durReq \in [DurHandler -> DurRequest] /\ slot \in [DurDocId -> Slot]
      /\ durStatus \in FormStatus
  BY DEF DurPlainInv, DurTypeInv, DurTypeOK, DurFormTypeOK
<1>1. \A g \in DurHandler : durReq'[g] = DurIdle
  BY <1>0 DEF DurFinish, DurOneAtATime
<1>2. \A u \in DurUpload : ~DurBusy(u) /\ ~DurBusy(u)'
  BY <1>0 DEF DurOneAtATime, DurBusy
<1>3. DurOneAtATime'
  BY <1>1, <1>2 DEF DurOneAtATime
<1>4. DurOneRun'
  BY <1>0, <1>1 DEF DurOneRun, DurIdle
<1>5. DurVerdictStands'
  <2>1. ASSUME NEW d \in DurDocId
        PROVE  /\ slot'[d].upload # NoUpload
                    /\ (slot'[d].processing = "PASSED" \/ slot'[d].validation # "NONE")
                 => DurOver(slot[d].upload)
               /\ slot'[d].requested => slot'[d].upload # NoUpload /\ slot'[d].validation # "NONE"
    <3>1. CASE slot'[d] = slot[d]
      BY <1>0, <3>1 DEF DurVerdictStands
    <3>2. CASE slot'[d] # slot[d]
      BY <1>0, <3>2 DEF DurVerdictStands
    <3>3. QED  BY <3>1, <3>2
  <2>2. \A u \in DurUpload : DurOver(u)' <=> DurOver(u)
    BY DEF DurOver
  <2>3. \A d \in DurDocId : slot'[d].upload = slot[d].upload
                          /\ slot[d].upload \in DurUpload \cup {NoUpload}
    BY <1>0 DEF Slot
  <2>4. \A g \in DurHandler : durReq'[g].op = "none"
    BY <1>1 DEF DurIdle
  <2>5. QED  BY <2>1, <2>2, <2>3, <2>4 DEF DurVerdictStands
<1>6. DurWithState'
  BY <1>0, <1>1, <1>2 DEF DurWithState, DurAllPassed, DurIdle
<1>7. QED  BY <1>3, <1>4, <1>5, <1>6 DEF DurPlainInv

\* The requests of users.
LEMMA DurPlainOfUserRequest ==
  ASSUME DurTypeInv, DurPlain, DurPlainInv, NEW h \in DurHandler, DurUserRequest(h),
         UNCHANGED <<verdict, run>>
  PROVE  DurPlainInv'
<1>0. /\ DurOneAtATime /\ DurOneRun /\ DurVerdictStands /\ DurWithState
      /\ durReq \in [DurHandler -> DurRequest] /\ slot \in [DurDocId -> Slot]
      /\ AnyDurDoc \in DurDocId /\ DurIdle \in DurRequest /\ DurIdle.op = "none"
      /\ durReq[h].docId \in DurDocId
  BY DurAssumption, DurIdleTyped
  DEF DurPlainInv, DurTypeInv, DurTypeOK, DurFormTypeOK, DurRequest, DurIdle
<1>1. ASSUME NEW d \in DurDocId, DurBeginRetry(h, d)
      PROVE  DurPlainInv'
  BY <1>1 DEF DurBeginRetry, DurStart, DurPlain
<1>2. ASSUME NEW d \in DurDocId, DurBeginAsk(h, d)
      PROVE  DurPlainInv'
  <2> DEFINE r == [DurIdle EXCEPT !.op = "ask", !.docId = d]
  <2>1. r \in DurRequest /\ r.op = "ask" /\ r.docId = d
    BY <1>0 DEF DurRequest, DurIdle
  <2>2. slot[d].upload # NoUpload /\ slot[d].validation # "NONE"
    BY <1>2 DEF DurBeginAsk, CanAsk
  <2> HIDE DEF r
  <2>3. DurStart(h, "ask", r)
    BY <1>2 DEF DurBeginAsk, r
  <2>4. QED  BY <2>1, <2>2, <2>3, DurPlainOfStart
<1>3. ASSUME NEW d \in DurDocId, NEW v \in Verdict, DurBeginRuling(h, d, v)
      PROVE  DurPlainInv'
  <2> DEFINE r == [DurIdle EXCEPT !.op = "decide", !.docId = d, !.verdict = v]
  <2>1. r \in DurRequest /\ r.op = "decide" /\ r.docId = d
    BY <1>0 DEF DurRequest, DurIdle
  <2>2. slot[d].requested
    BY <1>3 DEF DurBeginRuling, Awaiting
  <2> HIDE DEF r
  <2>3. DurStart(h, "decide", r)
    BY <1>3 DEF DurBeginRuling, r
  <2>4. QED  BY <2>1, <2>2, <2>3, DurPlainOfStart
<1>4. ASSUME NEW v \in Verdict, DurBeginDecide(h, v)
      PROVE  DurPlainInv'
  <2> DEFINE r == [DurIdle EXCEPT !.op = "section", !.verdict = v]
  <2>1. r \in DurRequest /\ r.op = "section"
    BY <1>0 DEF DurRequest, DurIdle
  <2>2. DurAllPassed
    BY <1>0, <1>4 DEF DurBeginDecide, DurWithState
  <2> HIDE DEF r
  <2>3. DurStart(h, "section", r)
    BY <1>4 DEF DurBeginDecide, r
  <2>4. QED  BY <2>1, <2>2, <2>3, DurPlainOfStart
<1>5. CASE DurBeginSubmit(h) \/ DurBeginUndo(h)
  <2>1. /\ [DurIdle EXCEPT !.op = "submit"] \in DurRequest
        /\ [DurIdle EXCEPT !.op = "undo"] \in DurRequest
        /\ [DurIdle EXCEPT !.op = "submit"].op = "submit"
        /\ [DurIdle EXCEPT !.op = "undo"].op = "undo"
    BY <1>0 DEF DurRequest, DurIdle
  <2>2. DurAllPassed
    BY <1>0, <1>5 DEF DurBeginSubmit, DurBeginUndo, DurWithState
  <2>3. QED  BY <1>5, <2>1, <2>2, DurPlainOfStart DEF DurBeginSubmit, DurBeginUndo
<1>6. CASE DurRetrySlot(h) \/ DurEnqueueRetry(h)
  BY <1>0, <1>6 DEF DurRetrySlot, DurEnqueueRetry, DurOneRun
<1>7. CASE DurWriteStatus(h)
  BY SMTT(30), <1>0, <1>7, DurPlainOfFinish DEF DurWriteStatus, DurWithState
<1>8. CASE DurAsk(h)
  <2> DEFINE d == durReq[h].docId
  <2>1. slot' = [slot EXCEPT ![d] = [slot[d] EXCEPT !.requested = TRUE, !.review = NoVerdict]]
    BY <1>8, <1>0 DEF DurAsk, Slot
  <2>2. \A e \in DurDocId : [slot[e] EXCEPT !.requested = TRUE, !.review = NoVerdict] \in Slot
    BY ZenonT(40), <1>0 DEF Slot
  <2>3. slot[d].upload # NoUpload /\ slot[d].validation # "NONE" /\ durReq[h] # DurIdle
    <3>1. durReq[h].op = "ask"
      BY <1>8 DEF DurAsk
    <3>2. QED  BY <1>0, <3>1 DEF DurVerdictStands
  <2>4. slot' \in [DurDocId -> Slot]
    BY <1>0, <2>1, <2>2
  <2>5. \A e \in DurDocId :
           /\ slot'[e].upload = slot[e].upload /\ slot'[e].validation = slot[e].validation
           /\ slot'[e].processing = slot[e].processing
           /\ e # d => slot'[e] = slot[e]
    BY <1>0, <2>1, <2>2 DEF Slot
  <2>6. QED
    BY <1>8, <2>3, <2>4, <2>5, DurPlainOfFinish DEF DurAsk
<1>9. CASE DurRule(h)
  <2> DEFINE d == durReq[h].docId
             v == durReq[h].verdict
  <2>1. /\ slot[d].upload # NoUpload /\ slot[d].validation # "NONE" /\ durReq[h] # DurIdle
        /\ slot[d] \in Slot
    BY <1>0, <1>9 DEF DurRule, DurVerdictStands
  <2>2. /\ Ruling(slot[d], v).upload = slot[d].upload
        /\ Ruling(slot[d], v).validation = slot[d].validation
        /\ Ruling(slot[d], v).processing \in {slot[d].processing, "PASSED"}
    BY <2>1 DEF Ruling, Slot
  <2>3. \A e \in DurDocId :
           /\ slot'[e].upload = slot[e].upload /\ slot'[e].validation = slot[e].validation
           /\ slot'[e].processing = slot[e].processing \/ slot'[e].processing = "PASSED"
           /\ slot'[e] # slot[e] => e = d
    BY <1>0, <1>9, <2>2 DEF DurRule
  <2>4. slot' \in [DurDocId -> Slot]
    BY DurUserRequestTyped DEF DurTypeInv, DurTypeOK, DurFormTypeOK
  <2>5. QED
    BY <1>9, <2>1, <2>3, <2>4, DurPlainOfFinish DEF DurRule
<1>10. QED
  BY <1>1, <1>2, <1>3, <1>4, <1>5, <1>6, <1>7, <1>8, <1>9 DEF DurUserRequest

\* No request dies in these scenes; a cooldown ends.
LEMMA DurPlainOfMishap ==
  ASSUME DurTypeInv, DurPlain, DurPlainInv, DurRequestDies \/ DurCooldownEnds, UNCHANGED <<verdict, run>>
  PROVE  DurPlainInv'
<1>0. /\ DurOneAtATime /\ DurOneRun /\ DurVerdictStands /\ DurWithState
      /\ durFiling \in [DurUpload -> DurFiling] /\ slot \in [DurDocId -> Slot]
      /\ durReq \in [DurHandler -> DurRequest] /\ queued \in [DurUpload -> 0..DurMaxRuns]
  BY DEF DurPlainInv, DurTypeInv, DurTypeOK, DurFormTypeOK
<1>1. DurCooldownEnds  BY DEF DurPlain, DurRequestDies
<1>2. \A d \in DurDocId :
        /\ slot'[d].upload = slot[d].upload /\ slot'[d].validation = slot[d].validation
        /\ slot'[d].processing = slot[d].processing /\ slot'[d].requested = slot[d].requested
  BY <1>0, <1>1 DEF DurCooldownEnds, Slot
<1>3. UNCHANGED <<durStatus, durFiling, durReq, queued, durCast, run>>
  BY <1>1 DEF DurCooldownEnds
<1>4. DurVerdictStands'
  <2>1. \A h \in DurHandler : durReq[h].docId \in DurDocId
    BY <1>0 DEF DurRequest
  <2>2. \A u : DurOver(u)' <=> DurOver(u)
    BY <1>3 DEF DurOver
  <2>3. QED  BY <1>0, <1>2, <1>3, <2>1, <2>2 DEF DurVerdictStands
<1>5. DurOneAtATime' /\ DurOneRun' /\ DurWithState'
  BY <1>0, <1>2, <1>3 DEF DurOneAtATime, DurOneRun, DurWithState, DurAllPassed, DurBusy
<1>6. QED  BY <1>4, <1>5 DEF DurPlainInv

\* A run touches no document that is over, and is the last of its upload.
LEMMA DurPlainOfRun ==
  ASSUME DurTypeInv, DurPlain, DurPlainInv, NEW w \in DurWorker, Validate(w)
  PROVE  DurPlainInv'
<1>0. /\ DurOneAtATime /\ DurOneRun /\ DurVerdictStands /\ DurWithState
      /\ run \in [DurWorker -> RunState] /\ run[w] \in RunState /\ slot \in [DurDocId -> Slot]
      /\ durReq \in [DurHandler -> DurRequest] /\ queued \in [DurUpload -> 0..DurMaxRuns]
      /\ w[1] \in DurUpload /\ w[2] \in 0..DurMaxRuns /\ w = <<w[1], w[2]>> /\ w[1] # NoUpload
  BY DurAssumption DEF DurPlainInv, DurTypeInv, DurTypeOK, DurFormTypeOK, DurWorker
<1>1. /\ UNCHANGED <<durStatus, durFiling, durReq, durCast, rulings>>
      /\ \A v \in DurWorker \ {w} : run'[v] = run[v]
  BY <1>0
  DEF Validate, SubmitJob, RecordJobId, ProcessorError, JobNotFound, JobSettles, JobStillRuns,
      DurReadStrikes, WriteResult, RunDies, RunPc, durRequests
<1>2. /\ w[2] \in 1..queued[w[1]] /\ queued[w[1]] \in 1..DurMaxRuns
      /\ run[w].pc # "ended"
  <2>1. run[w].pc # "ended" /\ (run[w].pc = "idle" => w[2] \in 1..queued[w[1]])
    BY DEF Validate, SubmitJob, RecordJobId, ProcessorError, JobNotFound, JobSettles, JobStillRuns,
           DurReadStrikes, WriteResult, RunDies
  <2>2. w[2] # 0
    <3>1. w[2] = 0 => run[w].pc = "idle"
      BY <1>0 DEF DurOneRun
    <3>2. QED  BY <2>1, <3>1, <1>0, DurAssumption
  <2>3. run[w].pc # "idle" => w[2] <= queued[w[1]]
    BY <2>2 DEF DurTypeInv, DurJobInv
  <2>4. QED  BY <2>1, <2>2, <2>3, <1>0, DurAssumption
<1>3. w[2] = queued[w[1]]
  <2>1. w[2] \in 1..(queued[w[1]] - 1) => run[<<w[1], w[2]>>].pc = "ended"
    BY <1>0 DEF DurOneRun
  <2>2. QED  BY <2>1, <1>0, <1>2, DurAssumption
<1>4. ~DurOver(w[1])
  BY <1>0, <1>2 DEF DurOver
<1>5. DurOneAtATime'
  BY <1>0, <1>1, DurOneStays DEF DurBusy
<1>6. queued' = queued /\ ~RunDies(w) /\ (ProcessorError(w) => slot' = slot)
  <2>1. ~RunDies(w)
    BY DEF RunDies, DurPlain
  <2>2. ASSUME ProcessorError(w)  PROVE slot' = slot
    <3>1. run[w].pc # "write"
      BY <2>2 DEF ProcessorError, DurPlain
    <3>2. QED  BY <2>2, <3>1 DEF ProcessorError, Interrupted
  <2>3. QED
    BY <2>1, <2>2
    DEF Validate, SubmitJob, RecordJobId, ProcessorError, JobNotFound, JobSettles, JobStillRuns,
        DurReadStrikes, WriteResult, durRequests
<1>7. DurOneRun'
  <2>1. ASSUME NEW u \in DurUpload
        PROVE  run'[<<u, 0>>].pc = "idle"
    <3>1. <<u, 0>> \in DurWorker /\ <<u, 0>> # w
      BY <1>0, <1>2, DurAssumption DEF DurWorker
    <3>2. QED  BY <1>0, <1>1, <3>1 DEF DurOneRun
  <2>2. ASSUME NEW u \in DurUpload, NEW n \in 1..(queued[u] - 1)
        PROVE  run'[<<u, n>>].pc = "ended"
    <3>1. <<u, n>> \in DurWorker
      BY <1>0, DurAssumption DEF DurWorker
    <3>2. <<u, n>> # w
      BY <1>0, <1>3, DurAssumption
    <3>3. run'[<<u, n>>] = run[<<u, n>>]
      BY <1>1, <3>1, <3>2
    <3>4. run[<<u, n>>].pc = "ended"
      BY <1>0 DEF DurOneRun
    <3>5. QED  BY <3>3, <3>4
  <2>3. \A h \in DurHandler : durReq'[h].op \notin {"retry", "enqueue"}
    BY <1>0, <1>1 DEF DurOneRun
  <2>4. \A u \in DurUpload : queued'[u] > 0 => durFiling'[u].pc \in {"done", "failed"}
    BY <1>0, <1>1, <1>6 DEF DurOneRun
  <2>5. queued' = queued
    BY <1>6
  <2>6. QED  BY <2>1, <2>2, <2>3, <2>4, <2>5 DEF DurOneRun
<1>8. \A u \in DurUpload : DurOver(u) => DurOver(u)'
  <2>1. ASSUME NEW u \in DurUpload, DurOver(u)
        PROVE  DurOver(u)'
    <3>1. u # w[1]
      BY <1>4, <2>1
    <3>2. queued'[u] = queued[u]
      BY <3>1, <1>0, <1>6
    <3>3. \A n \in 1..queued[u] : run'[<<u, n>>] = run[<<u, n>>]
      <4>1. \A n \in 1..queued[u] : <<u, n>> \in DurWorker /\ <<u, n>> # w
        BY <3>1, <1>0, DurAssumption DEF DurWorker
      <4>2. QED  BY <4>1, <1>1
    <3>4. QED  BY <2>1, <3>2, <3>3, <1>1 DEF DurOver
  <2>2. QED  BY <2>1
<1>9. ASSUME NEW d \in DurDocId
      PROVE  /\ slot'[d].upload = slot[d].upload
             /\ \/ /\ slot'[d].processing = slot[d].processing
                   /\ slot'[d].validation = slot[d].validation
                   /\ slot'[d].requested = slot[d].requested
                \/ /\ slot[d].upload = w[1] /\ run'[w].pc = "ended"
                   /\ slot'[d].requested = slot[d].requested
  <2>1. CASE WriteResult(w)
    <3>1. CASE d \notin SlotsOf(w)
      BY <3>1, <2>1 DEF WriteResult, WrittenSlots, WritableSlots
    <3>2. CASE d \in SlotsOf(w)
      <4>1. slot'[d] = WithResult(slot[d], run[w]) /\ slot[d].upload = w[1] /\ slot[d] \in Slot
        BY <3>2, <1>0, <2>1 DEF WriteResult, WrittenSlots, WritableSlots, SlotsOf
      <4>2. slot'[d].upload = slot[d].upload /\ slot'[d].requested = slot[d].requested
        BY <4>1, <1>0, WithResultTyped
      <4>3. run'[w].pc = "ended"
        BY <1>0, <1>2, <2>1, DurAssumption DEF WriteResult, RunOver, RunIdle
      <4>4. QED  BY <4>1, <4>2, <4>3
    <3>3. QED  BY <3>1, <3>2
  <2>2. CASE RecordJobId(w)
    BY <2>2, <1>0 DEF RecordJobId, Slot
  <2>3. CASE UNCHANGED slot
    BY <2>3
  <2>4. QED
    BY <1>6, <2>1, <2>2, <2>3
    DEF Validate, SubmitJob, JobNotFound, JobSettles, JobStillRuns, DurReadStrikes, durRequests
<1>10. ASSUME run'[w].pc = "ended"
       PROVE  DurOver(w[1])'
  <2>1. ASSUME NEW n \in 1..queued[w[1]]
        PROVE  run'[<<w[1], n>>].pc = "ended"
    <3>1. CASE n = w[2]
      BY <3>1, <1>0, <1>10
    <3>2. CASE n # w[2]
      <4>1. n \in 1..(queued[w[1]] - 1)
        BY <3>2, <1>3, <1>2, DurAssumption
      <4>2. QED  BY <4>1, <1>6, <1>7, <1>0 DEF DurOneRun
    <3>3. QED  BY <3>1, <3>2
  <2>2. durFiling[w[1]].pc \in {"done", "failed"}
    BY <1>0, <1>2, DurAssumption DEF DurOneRun
  <2>3. QED  BY <2>1, <2>2, <1>1, <1>6 DEF DurOver
<1>11. DurVerdictStands'
  <2>1. ASSUME NEW d \in DurDocId, slot[d].upload = w[1]
        PROVE  ~slot[d].requested /\ slot[d].processing # "PASSED"
    BY <2>1, <1>0, <1>4 DEF DurVerdictStands
  <2>2. ASSUME NEW d \in DurDocId, slot'[d].upload # NoUpload,
               slot'[d].processing = "PASSED" \/ slot'[d].validation # "NONE"
        PROVE  DurOver(slot[d].upload)'
    <3>1. slot[d].upload \in DurUpload
      BY <2>2, <1>9, <1>0 DEF Slot
    <3>2. QED  BY <3>1, <2>2, <1>9, <1>8, <1>10, <1>0 DEF DurVerdictStands
  <2>3. ASSUME NEW d \in DurDocId, slot'[d].requested
        PROVE  slot'[d].upload # NoUpload /\ slot'[d].validation # "NONE"
    BY <2>1, <2>3, <1>9, <1>0 DEF DurVerdictStands
  <2>4. \A h \in DurHandler : durReq[h].docId \in DurDocId
    BY <1>0 DEF DurRequest
  <2>5. ASSUME NEW h \in DurHandler, durReq[h].op = "ask"
        PROVE  slot'[durReq[h].docId].upload # NoUpload /\ slot'[durReq[h].docId].validation # "NONE"
    BY <2>4, <2>5, <1>9, <1>4, <1>0 DEF DurVerdictStands
  <2>6. ASSUME NEW h \in DurHandler, durReq[h].op = "decide"
        PROVE  slot'[durReq[h].docId].requested
    BY <2>4, <2>6, <1>9, <1>0 DEF DurVerdictStands
  <2>7. \A d \in DurDocId : slot'[d].upload = slot[d].upload
    BY <1>9
  <2>8. QED  BY <2>2, <2>3, <2>5, <2>6, <2>7, <1>1 DEF DurVerdictStands
<1>12. DurWithState'
  <2>1. ASSUME NEW d \in DurDocId, slot[d].processing = "PASSED"
        PROVE  slot'[d].processing = "PASSED"
    BY <2>1, <1>9, <1>4, <1>0 DEF DurVerdictStands
  <2>2. QED  BY <2>1, <1>0, <1>1 DEF DurWithState, DurAllPassed, DurBusy
<1>13. QED  BY <1>5, <1>7, <1>11, <1>12 DEF DurPlainInv

LEMMA DurPlainStep == DurTypeInv /\ DurPlainInv /\ [DurNext]_durVars => DurPlainInv'
<1> SUFFICES ASSUME DurTypeInv, DurPlainInv, [DurNext]_durVars
             PROVE  DurPlainInv'
  OBVIOUS
<1>1. CASE UNCHANGED durVars
  BY <1>1
  DEF durVars, durRequests, DurPlainInv, DurPlain, DurOneAtATime, DurOneRun, DurVerdictStands,
      DurWithState, DurOver, DurBusy, DurAllPassed
<1>2. CASE DurNext
  <2>1. durCast' = durCast
    BY ZenonT(40), <1>2
    DEF DurNext, DurConfirm, DurCheckUpload, DurTouchForm, DurWriteSlot, DurRecordUpload,
        DurEnqueueUpload, DurUserRequest, DurBeginRetry, DurBeginAsk, DurBeginRuling, DurBeginDecide,
        DurBeginSubmit, DurBeginUndo, DurRetrySlot, DurEnqueueRetry, DurWriteStatus, DurAsk, DurRule,
        DurStart, DurRequestDies, DurCooldownEnds, StuckSlot, Validate, SubmitJob, RecordJobId,
        ProcessorError, JobNotFound, JobSettles, JobStillRuns, DurReadStrikes, WriteResult, RunDies,
        durRequests
  <2>2. CASE ~DurPlain
    BY <2>1, <2>2 DEF DurPlainInv, DurPlain
  <2>3. CASE DurPlain
    BY <1>2, <2>3, DurPlainOfConfirm, DurPlainOfUserRequest, DurPlainOfMishap, DurPlainOfRun
    DEF DurNext, StuckSlot, DurPlain
  <2>4. QED  BY Zenon, <2>2, <2>3
<1>3. QED  BY <1>1, <1>2

\* Without overlap of requests, retries, cron, and failures of the database or a process, what the
\* State has before it has passed.
THEOREM DurSubmitted == DurSpec => []DurSubmittedPassed
<1>1. DurPlainInv => DurSubmittedPassed
  BY DEF DurPlainInv, DurPlain, DurWithState, DurAllPassed, DurSubmittedPassed
<1>2. DurInit => DurPlainInv
  BY DurPlainInit
<1>3. QED
  BY <1>1, <1>2, DurPlainStep, DurTypeInvariant, PTL DEF DurSpec

-----------------------------------------------------------------------------
(* Side by side                                                            *)

\* Beside the utilisation report, the annual accounts behave as they do alone.
THEOREM BehavesAsAnnualAccounts == UlbFormsSpec => AnnualSpec
<1>1. UlbFormsInit => AnnualInit
  BY DEF UlbFormsInit
<1>2. [UlbFormsNext]_<<annualVars, durVars>> => [AnnualNext]_annualVars
  BY DEF UlbFormsNext
<1>3. QED  BY <1>1, <1>2, PTL DEF UlbFormsSpec, AnnualSpec

\* And the utilisation report beside the annual accounts.
THEOREM BehavesAsDur == UlbFormsSpec => DurSpec
<1>1. UlbFormsInit => DurInit
  BY DEF UlbFormsInit
<1>2. [UlbFormsNext]_<<annualVars, durVars>> => [DurNext]_durVars
  BY DEF UlbFormsNext
<1>3. QED  BY <1>1, <1>2, PTL DEF UlbFormsSpec, DurSpec

\* Type correctness of both.
THEOREM UlbFormsTypeCorrect == UlbFormsSpec => []UlbFormsTypeOK
BY BehavesAsAnnualAccounts, BehavesAsDur, AnnualTypeCorrect, DurTypeCorrect, PTL
DEF UlbFormsTypeOK
=============================================================================

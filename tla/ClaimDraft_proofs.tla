---------------------------- MODULE ClaimDraft_proofs ----------------------------
(***************************************************************************)
(* Proofs about published drafts: first about their edits, for every number *)
(* of batches, ULBs and update requests and for every set of failures and   *)
(* of misreported writes unless a theorem says otherwise; then about all that leads to the        *)
(* submit, for every number of submits, saves, uploads and merges.          *)
(***************************************************************************)
EXTENDS ClaimEditProps, ClaimSubmitProps, SequenceTheorems, WellFoundedInduction, TLAPS

-----------------------------------------------------------------------------
(* Types of edits                                                          *)

\* The initial records are well-typed.
LEMMA InitialRecords ==
  /\ NoDoc \in BatchDoc
  /\ NewDraft \in DraftDoc
  /\ IdleEdit \in EditState
BY StoreAssumption, DraftAssumption
DEF NoDoc, BatchDoc, AssemblyStatus, FormStatus, NewDraft, DraftDoc, IdleEdit, EditState, EditPc

\* The published batches an edit run starts from are well-typed.
LEMMA EditInitTyped == EditInit => EditTypeOK
<1> SUFFICES ASSUME EditInit PROVE EditTypeOK  OBVIOUS
<1>0. PICK gone \in SUBSET Batch : PublishedInit(gone)
  <2>1. PublishedInit({})  BY DEF EditInit
  <2>2. QED  BY <2>1, Zenon
<1>1. PICK claim \in [Batch -> (SUBSET Ulb) \ {{}}], number \in [Batch -> 1 .. MaxBatchNumber] :
        /\ \A b, c \in Batch : b # c => number[b] # number[c]
        /\ \A b, c \in Batch \ gone : b # c => claim[b] \cap claim[c] = {}
        /\ batch = [b \in Batch |->
             [NoDoc EXCEPT !.assembly = "READY", !.number = number[b], !.createdAt = number[b],
                           !.abandoned = b \in gone, !.content = claim[b]]]
        /\ child = claim
        /\ lock = [u \in Ulb |-> IF \E b \in Batch \ gone : u \in claim[b]
                                 THEN CHOOSE b \in Batch \ gone : u \in claim[b] ELSE NoBatch]
  BY <1>0, Zenon DEF PublishedInit
<1>2. ASSUME NEW b \in Batch
      PROVE  [NoDoc EXCEPT !.assembly = "READY", !.number = number[b], !.createdAt = number[b],
                           !.abandoned = b \in gone, !.content = claim[b]] \in BatchDoc
  <2>1. number[b] \in 1 .. MaxBatchNumber /\ claim[b] \in SUBSET Ulb  OBVIOUS
  <2>2. number[b] \in 0 .. MaxBatchNumber /\ number[b] \in Nat  BY <2>1, StoreAssumption
  <2>3. (b \in gone) \in BOOLEAN  OBVIOUS
  <2>4. QED  BY <2>1, <2>2, <2>3, InitialRecords DEF BatchDoc, AssemblyStatus
<1>3. batch \in [Batch -> BatchDoc]  BY <1>1, <1>2
<1>4. lock \in [Ulb -> Batch \cup {NoBatch}]
  <2>1. ASSUME NEW u \in Ulb, \E b \in Batch \ gone : u \in claim[b]
        PROVE  (CHOOSE b \in Batch \ gone : u \in claim[b]) \in Batch
    BY <2>1
  <2>2. QED  BY <1>1, <2>1
<1>5. child \in [Batch -> SUBSET Ulb]  BY <1>1
<1>6. history \in [Batch -> Seq(Transition)]
  <2>1. <<"CREATED">> \in Seq(Transition)  BY DEF Transition
  <2>2. <<"CREATED", "ABANDONED">> \in Seq(Transition)  BY DEF Transition
  <2>3. history = [b \in Batch |-> IF b \in gone THEN <<"CREATED", "ABANDONED">> ELSE <<"CREATED">>]
    BY <1>0 DEF PublishedInit
  <2>4. QED  BY <2>1, <2>2, <2>3
<1>7. clock \in Nat /\ draft \in [Batch -> DraftDoc] /\ edit \in [Editor -> EditState]
  <2>1. clock = MaxBatchNumber + 1 /\ draft = [b \in Batch |-> NewDraft]
    BY <1>0 DEF PublishedInit
  <2>2. edit = [e \in Editor |-> IdleEdit]  BY DEF EditInit, EditProcInit
  <2>3. QED  BY <2>1, <2>2, InitialRecords, StoreAssumption
<1>8. QED  BY <1>3, <1>4, <1>5, <1>6, <1>7 DEF EditTypeOK, DraftTypeOK, StoreTypeOK

\* An abandon keeps the collections well-typed.
LEMMA EditAbandonTyped ==
  ASSUME StoreTypeOK, NEW b \in Batch, AbandonDraft(b)
  PROVE  StoreTypeOK'
<1>1. history' \in [Batch -> Seq(Transition)]
  <2>1. Append(history[b], "ABANDONED") \in Seq(Transition)  BY DEF StoreTypeOK, Transition
  <2>2. QED  BY <2>1 DEF StoreTypeOK, AbandonDraft, Record
<1>2. batch' \in [Batch -> BatchDoc]
  <2>1. batch \in [Batch -> BatchDoc]  BY DEF StoreTypeOK
  <2>2. [batch[b] EXCEPT !.abandoned = TRUE] \in BatchDoc  BY <2>1 DEF BatchDoc
  <2>3. batch' = [batch EXCEPT ![b] = [batch[b] EXCEPT !.abandoned = TRUE]]
    BY <2>1 DEF AbandonDraft
  <2>4. QED  BY <2>1, <2>2, <2>3
<1>3. QED  BY <1>1, <1>2 DEF StoreTypeOK, AbandonDraft

\* The insert of child rows keeps the state well-typed, wherever it goes from there.
LEMMA InsertTyped ==
  ASSUME EditTypeOK, NEW e \in Editor, edit[e].on \in Batch, NEW C \in SUBSET Ulb,
         NEW next \in EditPc, NEW onError \in EditPc, NEW R \in SUBSET Ulb,
         InsertRows(e, C, next, onError, R), UNCHANGED draft
  PROVE  EditTypeOK'
<1>1. edit' \in [Editor -> EditState]
  BY DEF EditTypeOK, EditState, InsertRows
<1>2. child' \in [Batch -> SUBSET Ulb]
  BY DEF EditTypeOK, DraftTypeOK, StoreTypeOK, InsertRows
<1>3. QED  BY <1>1, <1>2 DEF EditTypeOK, DraftTypeOK, StoreTypeOK, InsertRows

\* The program counters at which an edit has a draft.
Working == DOMAIN OnError

\* An edit that works on a draft names it.
EditShape == \A e \in Editor : edit[e].pc \in Working \cup {"claim"} => edit[e].on \in Batch

\* The program counters of OnError.
LEMMA WorkingIs ==
  /\ Working = {"read", "prepare", "delete", "persist", "totals", "verify", "commit", "undo",
                "restore", "unlock", "release"}
  /\ \A pc \in Working : OnError[pc] \in EditPc
  /\ OnError["persist"] = "restore"
BY DEF Working, OnError, EditPc

\* A caught failure ends the edit, or takes it to the step where its compensation goes on.
LEMMA CatchGoes ==
  ASSUME edit \in [Editor -> EditState], NEW e \in Editor, edit[e].pc \in Working, Catch(e)
  PROVE  \/ OnError[edit[e].pc] = "failed" /\ EditEnd(e, "failed")
         \/ \E pc \in {OnError[edit[e].pc], "unlock"}, t \in SUBSET Ulb :
              /\ edit' = [edit EXCEPT ![e].pc = pc, ![e].todo = t]
              /\ pc = "unlock" => OnError[edit[e].pc] \in {"restore", "unlock"}
<1>1. edit[e].old \in SUBSET Ulb /\ edit[e].todo \in SUBSET Ulb /\ edit[e] \in EditState
  BY DEF EditState
<1>2. PICK pc : pc = OnError[edit[e].pc]  OBVIOUS
<1>3. CASE pc = "failed"  BY <1>2, <1>3 DEF Catch
<1>4. CASE pc # "failed" /\ pc = "restore" /\ edit[e].old = {}
  <2>1. EditGoto(e, "unlock")  BY <1>2, <1>4 DEF Catch
  <2>2. edit' = [edit EXCEPT ![e].pc = "unlock", ![e].todo = edit[e].todo]
    BY <1>1, <2>1 DEF EditGoto, EditState
  <2>3. QED  BY <1>1, <1>2, <1>4, <2>2
<1>5. CASE pc # "failed" /\ ~(pc = "restore" /\ edit[e].old = {})
  <2>1. edit' = [edit EXCEPT ![e].pc = pc, ![e].todo = IF pc = "restore" THEN edit[e].old ELSE {}]
    BY <1>2, <1>5 DEF Catch
  <2>2. (IF pc = "restore" THEN edit[e].old ELSE {}) \in SUBSET Ulb  BY <1>1
  <2>3. QED  BY <1>2, <2>1, <2>2
<1>6. QED  BY <1>3, <1>4, <1>5

\* It keeps the edits well-typed.
LEMMA CatchTyped ==
  ASSUME edit \in [Editor -> EditState], EditShape, NEW e \in Editor, edit[e].pc \in Working,
         Catch(e)
  PROVE  edit' \in [Editor -> EditState] /\ EditShape'
<1>1. CASE EditEnd(e, "failed")
  <2>1. [IdleEdit EXCEPT !.pc = "failed"] \in EditState  BY InitialRecords DEF EditState, EditPc
  <2>2. [IdleEdit EXCEPT !.pc = "failed"].pc = "failed"  BY DEF IdleEdit
  <2>3. QED  BY <1>1, <2>1, <2>2, WorkingIs DEF EditShape, EditEnd
<1>2. ASSUME NEW pc \in {OnError[edit[e].pc], "unlock"}, NEW t \in SUBSET Ulb,
             edit' = [edit EXCEPT ![e].pc = pc, ![e].todo = t]
      PROVE  edit' \in [Editor -> EditState] /\ EditShape'
  <2>1. pc \in EditPc /\ edit[e].on \in Batch  BY WorkingIs DEF EditPc, EditShape
  <2>2. QED  BY ZenonT(40), <1>2, <2>1 DEF EditState, EditShape
<1>3. QED  BY <1>1, <1>2, CatchGoes

\* A write that is reported as failed takes its edit, with the request it has, to the compensation.
LEMMA MisreportGoes ==
  ASSUME edit \in [Editor -> EditState], NEW e \in Editor, edit[e].pc \in Misreported, Catch(e)
  PROVE  /\ edit[e].pc \in Working
         /\ edit' = [edit EXCEPT ![e] = edit'[e]]
         /\ \A d \in Editor \ {e} : edit'[d] = edit[d]
         /\ edit'[e].on = edit[e].on /\ edit'[e].revision = edit[e].revision
         /\ edit'[e].sel = edit[e].sel /\ edit'[e].old = edit[e].old
         /\ edit[e].pc \in {"prepare", "unlock"} => edit'[e].pc = "release"
         /\ edit[e].pc \in {"delete", "undo"} => edit'[e].pc = "unlock"
         /\ edit[e].pc = "persist" => edit'[e].pc \in {"restore", "unlock"}
         /\ edit[e].pc = "commit" => edit'[e].pc = "undo"
<1>1. edit[e] \in EditState  OBVIOUS
<1>2. edit[e].pc \in {"prepare", "delete", "persist", "commit", "undo", "unlock"}
  BY FaultAssumption
<1>3. edit[e].pc \in Working  BY <1>2, WorkingIs
<1>4. /\ OnError["prepare"] = "release" /\ OnError["unlock"] = "release"
      /\ OnError["delete"] = "unlock" /\ OnError["undo"] = "unlock"
      /\ OnError["persist"] = "restore" /\ OnError["commit"] = "undo"
  BY DEF OnError
<1>5. PICK pc \in {OnError[edit[e].pc], "unlock"}, t \in SUBSET Ulb :
        /\ edit' = [edit EXCEPT ![e].pc = pc, ![e].todo = t]
        /\ pc = "unlock" => OnError[edit[e].pc] \in {"restore", "unlock"}
  BY <1>2, <1>3, <1>4, CatchGoes
<1>6. /\ edit'[e].pc = pc /\ edit'[e].on = edit[e].on /\ edit'[e].revision = edit[e].revision
      /\ edit'[e].sel = edit[e].sel /\ edit'[e].old = edit[e].old
  BY <1>1, <1>5 DEF EditState
<1>7. edit' = [edit EXCEPT ![e] = edit'[e]] /\ \A d \in Editor \ {e} : edit'[d] = edit[d]
  BY <1>5
<1>8. QED  BY <1>2, <1>3, <1>4, <1>5, <1>6, <1>7

\* Every step keeps the state well-typed.
LEMMA EditStepTyped == EditTypeOK /\ EditShape /\ [EditNext]_evars => EditTypeOK' /\ EditShape'
<1> SUFFICES ASSUME EditTypeOK, EditShape, [EditNext]_evars
             PROVE  EditTypeOK' /\ EditShape'
  OBVIOUS
<1> USE DEF EditTypeOK, DraftTypeOK
<1>a. StoreTypeOK /\ draft \in [Batch -> DraftDoc] /\ edit \in [Editor -> EditState]  OBVIOUS
<1>b. ASSUME NEW e \in Editor, NEW pc \in EditPc, EditGoto(e, pc), UNCHANGED dstore,
             pc \in Working => edit[e].on \in Batch, pc # "claim"
      PROVE  EditTypeOK' /\ EditShape'
  <2>1. edit' \in [Editor -> EditState]  BY <1>b DEF EditGoto, EditState
  <2>2. EditShape'  BY <1>b DEF EditShape, EditGoto, EditState
  <2>3. QED  BY <1>b, <2>1, <2>2 DEF dstore, store, StoreTypeOK
<1>c. ASSUME NEW e \in Editor, NEW pc \in {"done", "failed"}, EditEnd(e, pc)
      PROVE  edit' \in [Editor -> EditState] /\ EditShape'
  <2>1. [IdleEdit EXCEPT !.pc = pc] \in EditState  BY InitialRecords DEF EditState, EditPc
  <2>2. [IdleEdit EXCEPT !.pc = pc].pc = pc  BY DEF IdleEdit
  <2>3. QED  BY <1>c, <2>1, <2>2, WorkingIs DEF EditShape, EditEnd
<1>1. ASSUME NEW e \in Editor, NEW b \in Batch, NEW S \in SUBSET Ulb, Open(e, b, S)
      PROVE  EditTypeOK' /\ EditShape'
  <2> DEFINE q == [IdleEdit EXCEPT !.pc = "claim", !.on = b, !.sel = S,
                                   !.revision = draft[b].revision]
  <2>1. q \in EditState /\ q.on = b
    BY InitialRecords DEF EditState, EditPc, DraftDoc, IdleEdit
  <2>2. edit' = [edit EXCEPT ![e] = q]  BY <1>1 DEF Open
  <2>3. edit' \in [Editor -> EditState] /\ EditShape'  BY <2>1, <2>2 DEF EditShape
  <2>4. QED  BY <1>1, <2>3 DEF Open, dstore, store, StoreTypeOK
<1>2. ASSUME NEW e \in Editor, Claim(e)  PROVE EditTypeOK' /\ EditShape'
  <2>1. edit[e].on \in Batch  BY <1>2 DEF Claim, EditAt, EditShape
  <2>2. CASE Editable(edit[e].on, edit[e].revision)
    <3>1. draft' \in [Batch -> DraftDoc]  BY <1>2, <2>1, <2>2 DEF Claim, DraftDoc
    <3>2. edit' \in [Editor -> EditState] /\ EditShape'
      BY <1>2, <2>1, <2>2, WorkingIs DEF Claim, EditGoto, EditState, EditShape, EditPc
    <3>3. QED  BY <1>2, <3>1, <3>2 DEF Claim, store, StoreTypeOK
  <2>3. CASE ~Editable(edit[e].on, edit[e].revision)
    BY <1>2, <1>c, <2>3 DEF Claim, store, StoreTypeOK
  <2>4. QED  BY <2>2, <2>3
<1>3. ASSUME NEW e \in Editor, edit[e].pc \in Working  PROVE edit[e].on \in Batch
  BY <1>3 DEF EditShape
<1>4. ASSUME NEW e \in Editor, ReadChildren(e)  PROVE EditTypeOK' /\ EditShape'
  <2>1. edit[e].on \in Batch  BY <1>4, <1>3, WorkingIs DEF ReadChildren, EditAt
  <2>2. child[edit[e].on] \in SUBSET Ulb  BY <2>1 DEF StoreTypeOK
  <2>3. PICK pc \in {"prepare", "release"} :
          edit' = [edit EXCEPT ![e].pc = pc, ![e].old = child[edit[e].on]]
    BY <1>4 DEF ReadChildren
  <2>4. edit' \in [Editor -> EditState]
    <3>1. pc \in EditPc  BY DEF EditPc
    <3>2. QED  BY ZenonT(40), <2>2, <2>3, <3>1 DEF EditState
  <2>6. EditShape'  BY <2>1, <2>3 DEF EditShape, EditState
  <2>5. QED  BY <1>4, <2>4, <2>6 DEF ReadChildren, dstore, store, StoreTypeOK
<1>5. ASSUME NEW e \in Editor, Refuse(e) \/ Totals(e) \/ Verify(e)  PROVE EditTypeOK' /\ EditShape'
  <2>1. edit[e].on \in Batch  BY <1>5, <1>3, WorkingIs DEF Refuse, Totals, Verify, EditAt
  <2>2. QED  BY <1>5, <1>b, <2>1 DEF Refuse, Totals, Verify, EditPc
<1>d. ASSUME NEW e \in Editor, LockAdded(e)
      PROVE  edit[e].on \in Batch /\ StoreTypeOK' /\ draft' = draft
  <2>1. edit[e].on \in Batch  BY <1>d, <1>3, WorkingIs DEF LockAdded, EditAt
  <2>2. lock' \in [Ulb -> Batch \cup {NoBatch}]  BY <1>d, <2>1 DEF LockAdded, StoreTypeOK
  <2>3. QED  BY <1>d, <2>1, <2>2 DEF LockAdded, StoreTypeOK
<1>6. ASSUME NEW e \in Editor, AddLocks(e)  PROVE EditTypeOK' /\ EditShape'
  <2>1. edit[e].on \in Batch /\ StoreTypeOK' /\ draft' = draft  BY <1>6, <1>d DEF AddLocks
  <2>3. edit' = [edit EXCEPT ![e].pc = "delete"]  BY <1>6 DEF AddLocks, EditGoto
  <2>4. edit' \in [Editor -> EditState]
    <3>1. "delete" \in EditPc  BY DEF EditPc
    <3>2. edit \in [Editor -> EditState]  BY DEF EditTypeOK
    <3>3. QED  BY <2>3, <3>1, <3>2 DEF EditState
  <2>5. EditShape'  BY <2>1, <2>3 DEF EditShape, EditState
  <2>6. QED  BY <2>1, <2>4, <2>5
<1>7. ASSUME NEW e \in Editor, DeleteChildren(e) \/ Undo(e)  PROVE EditTypeOK' /\ EditShape'
  <2>1. edit[e].on \in Batch  BY <1>7, <1>3, WorkingIs DEF DeleteChildren, Undo, EditAt
  <2>2. child' \in [Batch -> SUBSET Ulb]  BY <1>7 DEF DeleteChildren, Undo, StoreTypeOK
  <2>3. edit' \in [Editor -> EditState] /\ EditShape'
    BY <1>7, <2>1 DEF DeleteChildren, Undo, EditState, EditPc, EditShape
  <2>4. QED  BY <1>7, <2>2, <2>3 DEF DeleteChildren, Undo, StoreTypeOK
<1>8. ASSUME NEW e \in Editor, NEW C \in SUBSET Ulb, PersistRows(e, C) \/ RestoreRows(e, C)
      PROVE  EditTypeOK' /\ EditShape'
  <2>1. edit[e].on \in Batch  BY <1>8, <1>3, WorkingIs DEF PersistRows, RestoreRows, EditAt
  <2>2. UNCHANGED draft
    BY <1>8 DEF PersistRows, RestoreRows, InsertRows
  <2>3. EditTypeOK'
    <3>1. edit[e].old \in SUBSET Ulb  BY DEF EditState
    <3>2. {"totals", "restore", "unlock"} \subseteq EditPc  BY DEF EditPc
    <3>3. CASE PersistRows(e, C)
      BY <2>1, <2>2, <3>1, <3>2, <3>3, InsertTyped DEF PersistRows
    <3>4. CASE RestoreRows(e, C)
      <4>1. InsertRows(e, C, "unlock", "unlock", {})  BY <3>4 DEF RestoreRows
      <4>2. "unlock" \in EditPc /\ {} \in SUBSET Ulb  BY DEF EditPc
      <4>3. QED  BY <2>1, <2>2, <4>1, <4>2, InsertTyped
    <3>5. QED  BY <1>8, <3>3, <3>4
  <2>4. EditShape'
    BY <1>8, <2>1 DEF PersistRows, RestoreRows, InsertRows, EditShape, EditState
  <2>5. QED  BY <2>3, <2>4
<1>e. ASSUME NEW e \in Editor, CommitEdit(e)
      PROVE  edit[e].on \in Batch /\ StoreTypeOK' /\ draft' \in [Batch -> DraftDoc]
  <2>1. edit[e].on \in Batch  BY <1>e, <1>3, WorkingIs DEF CommitEdit, EditAt
  <2> DEFINE b == edit[e].on
  <2>2. batch' \in [Batch -> BatchDoc]
    <3>1. edit[e].sel \in SUBSET Ulb  BY DEF EditState
    <3>2. batch' = [batch EXCEPT ![b].content = edit[e].sel]  BY <1>e DEF CommitEdit
    <3>3. batch \in [Batch -> BatchDoc] /\ batch[b] \in BatchDoc  BY <2>1 DEF StoreTypeOK
    <3>4. [batch[b] EXCEPT !.content = edit[e].sel] \in BatchDoc  BY SMTT(30), <3>1, <3>3 DEF BatchDoc
    <3>5. QED  BY <3>2, <3>3, <3>4
  <2>3. draft' \in [Batch -> DraftDoc]
    <3> DEFINE doc == [draft[b] EXCEPT !.revision = @ + 1, !.token = NoEditor,
                                      !.expired = FALSE, !.signed = NoPath]
    <3>1. draft' = [draft EXCEPT ![b] = doc]  BY <1>e, <2>1 DEF CommitEdit
    <3>2. draft[b] \in DraftDoc  BY <2>1
    <3>3. draft[b].revision + 1 \in Nat  BY <3>2 DEF DraftDoc
    <3>4. doc \in DraftDoc  BY <3>2, <3>3 DEF DraftDoc
    <3> HIDE DEF doc
    <3>5. QED  BY <2>1, <3>1, <3>4
  <2>4. lock' \in [Ulb -> Batch \cup {NoBatch}]  BY <1>e DEF CommitEdit, StoreTypeOK
  <2>5. QED  BY <1>e, <2>1, <2>2, <2>3, <2>4 DEF CommitEdit, StoreTypeOK
<1>9. ASSUME NEW e \in Editor, Commit(e)  PROVE EditTypeOK' /\ EditShape'
  <2>1. CASE CommitEdit(e) /\ EditEnd(e, "done")
    <3>1. edit' \in [Editor -> EditState] /\ EditShape'  BY <1>c, <2>1
    <3>2. QED  BY <1>e, <2>1, <3>1
  <2>2. CASE EditAt(e, "commit") /\ EditGoto(e, "undo") /\ UNCHANGED dstore
    <3>1. edit[e].on \in Batch  BY <1>3, <2>2, WorkingIs DEF EditAt
    <3>2. QED  BY <1>b, <2>2, <3>1 DEF EditPc
  <2>3. QED  BY <1>9, <2>1, <2>2 DEF Commit
<1>10. ASSUME NEW e \in Editor, ReleaseAddedLocks(e)  PROVE EditTypeOK' /\ EditShape'
  <2>1. edit[e].on \in Batch  BY <1>10, <1>3, WorkingIs DEF ReleaseAddedLocks, EditAt
  <2>2. lock' \in [Ulb -> Batch \cup {NoBatch}]  BY <1>10 DEF ReleaseAddedLocks, StoreTypeOK
  <2>3. edit' \in [Editor -> EditState] /\ EditShape'
    BY SMTT(30), <1>10, <2>1 DEF ReleaseAddedLocks, EditGoto, EditState, EditPc, EditShape
  <2>4. QED  BY <1>10, <2>2, <2>3 DEF ReleaseAddedLocks, StoreTypeOK
<1>11. ASSUME NEW e \in Editor, ReleaseEditLock(e)  PROVE EditTypeOK' /\ EditShape'
  <2>0. edit[e].on \in Batch  BY <1>11, <1>3, WorkingIs DEF ReleaseEditLock, EditAt
  <2>1. draft' \in [Batch -> DraftDoc]
    <3>1. CASE draft[edit[e].on].token = e  BY <1>11, <2>0, <3>1 DEF ReleaseEditLock, DraftDoc
    <3>2. CASE draft[edit[e].on].token # e  BY <1>11, <3>2 DEF ReleaseEditLock
    <3>3. QED  BY <3>1, <3>2
  <2>2. EditEnd(e, "failed") /\ UNCHANGED store  BY <1>11 DEF ReleaseEditLock
  <2>3. QED  BY <1>c, <2>1, <2>2 DEF store, StoreTypeOK
<1>12. ASSUME NEW e \in Editor, EditStepFails(e)  PROVE EditTypeOK' /\ EditShape'
  <2>1. edit[e].pc \in Working /\ Catch(e) /\ UNCHANGED dstore
    BY <1>12 DEF EditStepFails, Working
  <2>2. edit' \in [Editor -> EditState] /\ EditShape'  BY <1>a, <2>1, CatchTyped
  <2>3. QED  BY <2>1, <2>2 DEF dstore, store, StoreTypeOK
<1>f. ASSUME NEW e \in Editor, edit[e].pc \in Misreported, Catch(e)
      PROVE  edit' \in [Editor -> EditState] /\ EditShape'
  BY <1>a, <1>f, MisreportGoes, CatchTyped
<1>18. ASSUME NEW e \in Editor, WriteMisreported(e)  PROVE EditTypeOK' /\ EditShape'
  <2>1. edit' \in [Editor -> EditState] /\ EditShape'
    BY <1>f, <1>18
    DEF WriteMisreported, LocksMisreported, CommitMisreported, RowsMisreported, UnlockMisreported
  <2>2. CASE LocksMisreported(e)  BY <1>d, <2>1, <2>2 DEF LocksMisreported
  <2>3. CASE CommitMisreported(e)  BY <1>e, <2>1, <2>3 DEF CommitMisreported
  <2>4. ASSUME NEW C \in SUBSET Ulb, RowsMisreported(e, C)  PROVE EditTypeOK' /\ EditShape'
    <3>1. child' \in [Batch -> SUBSET Ulb]  BY SMTT(30), <2>4 DEF RowsMisreported, StoreTypeOK
    <3>2. QED  BY <2>1, <2>4, <3>1 DEF RowsMisreported, StoreTypeOK
  <2>5. ASSUME NEW C \in SUBSET Ulb, UnlockMisreported(e, C)  PROVE EditTypeOK' /\ EditShape'
    <3>1. lock' \in [Ulb -> Batch \cup {NoBatch}]  BY <2>5 DEF UnlockMisreported, StoreTypeOK
    <3>2. QED  BY <2>1, <2>5, <3>1 DEF UnlockMisreported, StoreTypeOK
  <2>6. QED  BY <1>18, <2>2, <2>3, <2>4, <2>5 DEF WriteMisreported
<1>13. ASSUME NEW e \in Editor, EditCrash(e)  PROVE EditTypeOK' /\ EditShape'
  BY <1>13, <1>c DEF EditCrash, dstore, store, StoreTypeOK
<1>14. ASSUME NEW b \in Batch, AbandonUnedited(b)  PROVE EditTypeOK' /\ EditShape'
  <2>1. StoreTypeOK'  BY <1>14, EditAbandonTyped DEF AbandonUnedited, AbandonUnleased
  <2>2. QED  BY <1>14, <2>1 DEF AbandonUnedited, AbandonUnleased, EditShape
<1>15. ASSUME NEW b \in Batch, LeaseExpires(b)  PROVE EditTypeOK' /\ EditShape'
  <2>1. draft' \in [Batch -> DraftDoc]  BY <1>15 DEF LeaseExpires, DraftDoc
  <2>2. QED  BY <1>15, <2>1 DEF LeaseExpires, store, StoreTypeOK, EditShape
<1>16. ASSUME UNCHANGED evars  PROVE EditTypeOK' /\ EditShape'
  BY <1>16 DEF evars, dstore, store, StoreTypeOK, EditShape
<1>17. QED
  BY <1>1, <1>2, <1>4, <1>5, <1>6, <1>7, <1>8, <1>9, <1>10, <1>11, <1>12, <1>13, <1>14, <1>15,
     <1>16, <1>18 DEF EditNext, EditStep, EditWork

\* The draft edits keep the state well-typed, whatever fails.
THEOREM EditTypeCorrect == EditSpec => []EditTypeOK
<1>1. EditInit => EditShape
  BY WorkingIs DEF EditInit, EditProcInit, EditShape, IdleEdit
<1>2. QED  BY <1>1, EditInitTyped, EditStepTyped, PTL DEF EditSpec

-----------------------------------------------------------------------------
(* Steps of one edit on its own draft                                      *)

\* A step of the edit e that works on a draft: the batch document stays, and e is over or goes on
\* with the same request.
OwnStep(e) ==
  /\ UNCHANGED <<batch, draft>>
  /\ edit' = [edit EXCEPT ![e] = edit'[e]]
  /\ edit[e].pc \in Working
  /\ \/ edit'[e].pc \in {"done", "failed"}
     \/ /\ edit'[e].pc \in Working
        /\ edit'[e].on = edit[e].on
        /\ edit'[e].revision = edit[e].revision
        /\ edit'[e].sel = edit[e].sel

\* The program counters between the locking of the added ULBs and their release.
Holding == Working \ {"read", "prepare", "release"}

\* A step of e that takes and frees no lock.
LockFreeStep(e) ==
  /\ OwnStep(e)
  /\ lock' = lock
  /\ edit'[e].pc \in Holding => edit[e].pc \in Holding /\ edit'[e].old = edit[e].old
  /\ edit'[e].pc = "commit" => edit[e].sel \subseteq LocksOf(edit[e].on)

\* An insert of rows takes and frees no lock.
LEMMA InsertIsLockFree ==
  ASSUME EditTypeOK, NEW e \in Editor, NEW C \in SUBSET Ulb, NEW R \in SUBSET Ulb,
         NEW next \in {"totals", "unlock"}, NEW onError \in {"restore", "unlock"},
         edit[e].pc \in {"persist", "restore"}, InsertRows(e, C, next, onError, R)
  PROVE  LockFreeStep(e)
<1>1. edit \in [Editor -> EditState] /\ edit[e] \in EditState  BY DEF EditTypeOK
<1>2. CASE C \cap child[edit[e].on] # {}
  <2>1. edit' = [edit EXCEPT ![e].pc = onError, ![e].todo = R]  BY <1>2 DEF InsertRows
  <2>2. QED  BY <1>1, <2>1, WorkingIs DEF InsertRows, LockFreeStep, OwnStep, Holding, EditState
<1>3. CASE C \cap child[edit[e].on] = {}
  <2>1. edit' = [edit EXCEPT ![e].todo = @ \ C,
                             ![e].pc = IF edit[e].todo = C THEN next ELSE @]
    BY <1>3 DEF InsertRows
  <2>2. edit'[e].pc \in {next, edit[e].pc}  BY <1>1, <2>1 DEF EditState
  <2>3. QED
    BY <1>1, <2>1, <2>2, WorkingIs DEF InsertRows, LockFreeStep, OwnStep, Holding, EditState
<1>4. QED  BY <1>2, <1>3

\* The steps of a working edit, the three apart that write its locks or its draft.
LEMMA LockFreeSteps ==
  ASSUME EditTypeOK, NEW e \in Editor,
         \/ ReadChildren(e) \/ Refuse(e) \/ DeleteChildren(e) \/ Totals(e) \/ Verify(e)
         \/ \E C \in SUBSET Ulb : PersistRows(e, C) \/ RestoreRows(e, C)
         \/ Undo(e) \/ EditStepFails(e) \/ EditCrash(e)
         \/ \E C \in SUBSET Ulb : RowsMisreported(e, C)
  PROVE  LockFreeStep(e)
<1>1. edit \in [Editor -> EditState] /\ edit[e] \in EditState /\ edit[e].old \in SUBSET Ulb
  BY DEF EditTypeOK, EditState
<1>2. CASE ReadChildren(e)
  <2>1. PICK pc \in {"prepare", "release"} :
          edit' = [edit EXCEPT ![e].pc = pc, ![e].old = child[edit[e].on]]
    BY <1>2 DEF ReadChildren
  <2>2. edit'[e].pc = pc /\ edit'[e].on = edit[e].on /\ edit'[e].revision = edit[e].revision
          /\ edit'[e].sel = edit[e].sel
    BY <1>1, <2>1 DEF EditState
  <2>3. edit' = [edit EXCEPT ![e] = edit'[e]]  BY <1>1, <2>1
  <2>4. edit[e].pc \in Working /\ UNCHANGED <<batch, draft, lock>>
    BY <1>2, WorkingIs DEF ReadChildren, EditAt, dstore, store
  <2>5. pc \in Working \ Holding /\ pc # "commit"  BY WorkingIs DEF Holding
  <2>6. QED  BY <2>2, <2>3, <2>4, <2>5 DEF LockFreeStep, OwnStep
<1>3. CASE Refuse(e) \/ Totals(e) \/ Verify(e)
  <2>1. PICK pc \in {"release", "verify", "undo", "commit"} : EditGoto(e, pc)
    BY <1>3 DEF Refuse, Totals, Verify
  <2>2. edit'[e] = [edit[e] EXCEPT !.pc = pc]  BY <1>1, <2>1 DEF EditGoto
  <2>3. edit'[e].pc = pc  BY <1>1, <2>2 DEF EditState
  <2>4. edit'[e].pc = "commit" => edit[e].sel \subseteq LocksOf(edit[e].on)
    <3>1. Refuse(e) => edit'[e].pc = "release"  BY <1>1 DEF Refuse, EditGoto, EditState
    <3>2. Totals(e) => edit'[e].pc = "verify"  BY <1>1 DEF Totals, EditGoto, EditState
    <3>3. Verify(e) => edit'[e].pc = "undo" \/ edit[e].sel \subseteq LocksOf(edit[e].on)
      BY <1>1 DEF Verify, EditGoto, EditState
    <3>4. QED  BY <1>3, <3>1, <3>2, <3>3
  <2>5. edit'[e].pc \in Holding => edit[e].pc \in Holding
    <3>1. Refuse(e) => edit'[e].pc = "release"  BY <1>1 DEF Refuse, EditGoto, EditState
    <3>2. Totals(e) \/ Verify(e) => edit[e].pc \in Holding
      BY WorkingIs DEF Totals, Verify, EditAt, Holding
    <3>3. QED  BY <1>3, <3>1, <3>2 DEF Holding
  <2>6. edit[e].pc \in Working /\ UNCHANGED dstore
    BY <1>3, WorkingIs DEF Refuse, Totals, Verify, EditAt
  <2>7. QED
    BY <1>1, <2>1, <2>2, <2>3, <2>4, <2>5, <2>6, WorkingIs
    DEF EditGoto, LockFreeStep, OwnStep, EditState, dstore, store
<1>4. CASE DeleteChildren(e) \/ Undo(e)
  <2>1. PICK pc \in {"persist", "restore", "unlock"}, t \in SUBSET Ulb :
          edit' = [edit EXCEPT ![e].pc = pc, ![e].todo = t]
    <3>1. edit[e].sel \in SUBSET Ulb  BY <1>1 DEF EditState
    <3>2. QED  BY <1>1, <1>4, <3>1 DEF DeleteChildren, Undo
  <2>2. edit'[e].pc = pc /\ edit'[e].on = edit[e].on /\ edit'[e].revision = edit[e].revision
          /\ edit'[e].sel = edit[e].sel /\ edit'[e].old = edit[e].old
    BY <1>1, <2>1 DEF EditState
  <2>3. edit[e].pc \in Holding /\ UNCHANGED <<batch, draft, lock>>
    BY <1>4, WorkingIs DEF DeleteChildren, Undo, EditAt, Holding
  <2>4. edit' = [edit EXCEPT ![e] = edit'[e]]  BY <1>1, <2>1
  <2>5. QED  BY <2>2, <2>3, <2>4, WorkingIs DEF LockFreeStep, OwnStep, Holding
<1>5. ASSUME NEW C \in SUBSET Ulb, PersistRows(e, C) \/ RestoreRows(e, C)  PROVE LockFreeStep(e)
  <2>1. UNCHANGED draft  BY <1>5 DEF PersistRows, RestoreRows, InsertRows
  <2>2. CASE PersistRows(e, C)
    <3>1. InsertRows(e, C, "totals", "restore", edit[e].old) /\ edit[e].pc = "persist"
      BY <2>2 DEF PersistRows, EditAt
    <3>2. QED  BY <1>1, <3>1, InsertIsLockFree
  <2>3. CASE RestoreRows(e, C)
    <3>1. InsertRows(e, C, "unlock", "unlock", {}) /\ edit[e].pc = "restore"
      BY <2>3 DEF RestoreRows, EditAt
    <3>2. {} \in SUBSET Ulb  OBVIOUS
    <3>3. QED  BY <3>1, <3>2, InsertIsLockFree
  <2>4. QED  BY <1>5, <2>2, <2>3
<1>6. CASE EditStepFails(e) \/ EditCrash(e)
  <2>1. edit[e].pc \in Working /\ UNCHANGED dstore
    BY <1>6 DEF EditStepFails, EditCrash, Working
  <2>2. CASE EditEnd(e, "failed")
    <3>1. edit' = [edit EXCEPT ![e] = [IdleEdit EXCEPT !.pc = "failed"]]  BY <2>2 DEF EditEnd
    <3>2. edit'[e].pc = "failed"  BY <1>1, <3>1 DEF IdleEdit
    <3>3. QED
      BY <1>1, <2>1, <3>1, <3>2, WorkingIs DEF LockFreeStep, OwnStep, Holding, dstore, store
  <2>3. CASE ~EditEnd(e, "failed")
    <3>0. Catch(e)  BY <1>6, <2>3 DEF EditStepFails, EditCrash
    <3>1. PICK pc \in {OnError[edit[e].pc], "unlock"}, t \in SUBSET Ulb :
            /\ edit' = [edit EXCEPT ![e].pc = pc, ![e].todo = t]
            /\ pc = "unlock" => OnError[edit[e].pc] \in {"restore", "unlock"}
      BY <1>1, <2>1, <2>3, <3>0, CatchGoes
    <3>2. edit'[e].pc = pc /\ edit'[e].on = edit[e].on /\ edit'[e].revision = edit[e].revision
            /\ edit'[e].sel = edit[e].sel /\ edit'[e].old = edit[e].old
      BY <1>1, <3>1 DEF EditState
    <3>3. /\ pc \in Working \cup {"failed"}
          /\ pc # "commit"
          /\ pc \in Holding => edit[e].pc \in Holding
      BY <2>1, <3>1, WorkingIs DEF OnError, Holding
    <3>4. edit' = [edit EXCEPT ![e] = edit'[e]]  BY <1>1, <3>1
    <3>5. QED  BY <2>1, <3>2, <3>3, <3>4 DEF LockFreeStep, OwnStep, dstore, store
  <2>4. QED  BY <2>2, <2>3
<1>7. ASSUME NEW C \in SUBSET Ulb, RowsMisreported(e, C)  PROVE LockFreeStep(e)
  <2>1. /\ edit[e].pc \in Misreported /\ Catch(e) /\ UNCHANGED <<batch, lock, draft>>
        /\ edit[e].pc \in {"delete", "undo", "persist"}
    BY <1>7 DEF RowsMisreported, EditAt
  <2>2. /\ edit' = [edit EXCEPT ![e] = edit'[e]]
        /\ edit'[e].on = edit[e].on /\ edit'[e].revision = edit[e].revision
        /\ edit'[e].sel = edit[e].sel /\ edit'[e].old = edit[e].old
        /\ edit'[e].pc \in {"unlock", "restore"}
    BY <1>1, <2>1, MisreportGoes
  <2>3. edit[e].pc \in Holding /\ edit'[e].pc \in Working  BY <2>1, <2>2, WorkingIs DEF Holding
  <2>4. QED  BY <2>1, <2>2, <2>3 DEF LockFreeStep, OwnStep, Holding
<1>8. QED  BY <1>2, <1>3, <1>4, <1>5, <1>6, <1>7

\* Taking and freeing the locks of the added ULBs.
LEMMA LockStepsAreOwn ==
  ASSUME EditTypeOK, NEW e \in Editor,
         \/ AddLocks(e) \/ LocksMisreported(e) \/ ReleaseAddedLocks(e)
         \/ \E C \in SUBSET Ulb : UnlockMisreported(e, C)
  PROVE  OwnStep(e) /\ edit'[e].old = edit[e].old
<1>1. edit \in [Editor -> EditState]  BY DEF EditTypeOK
<1>2. CASE AddLocks(e) \/ ReleaseAddedLocks(e)
  <2>1. PICK pc \in {"delete", "release"} : EditGoto(e, pc)
    BY <1>2 DEF AddLocks, ReleaseAddedLocks
  <2>2. edit[e].pc \in Working /\ UNCHANGED <<batch, draft>>
    BY <1>2, WorkingIs DEF AddLocks, LockAdded, ReleaseAddedLocks, EditAt
  <2>3. edit' = [edit EXCEPT ![e].pc = pc]  BY <2>1 DEF EditGoto
  <2>4. edit'[e].pc = pc /\ edit'[e].on = edit[e].on /\ edit'[e].revision = edit[e].revision
          /\ edit'[e].sel = edit[e].sel /\ edit'[e].old = edit[e].old
    BY <1>1, <2>3 DEF EditState
  <2>5. edit' = [edit EXCEPT ![e] = edit'[e]]  BY <1>1, <2>3
  <2>6. QED  BY <2>2, <2>4, <2>5, WorkingIs DEF OwnStep
<1>3. CASE LocksMisreported(e) \/ \E C \in SUBSET Ulb : UnlockMisreported(e, C)
  <2>1. /\ edit[e].pc \in Misreported /\ Catch(e) /\ UNCHANGED <<batch, draft>>
        /\ edit[e].pc \in {"prepare", "unlock"}
    BY <1>3 DEF LocksMisreported, LockAdded, UnlockMisreported, EditAt
  <2>2. /\ edit[e].pc \in Working
        /\ edit' = [edit EXCEPT ![e] = edit'[e]]
        /\ edit'[e].on = edit[e].on /\ edit'[e].revision = edit[e].revision
        /\ edit'[e].sel = edit[e].sel /\ edit'[e].old = edit[e].old
        /\ edit'[e].pc = "release"
    BY <1>1, <2>1, MisreportGoes
  <2>3. QED  BY <2>1, <2>2, WorkingIs DEF OwnStep
<1>4. QED  BY <1>2, <1>3

-----------------------------------------------------------------------------
(* No lost update                                                          *)

\* The edit that holds the lock of a draft was opened on its current revision, unless it is over.
TokenKnowsRevision ==
  \A b \in Batch, e \in Editor : draft[b].token = e =>
    \/ edit[e].pc \in {"done", "failed"}
    \/ /\ edit[e].pc \in Working
       /\ edit[e].on = b /\ edit[e].revision = draft[b].revision

\* Steps that leave the drafts alone keep it, when the edit goes on with its request.
LEMMA TokenFrame ==
  ASSUME EditTypeOK, TokenKnowsRevision, NEW e \in Editor, OwnStep(e)
  PROVE  TokenKnowsRevision'
<1>1. edit \in [Editor -> EditState]  BY DEF EditTypeOK
<1>2. \A d \in Editor \ {e} : edit'[d] = edit[d]  BY <1>1 DEF OwnStep
<1>3. edit[e].pc \notin {"done", "failed"}  BY WorkingIs DEF OwnStep
<1>4. QED  BY <1>2, <1>3 DEF OwnStep, TokenKnowsRevision

LEMMA TokenStep ==
  EditTypeOK /\ EditShape /\ TokenKnowsRevision /\ [EditNext]_evars => TokenKnowsRevision'
<1> SUFFICES ASSUME EditTypeOK, EditShape, TokenKnowsRevision, [EditNext]_evars
             PROVE  TokenKnowsRevision'
  OBVIOUS
<1>a. edit \in [Editor -> EditState] /\ draft \in [Batch -> DraftDoc]
  BY DEF EditTypeOK, DraftTypeOK
<1>1. ASSUME NEW e \in Editor, NEW b \in Batch, NEW S \in SUBSET Ulb, Open(e, b, S)
      PROVE  TokenKnowsRevision'
  <2>1. \A c \in Batch : draft[c].token # e
    BY <1>1, WorkingIs DEF Open, EditAt, TokenKnowsRevision
  <2>2. draft' = draft /\ \A d \in Editor \ {e} : edit'[d] = edit[d]
    BY <1>a, <1>1 DEF Open, dstore
  <2>3. QED  BY <2>1, <2>2 DEF TokenKnowsRevision
<1>2. ASSUME NEW e \in Editor, Claim(e)  PROVE TokenKnowsRevision'
  <2>1. \A c \in Batch : draft[c].token # e
    BY <1>2, WorkingIs DEF Claim, EditAt, TokenKnowsRevision
  <2>2. \A d \in Editor \ {e} : edit'[d] = edit[d]
    BY <1>a, <1>2 DEF Claim, EditGoto, EditEnd
  <2>3. edit[e].on \in Batch  BY <1>2 DEF Claim, EditAt, EditShape
  <2>4. CASE Editable(edit[e].on, edit[e].revision)
    <3>1. draft' = [draft EXCEPT ![edit[e].on].token = e, ![edit[e].on].expired = FALSE]
            /\ edit' = [edit EXCEPT ![e].pc = "read"]
      BY <1>2, <2>4 DEF Claim, EditGoto
    <3>2. draft[edit[e].on].revision = edit[e].revision  BY <2>4 DEF Editable
    <3>3. /\ draft'[edit[e].on].revision = draft[edit[e].on].revision
          /\ draft'[edit[e].on].token = e
          /\ \A c \in Batch \ {edit[e].on} : draft'[c] = draft[c]
      BY <1>a, <2>3, <3>1 DEF DraftDoc
    <3>4. edit'[e].pc = "read" /\ edit'[e].on = edit[e].on /\ edit'[e].revision = edit[e].revision
      BY <1>a, <3>1 DEF EditState
    <3>5. QED  BY <2>1, <2>2, <2>3, <3>2, <3>3, <3>4, WorkingIs DEF TokenKnowsRevision
  <2>5. CASE ~Editable(edit[e].on, edit[e].revision)
    <3>1. draft' = draft  BY <1>2, <2>5 DEF Claim
    <3>2. QED  BY <2>1, <2>2, <3>1 DEF TokenKnowsRevision
  <2>6. QED  BY <2>4, <2>5
<1>3. ASSUME NEW e \in Editor, LockFreeStep(e)  PROVE TokenKnowsRevision'
  BY <1>3, TokenFrame DEF LockFreeStep
<1>4. ASSUME NEW e \in Editor,
             \/ AddLocks(e) \/ LocksMisreported(e) \/ ReleaseAddedLocks(e)
             \/ \E C \in SUBSET Ulb : UnlockMisreported(e, C)
      PROVE  TokenKnowsRevision'
  BY <1>4, LockStepsAreOwn, TokenFrame
<1>b. ASSUME NEW e \in Editor, CommitEdit(e), \A d \in Editor \ {e} : edit'[d] = edit[d]
      PROVE  TokenKnowsRevision'
  <2>1. edit[e].on \in Batch  BY <1>b, WorkingIs DEF CommitEdit, EditAt, EditShape
  <2>2. draft' = [draft EXCEPT ![edit[e].on].revision = @ + 1, ![edit[e].on].token = NoEditor,
                               ![edit[e].on].expired = FALSE, ![edit[e].on].signed = NoPath]
    BY <1>b DEF CommitEdit
  <2>3. draft'[edit[e].on].token = NoEditor /\ \A c \in Batch \ {edit[e].on} : draft'[c] = draft[c]
    BY <1>a, <2>1, <2>2 DEF DraftDoc
  <2>4. edit[e].pc \in Working /\ edit[e].pc \notin {"done", "failed"}
    BY <1>b, WorkingIs DEF CommitEdit, EditAt
  <2>5. \A c \in Batch \ {edit[e].on} : draft[c].token # e  BY <2>4 DEF TokenKnowsRevision
  <2>6. QED  BY <1>b, <2>3, <2>5, DraftAssumption DEF TokenKnowsRevision
<1>5. ASSUME NEW e \in Editor, Commit(e) \/ CommitMisreported(e)  PROVE TokenKnowsRevision'
  <2>1. CASE CommitEdit(e) /\ EditEnd(e, "done")
    <3>1. \A d \in Editor \ {e} : edit'[d] = edit[d]  BY <1>a, <2>1 DEF EditEnd
    <3>2. QED  BY <1>b, <2>1, <3>1
  <2>2. CASE EditAt(e, "commit") /\ EditGoto(e, "undo") /\ UNCHANGED dstore
    <3>1. edit[e].pc \in Working  BY <2>2, WorkingIs DEF EditAt
    <3>2. OwnStep(e)  BY <1>a, <2>2, <3>1, WorkingIs DEF EditGoto, OwnStep, EditState, dstore, store
    <3>3. QED  BY SMTT(30), <3>2, TokenFrame
  <2>3. CASE CommitMisreported(e)
    <3>1. \A d \in Editor \ {e} : edit'[d] = edit[d]
      BY <1>a, <2>3, MisreportGoes DEF CommitMisreported
    <3>2. QED  BY <1>b, <2>3, <3>1 DEF CommitMisreported
  <2>4. QED  BY <1>5, <2>1, <2>2, <2>3 DEF Commit
<1>6. ASSUME NEW e \in Editor, ReleaseEditLock(e)  PROVE TokenKnowsRevision'
  <2>1. edit[e].on \in Batch  BY <1>6, WorkingIs DEF ReleaseEditLock, EditAt, EditShape
  <2>2. edit' = [edit EXCEPT ![e] = [IdleEdit EXCEPT !.pc = "failed"]]
    BY <1>6 DEF ReleaseEditLock, EditEnd
  <2>3. edit'[e].pc = "failed" /\ \A d \in Editor \ {e} : edit'[d] = edit[d]
    BY <1>a, <2>2 DEF IdleEdit
  <2>4. \A c \in Batch : draft'[c] = draft[c] \/ draft'[c].token = NoEditor
    BY <1>a, <1>6, <2>1 DEF ReleaseEditLock, DraftDoc
  <2>5. QED  BY <2>3, <2>4, DraftAssumption DEF TokenKnowsRevision
<1>7. ASSUME NEW b \in Batch, AbandonUnedited(b) \/ LeaseExpires(b)  PROVE TokenKnowsRevision'
  <2>1. edit' = edit  BY <1>7 DEF AbandonUnedited, LeaseExpires
  <2>2. \A c \in Batch : draft'[c].token = draft[c].token /\ draft'[c].revision = draft[c].revision
    BY <1>a, <1>7 DEF AbandonUnedited, AbandonUnleased, LeaseExpires, DraftDoc
  <2>3. QED  BY <2>1, <2>2 DEF TokenKnowsRevision
<1>8. CASE UNCHANGED evars  BY <1>8 DEF evars, dstore, TokenKnowsRevision
<1>9. ASSUME NEW e \in Editor, EditStep(e)  PROVE TokenKnowsRevision'
  BY <1>1, <1>2, <1>3, <1>4, <1>5, <1>6, <1>9, LockFreeSteps DEF EditStep, EditWork, WriteMisreported
<1>10. QED  BY <1>7, <1>8, <1>9 DEF EditNext

\* The revision of a draft moves only under an edit that was opened on the current one, also when
\* leases run out and edits overlap.
THEOREM EditsNeverLost == EditSpec => NoLostUpdate
<1>1. EditInit => EditTypeOK /\ EditShape /\ TokenKnowsRevision
  <2>1. EditInit => EditShape
    BY WorkingIs DEF EditInit, EditProcInit, EditShape, IdleEdit
  <2>2. EditInit => TokenKnowsRevision
    <3>1. EditInit => draft = [b \in Batch |-> NewDraft]  BY DEF EditInit, PublishedInit
    <3>2. NewDraft.token \notin Editor  BY DraftAssumption DEF NewDraft
    <3>3. QED  BY <3>1, <3>2 DEF TokenKnowsRevision
  <2>3. QED  BY <2>1, <2>2, EditInitTyped
<1>2. ASSUME EditTypeOK, EditShape, TokenKnowsRevision, [EditNext]_evars, NEW b \in Batch,
             draft'[b].revision # draft[b].revision
      PROVE  \E e \in Editor : /\ EditAt(e, "commit") /\ edit'[e] # edit[e]
                               /\ edit[e].on = b /\ edit[e].revision = draft[b].revision
  <2>a. edit \in [Editor -> EditState] /\ draft \in [Batch -> DraftDoc]
    BY <1>2 DEF EditTypeOK, DraftTypeOK
  <2>1. PICK e \in Editor :
          CommitEdit(e) /\ (EditEnd(e, "done") \/ CommitMisreported(e)) /\ draft' # draft
    <3>1. ~UNCHANGED evars /\ draft' # draft  BY <1>2 DEF evars, dstore
    <3>2. ASSUME NEW c \in Batch, AbandonUnedited(c) \/ LeaseExpires(c)  PROVE FALSE
      BY <1>2, <2>a, <3>2 DEF AbandonUnedited, AbandonUnleased, LeaseExpires, DraftDoc
    <3>3. ASSUME NEW e \in Editor, Claim(e) \/ ReleaseEditLock(e)  PROVE FALSE
      <4>1. edit[e].on \in Batch
        BY <1>2, <3>3, WorkingIs DEF Claim, ReleaseEditLock, EditAt, EditShape
      <4>2. QED  BY <1>2, <2>a, <3>3, <4>1 DEF Claim, ReleaseEditLock, DraftDoc
    <3>4. ASSUME NEW e \in Editor, EditStep(e)
          PROVE  CommitEdit(e) /\ (EditEnd(e, "done") \/ CommitMisreported(e))
      <4>1. ~LockFreeStep(e) /\ ~OwnStep(e)  BY <3>1 DEF LockFreeStep, OwnStep
      <4>2. ~AddLocks(e) /\ ~LocksMisreported(e) /\ ~ReleaseAddedLocks(e)
              /\ ~\E C \in SUBSET Ulb : UnlockMisreported(e, C)
        BY <1>2, <4>1, LockStepsAreOwn
      <4>3. \A c \in Batch, S \in SUBSET Ulb : ~Open(e, c, S)  BY <3>1 DEF Open, dstore
      <4>4. Commit(e) \/ CommitMisreported(e)
        BY SMTT(30), <1>2, <3>3, <3>4, <4>1, <4>2, <4>3, LockFreeSteps
        DEF EditStep, EditWork, WriteMisreported
      <4>5. QED  BY <3>1, <4>4 DEF Commit, CommitMisreported, dstore
    <3>5. QED  BY <1>2, <3>1, <3>2, <3>4 DEF EditNext
  <2>2. draft[edit[e].on].token = e  BY SMTT(30), <2>1 DEF CommitEdit, CommitFits
  <2>3. edit[e].on \in Batch /\ EditAt(e, "commit")
    BY SMTT(30), <1>2, <2>1, WorkingIs DEF CommitEdit, EditAt, EditShape
  <2>4. draft' = [draft EXCEPT ![edit[e].on].revision = @ + 1, ![edit[e].on].token = NoEditor,
                               ![edit[e].on].expired = FALSE, ![edit[e].on].signed = NoPath]
    BY <2>1 DEF CommitEdit
  <2>5. edit[e].on = b  BY <1>2, <2>a, <2>4
  <2>6. edit[e].revision = draft[b].revision
    BY <1>2, <2>2, <2>3, <2>5 DEF TokenKnowsRevision, EditAt
  <2>7. edit'[e].pc \in {"done", "undo"}
    <3>1. CASE EditEnd(e, "done")  BY <2>a, <3>1 DEF EditEnd, IdleEdit
    <3>2. CASE CommitMisreported(e)
      BY <2>a, <2>3, <3>2, MisreportGoes DEF CommitMisreported, EditAt
    <3>3. QED  BY <2>1, <3>1, <3>2
  <2>8. edit'[e] # edit[e]  BY <2>3, <2>7 DEF EditAt
  <2>9. QED  BY <2>3, <2>5, <2>6, <2>8
<1>3. EditTypeOK /\ EditShape /\ TokenKnowsRevision /\ [EditNext]_evars =>
        (\A b \in Batch : draft'[b].revision # draft[b].revision =>
           \E e \in Editor : /\ EditAt(e, "commit") /\ edit'[e] # edit[e]
                             /\ edit[e].on = b /\ edit[e].revision = draft[b].revision)
  BY <1>2
<1>4. QED  BY <1>1, <1>3, EditStepTyped, TokenStep, PTL DEF EditSpec, NoLostUpdate

-----------------------------------------------------------------------------
(* Claimed ULBs stay locked                                                *)

\* While no edit outlives its lease, the edit that works on a draft holds its lock.
WorkerHoldsLease ==
  \A e \in Editor : edit[e].pc \in Working =>
    draft[edit[e].on].token = e /\ ~draft[edit[e].on].expired

\* The ULBs whose locks an edit took are in no content yet, so undoing it frees none of a claim's.
AddedIsUnclaimed ==
  \A e \in Editor :
    edit[e].pc \in Working \ {"read", "prepare", "release"} /\ InProgressOrReview(edit[e].on) =>
      Added(e) \cap batch[edit[e].on].content = {}

\* What an edit is about to commit is locked.
VerifiedIsLocked ==
  \A e \in Editor : EditAt(e, "commit") => edit[e].sel \subseteq LocksOf(edit[e].on)

ClaimInv == WorkerHoldsLease /\ ClaimedStaysLocked /\ AddedIsUnclaimed /\ VerifiedIsLocked

\* Two edits never work on one draft.
LEMMA OneWorker ==
  ASSUME WorkerHoldsLease, NEW d \in Editor, NEW e \in Editor,
         edit[d].pc \in Working, edit[e].pc \in Working, edit[d].on = edit[e].on
  PROVE  d = e
BY DEF WorkerHoldsLease

\* Steps of a working edit that take and free no lock.
LEMMA LockFreeKeeps ==
  ASSUME EditTypeOK, ClaimInv, NEW e \in Editor, LockFreeStep(e)
  PROVE  ClaimInv'
<1>1. edit \in [Editor -> EditState]  BY DEF EditTypeOK
<1>2. \A d \in Editor \ {e} : edit'[d] = edit[d]  BY <1>1 DEF LockFreeStep, OwnStep
<1>3. batch' = batch /\ draft' = draft /\ lock' = lock  BY DEF LockFreeStep, OwnStep
<1>4. WorkerHoldsLease'
  BY <1>2, <1>3, WorkingIs DEF LockFreeStep, OwnStep, ClaimInv, WorkerHoldsLease
<1>5. ClaimedStaysLocked'
  BY <1>3 DEF ClaimInv, ClaimedStaysLocked, InProgressOrReview, Ready, LocksOf
<1>6. AddedIsUnclaimed'
  BY <1>2, <1>3, WorkingIs
  DEF LockFreeStep, OwnStep, Holding, ClaimInv, AddedIsUnclaimed, InProgressOrReview, Ready, Added
<1>7. VerifiedIsLocked'
  BY <1>2, <1>3, WorkingIs
  DEF LockFreeStep, OwnStep, ClaimInv, VerifiedIsLocked, LocksOf, EditAt
<1>8. QED  BY <1>4, <1>5, <1>6, <1>7 DEF ClaimInv

\* Only ULBs without a lock are locked.
LEMMA AddLocksKeeps ==
  ASSUME EditTypeOK, EditShape, ClaimInv, NEW e \in Editor, AddLocks(e) \/ LocksMisreported(e)
  PROVE  ClaimInv'
<1>1. edit \in [Editor -> EditState] /\ OwnStep(e) /\ edit'[e].old = edit[e].old
  BY LockStepsAreOwn DEF EditTypeOK
<1>2. \A d \in Editor \ {e} : edit'[d] = edit[d]  BY <1>1 DEF OwnStep
<1>3. batch' = batch /\ draft' = draft  BY <1>1 DEF OwnStep
<1>a. LockAdded(e)  BY DEF AddLocks, LocksMisreported
<1>4. /\ edit[e].on \in Batch /\ edit[e].pc \in Working
      /\ edit'[e].pc \in {"delete", "release"}
  <2>1. edit[e].pc = "prepare" /\ edit[e].pc \in Working
    BY <1>a, WorkingIs DEF LockAdded, EditAt
  <2>2. ASSUME AddLocks(e)  PROVE edit'[e].pc = "delete"
    <3>1. edit' = [edit EXCEPT ![e].pc = "delete"]  BY <2>2 DEF AddLocks, EditGoto
    <3>2. QED  BY <1>1, <3>1 DEF EditState
  <2>3. ASSUME LocksMisreported(e)  PROVE edit'[e].pc = "release"
    <3>1. edit[e].pc \in Misreported /\ Catch(e)  BY <2>3 DEF LocksMisreported
    <3>2. QED  BY <1>1, <2>1, <3>1, MisreportGoes
  <2>4. edit'[e].pc \in {"delete", "release"}  BY <2>2, <2>3
  <2>5. edit[e].on \in Batch  BY <2>1 DEF EditShape
  <2>6. QED  BY <2>1, <2>4, <2>5
<1>5. /\ \A u \in Added(e) : lock[u] = NoBatch
      /\ lock' = [u \in Ulb |-> IF u \in Added(e) THEN edit[e].on ELSE lock[u]]
  BY <1>a DEF LockAdded
<1>6. \A b \in Batch : LocksOf(b) \subseteq LocksOf(b)'
  BY <1>5, StoreAssumption DEF LocksOf
<1>7. WorkerHoldsLease'
  BY <1>1, <1>2, <1>3, <1>4, WorkingIs DEF OwnStep, ClaimInv, WorkerHoldsLease
<1>8. ClaimedStaysLocked'
  BY <1>3, <1>6 DEF ClaimInv, ClaimedStaysLocked, InProgressOrReview, Ready
<1>9. AddedIsUnclaimed'
  <2>1. ASSUME InProgressOrReview(edit[e].on)  PROVE Added(e) \cap batch[edit[e].on].content = {}
    BY <1>4, <1>5, <2>1, StoreAssumption DEF ClaimInv, ClaimedStaysLocked, LocksOf
  <2>2. edit'[e].on = edit[e].on /\ edit'[e].sel = edit[e].sel
    BY <1>1, <1>4 DEF OwnStep
  <2>3. QED
    BY <1>1, <1>2, <1>3, <2>1, <2>2 DEF ClaimInv, AddedIsUnclaimed, InProgressOrReview, Ready, Added
<1>10. VerifiedIsLocked'
  <2>1. SUFFICES ASSUME NEW d \in Editor, edit'[d].pc = "commit"
                 PROVE  edit'[d].sel \subseteq {u \in Ulb : lock'[u] = edit'[d].on}
    BY DEF VerifiedIsLocked, EditAt, LocksOf
  <2>2. d # e  BY <1>4, <2>1
  <2>3. edit'[d] = edit[d] /\ edit[d].on \in Batch  BY <1>2, <2>1, <2>2, WorkingIs DEF EditShape
  <2>4. edit[d].sel \subseteq LocksOf(edit[d].on)
    BY <2>1, <2>3 DEF ClaimInv, VerifiedIsLocked, EditAt
  <2>5. QED  BY <1>6, <2>3, <2>4 DEF LocksOf
<1>11. QED  BY <1>7, <1>8, <1>9, <1>10 DEF ClaimInv

\* Undoing an edit, in full or in part, frees no lock of a claim: what it added is in no content yet.
LEMMA ReleaseAddedKeeps ==
  ASSUME EditTypeOK, EditShape, ClaimInv, NEW e \in Editor,
         ReleaseAddedLocks(e) \/ \E C \in SUBSET Ulb : UnlockMisreported(e, C)
  PROVE  ClaimInv'
<1>1. edit \in [Editor -> EditState] /\ OwnStep(e)  BY LockStepsAreOwn DEF EditTypeOK
<1>2. \A d \in Editor \ {e} : edit'[d] = edit[d]  BY <1>1 DEF OwnStep
<1>3. batch' = batch /\ draft' = draft  BY <1>1 DEF OwnStep
<1>4. /\ edit[e].on \in Batch /\ edit[e].pc \in Working
      /\ edit[e].pc \notin {"read", "prepare", "release", "commit"}
      /\ edit'[e].pc = "release"
  <2>1. edit[e].pc = "unlock" /\ edit[e].pc \in Working
    BY WorkingIs DEF ReleaseAddedLocks, UnlockMisreported, EditAt
  <2>2. ASSUME ReleaseAddedLocks(e)  PROVE edit'[e].pc = "release"
    <3>1. edit' = [edit EXCEPT ![e].pc = "release"]  BY <2>2 DEF ReleaseAddedLocks, EditGoto
    <3>2. QED  BY <1>1, <3>1 DEF EditState
  <2>3. ASSUME NEW C \in SUBSET Ulb, UnlockMisreported(e, C)  PROVE edit'[e].pc = "release"
    <3>1. edit[e].pc \in Misreported /\ Catch(e)  BY <2>3 DEF UnlockMisreported
    <3>2. QED  BY <1>1, <2>1, <3>1, MisreportGoes
  <2>4. edit'[e].pc = "release"  BY <2>2, <2>3
  <2>5. edit[e].on \in Batch  BY <2>1 DEF EditShape
  <2>6. QED  BY <2>1, <2>4, <2>5
<1>5. PICK C \in SUBSET Ulb :
        /\ C \subseteq Added(e)
        /\ lock' = [u \in Ulb |-> IF u \in C /\ lock[u] = edit[e].on THEN NoBatch ELSE lock[u]]
  <2>1. CASE ReleaseAddedLocks(e)
    <3>1. Added(e) \in SUBSET Ulb  BY <1>1 DEF Added, EditState
    <3>2. QED  BY <2>1, <3>1 DEF ReleaseAddedLocks
  <2>2. CASE \E C \in SUBSET Ulb : UnlockMisreported(e, C)  BY <2>2 DEF UnlockMisreported
  <2>3. QED  BY <2>1, <2>2
<1>6. \A b \in Batch : b # edit[e].on => LocksOf(b)' = LocksOf(b)
  BY <1>5, StoreAssumption DEF LocksOf
<1>7. WorkerHoldsLease'
  BY <1>1, <1>2, <1>3, <1>4, WorkingIs DEF OwnStep, ClaimInv, WorkerHoldsLease
<1>8. ClaimedStaysLocked'
  <2>1. SUFFICES ASSUME NEW b \in Batch, InProgressOrReview(b)
                 PROVE  batch[b].content \subseteq LocksOf(b)'
    BY <1>3 DEF ClaimedStaysLocked, InProgressOrReview, Ready
  <2>2. batch[b].content \subseteq LocksOf(b)  BY <2>1 DEF ClaimInv, ClaimedStaysLocked
  <2>3. CASE b = edit[e].on
    <3>1. Added(e) \cap batch[b].content = {}
      BY <1>4, <2>1, <2>3 DEF ClaimInv, AddedIsUnclaimed
    <3>2. QED  BY <1>5, <2>2, <3>1 DEF LocksOf
  <2>4. CASE b # edit[e].on  BY <1>6, <2>2, <2>4
  <2>5. QED  BY <2>3, <2>4
<1>9. AddedIsUnclaimed'
  BY <1>2, <1>3, <1>4 DEF ClaimInv, AddedIsUnclaimed, InProgressOrReview, Ready, Added
<1>10. VerifiedIsLocked'
  <2>1. SUFFICES ASSUME NEW d \in Editor, edit'[d].pc = "commit"
                 PROVE  edit'[d].sel \subseteq {u \in Ulb : lock'[u] = edit'[d].on}
    BY DEF VerifiedIsLocked, EditAt, LocksOf
  <2>2. d # e  BY <1>4, <2>1
  <2>3. edit'[d] = edit[d] /\ edit[d].on \in Batch /\ edit[d].pc \in Working
    BY <1>2, <2>1, <2>2, WorkingIs DEF EditShape
  <2>4. edit[d].on # edit[e].on  BY <1>4, <2>2, <2>3, OneWorker DEF ClaimInv
  <2>5. edit[d].sel \subseteq LocksOf(edit[d].on)
    BY <2>1, <2>3 DEF ClaimInv, VerifiedIsLocked, EditAt
  <2>6. QED  BY <1>6, <2>3, <2>4, <2>5 DEF LocksOf
<1>11. QED  BY <1>7, <1>8, <1>9, <1>10 DEF ClaimInv

\* A commit frees only locks of ULBs that leave the claim.
LEMMA CommitKeeps ==
  ASSUME EditTypeOK, EditShape, ClaimInv, NEW e \in Editor, Commit(e)
  PROVE  ClaimInv'
<1> DEFINE b == edit[e].on
<1>1. edit \in [Editor -> EditState] /\ draft \in [Batch -> DraftDoc] /\ batch \in [Batch -> BatchDoc]
  BY DEF EditTypeOK, DraftTypeOK, StoreTypeOK
<1>2. b \in Batch /\ edit[e].pc = "commit" /\ edit[e].pc \in Working
  BY WorkingIs DEF Commit, CommitEdit, EditAt, EditShape
<1>3. CASE ~CommitFits(e)
  <2>1. EditGoto(e, "undo") /\ UNCHANGED dstore  BY <1>3 DEF Commit, CommitEdit
  <2>2. edit'[e].pc = "undo" /\ edit'[e].on = b /\ edit'[e].revision = edit[e].revision
          /\ edit'[e].sel = edit[e].sel /\ edit'[e].old = edit[e].old
          /\ edit' = [edit EXCEPT ![e] = edit'[e]]
    BY <1>1, <2>1 DEF EditGoto, EditState
  <2>3. "undo" \in Working /\ edit[e].pc \in Holding  BY <1>2, WorkingIs DEF Holding
  <2>4. LockFreeStep(e)
    BY SMTT(30), <1>2, <2>1, <2>2, <2>3 DEF LockFreeStep, OwnStep, dstore, store
  <2>5. QED  BY <2>4, LockFreeKeeps
<1>4. CASE CommitFits(e)
  <2>1. /\ batch' = [batch EXCEPT ![b].content = edit[e].sel]
        /\ draft' = [draft EXCEPT ![b].revision = @ + 1, ![b].token = NoEditor,
                                  ![b].expired = FALSE, ![b].signed = NoPath]
        /\ lock' = [u \in Ulb |-> IF u \in Removed(e) /\ lock[u] = b THEN NoBatch ELSE lock[u]]
        /\ edit' = [edit EXCEPT ![e] = [IdleEdit EXCEPT !.pc = "done"]]
    BY <1>4 DEF Commit, CommitEdit, EditEnd
  <2>2. edit'[e].pc = "done" /\ \A d \in Editor \ {e} : edit'[d] = edit[d]
    BY <1>1, <2>1 DEF IdleEdit
  <2>3. /\ batch'[b].content = edit[e].sel
        /\ \A c \in Batch \ {b} : batch'[c] = batch[c] /\ draft'[c] = draft[c]
    BY <1>1, <1>2, <2>1 DEF BatchDoc
  <2>4. \A c \in Batch : /\ batch'[c].assembly = batch[c].assembly
                         /\ batch'[c].abandoned = batch[c].abandoned
    BY <1>1, <2>1 DEF BatchDoc
  <2>5. \A c \in Batch : c # b => LocksOf(c)' = LocksOf(c)
    BY <2>1, StoreAssumption DEF LocksOf
  <2>6. \A d \in Editor \ {e} : edit[d].pc \in Working => edit[d].on # b /\ edit[d].on \in Batch
    BY <1>2, OneWorker DEF ClaimInv, EditShape
  <2>7. WorkerHoldsLease'
    <3>1. "done" \notin Working  BY WorkingIs
    <3>2. QED  BY <2>2, <2>3, <2>6, <3>1 DEF ClaimInv, WorkerHoldsLease
  <2>8. ClaimedStaysLocked'
    <3>1. SUFFICES ASSUME NEW c \in Batch, InProgressOrReview(c)
                   PROVE  batch'[c].content \subseteq LocksOf(c)'
      BY SMTT(30), <2>4 DEF ClaimedStaysLocked, InProgressOrReview, Ready
    <3>2. CASE c = b
      <4>1. edit[e].sel \subseteq LocksOf(b)  BY <1>2 DEF ClaimInv, VerifiedIsLocked, EditAt
      <4>2. QED  BY <2>1, <2>3, <3>2, <4>1 DEF LocksOf, Removed
    <3>3. CASE c # b
      BY <2>3, <2>5, <3>1, <3>3 DEF ClaimInv, ClaimedStaysLocked
    <3>4. QED  BY <3>2, <3>3
  <2>9. AddedIsUnclaimed'
    <3>1. "done" \notin Working  BY WorkingIs
    <3>2. QED
      BY <2>2, <2>3, <2>6, <3>1 DEF ClaimInv, AddedIsUnclaimed, InProgressOrReview, Ready, Added
  <2>10. VerifiedIsLocked'
    <3>1. SUFFICES ASSUME NEW d \in Editor, edit'[d].pc = "commit"
                   PROVE  edit'[d].sel \subseteq {u \in Ulb : lock'[u] = edit'[d].on}
      BY DEF VerifiedIsLocked, EditAt, LocksOf
    <3>2. d # e /\ edit'[d] = edit[d]  BY <2>2, <3>1
    <3>3. edit[d].on # b /\ edit[d].on \in Batch  BY <2>6, <3>1, <3>2, WorkingIs
    <3>4. edit[d].sel \subseteq LocksOf(edit[d].on)
      BY <3>1, <3>2 DEF ClaimInv, VerifiedIsLocked, EditAt
    <3>5. QED  BY <2>5, <3>2, <3>3, <3>4 DEF LocksOf
  <2>11. QED  BY <2>7, <2>8, <2>9, <2>10 DEF ClaimInv
<1>5. QED  BY <1>3, <1>4

\* The steps that take or give back the edit lock, and the passing of time.
LEMMA LeaseStepsKeep ==
  ASSUME "slow" \notin Faults, EditTypeOK, EditShape, ClaimInv,
         \/ \E e \in Editor : \/ \E b \in Batch, S \in SUBSET Ulb : Open(e, b, S)
                              \/ Claim(e) \/ ReleaseEditLock(e)
         \/ \E b \in Batch : LeaseExpires(b)
  PROVE  ClaimInv'
<1>1. edit \in [Editor -> EditState] /\ draft \in [Batch -> DraftDoc]
  BY SMTT(30) DEF EditTypeOK, DraftTypeOK
<1>2. UNCHANGED store
  BY DEF Open, Claim, ReleaseEditLock, LeaseExpires, dstore
<1>3. ClaimedStaysLocked'
  BY <1>2 DEF ClaimInv, ClaimedStaysLocked, InProgressOrReview, Ready, LocksOf, store
<1>4. \A e \in Editor : \/ edit'[e] = edit[e]
                        \/ edit'[e].pc \in {"claim", "failed", "read"}
  <2>1. ASSUME NEW e \in Editor, NEW b \in Batch, NEW S \in SUBSET Ulb, Open(e, b, S)
        PROVE  edit'[e].pc = "claim" /\ \A d \in Editor \ {e} : edit'[d] = edit[d]
    BY <1>1, <2>1 DEF Open, IdleEdit
  <2>2. ASSUME NEW e \in Editor, Claim(e) \/ ReleaseEditLock(e)
        PROVE  edit'[e].pc \in {"failed", "read"} /\ \A d \in Editor \ {e} : edit'[d] = edit[d]
    BY <1>1, <2>2 DEF Claim, ReleaseEditLock, EditGoto, EditEnd, IdleEdit, EditState
  <2>3. ASSUME NEW b \in Batch, LeaseExpires(b)  PROVE edit' = edit
    BY <2>3 DEF LeaseExpires
  <2>4. QED  BY <2>1, <2>2, <2>3
<1>5. AddedIsUnclaimed'
  BY <1>2, <1>4, WorkingIs
  DEF ClaimInv, AddedIsUnclaimed, InProgressOrReview, Ready, Added, store
<1>6. VerifiedIsLocked'
  BY <1>2, <1>4 DEF ClaimInv, VerifiedIsLocked, EditAt, LocksOf, store
<1>7. WorkerHoldsLease'
  <2>1. ASSUME NEW e \in Editor, NEW b \in Batch, NEW S \in SUBSET Ulb, Open(e, b, S)
        PROVE  WorkerHoldsLease'
    <3>1. edit'[e].pc = "claim" /\ \A d \in Editor \ {e} : edit'[d] = edit[d]
      BY <1>1, <2>1 DEF Open, IdleEdit
    <3>2. draft' = draft  BY <2>1 DEF Open, dstore
    <3>3. QED  BY <3>1, <3>2, WorkingIs DEF ClaimInv, WorkerHoldsLease
  <2>2. ASSUME NEW e \in Editor, Claim(e)  PROVE WorkerHoldsLease'
    <3>1. \A d \in Editor \ {e} : edit'[d] = edit[d]
      BY <1>1, <2>2 DEF Claim, EditGoto, EditEnd
    <3>2. edit[e].on \in Batch  BY <2>2 DEF Claim, EditAt, EditShape
    <3>3. CASE Editable(edit[e].on, edit[e].revision)
      <4>1. draft' = [draft EXCEPT ![edit[e].on].token = e, ![edit[e].on].expired = FALSE]
              /\ edit' = [edit EXCEPT ![e].pc = "read"]
        BY <2>2, <3>3 DEF Claim, EditGoto
      <4>2. /\ draft'[edit[e].on].token = e /\ draft'[edit[e].on].expired = FALSE
            /\ \A c \in Batch \ {edit[e].on} : draft'[c] = draft[c]
            /\ edit'[e].on = edit[e].on
        BY <1>1, <3>2, <4>1 DEF DraftDoc, EditState
      <4>3. ASSUME NEW d \in Editor \ {e}, edit[d].pc \in Working  PROVE edit[d].on # edit[e].on
        BY <3>3, <4>3, DraftAssumption
        DEF Editable, LeaseFree, ClaimInv, WorkerHoldsLease
      <4>4. QED  BY <3>1, <4>2, <4>3 DEF ClaimInv, WorkerHoldsLease, EditShape
    <3>4. CASE ~Editable(edit[e].on, edit[e].revision)
      <4>1. draft' = draft /\ edit' = [edit EXCEPT ![e] = [IdleEdit EXCEPT !.pc = "failed"]]
        BY <2>2, <3>4 DEF Claim, EditEnd
      <4>2. edit'[e].pc = "failed"  BY <1>1, <4>1 DEF IdleEdit
      <4>3. QED  BY <3>1, <4>1, <4>2, WorkingIs DEF ClaimInv, WorkerHoldsLease
    <3>5. QED  BY <3>3, <3>4
  <2>3. ASSUME NEW e \in Editor, ReleaseEditLock(e)  PROVE WorkerHoldsLease'
    <3>1. edit[e].on \in Batch /\ edit[e].pc \in Working
      BY <2>3, WorkingIs DEF ReleaseEditLock, EditAt, EditShape
    <3>2. edit' = [edit EXCEPT ![e] = [IdleEdit EXCEPT !.pc = "failed"]]
      BY <2>3 DEF ReleaseEditLock, EditEnd
    <3>3. edit'[e].pc = "failed" /\ \A d \in Editor \ {e} : edit'[d] = edit[d]
      BY <1>1, <3>2 DEF IdleEdit
    <3>4. \A c \in Batch \ {edit[e].on} : draft'[c] = draft[c]
      BY <1>1, <2>3, <3>1 DEF ReleaseEditLock
    <3>5. \A d \in Editor \ {e} : edit[d].pc \in Working => edit[d].on \in Batch \ {edit[e].on}
      BY <3>1, OneWorker DEF ClaimInv, EditShape
    <3>6. QED  BY <3>3, <3>4, <3>5, WorkingIs DEF ClaimInv, WorkerHoldsLease
  <2>4. ASSUME NEW b \in Batch, LeaseExpires(b)  PROVE WorkerHoldsLease'
    <3>1. edit' = edit /\ edit[draft[b].token].pc = "failed"  BY <2>4 DEF LeaseExpires
    <3>2. \A c \in Batch : draft'[c].token = draft[c].token
      BY <1>1, <2>4 DEF LeaseExpires, DraftDoc
    <3>3. \A c \in Batch \ {b} : draft'[c] = draft[c]  BY <1>1, <2>4 DEF LeaseExpires
    <3>4. \A e \in Editor : edit[e].pc \in Working => edit[e].on \in Batch \ {b}
      BY <3>1, WorkingIs DEF ClaimInv, WorkerHoldsLease, EditShape
    <3>5. QED  BY <3>1, <3>3, <3>4 DEF ClaimInv, WorkerHoldsLease
  <2>5. QED  BY <2>1, <2>2, <2>3, <2>4
<1>8. QED  BY <1>3, <1>5, <1>6, <1>7 DEF ClaimInv

\* An abandon needs a free lease, so no edit is working on the draft it frees.
LEMMA EditAbandonKeeps ==
  ASSUME EditTypeOK, EditShape, ClaimInv, NEW b \in Batch, AbandonUnedited(b)
  PROVE  ClaimInv'
<1>1. batch \in [Batch -> BatchDoc]  BY DEF EditTypeOK, DraftTypeOK, StoreTypeOK
<1>2. /\ LeaseFree(b) /\ draft' = draft /\ edit' = edit
      /\ batch' = [batch EXCEPT ![b].abandoned = TRUE]
      /\ lock' = [u \in Ulb |-> IF lock[u] = b THEN NoBatch ELSE lock[u]]
  BY DEF AbandonUnedited, AbandonUnleased, AbandonDraft
<1>3. \A e \in Editor : edit[e].pc \in Working => edit[e].on \in Batch \ {b}
  BY <1>2, DraftAssumption DEF LeaseFree, ClaimInv, WorkerHoldsLease, EditShape
<1>4. /\ batch'[b].abandoned = TRUE
      /\ \A c \in Batch \ {b} : batch'[c] = batch[c] /\ LocksOf(c)' = LocksOf(c)
  BY <1>1, <1>2, StoreAssumption DEF BatchDoc, LocksOf
<1>5. WorkerHoldsLease'  BY <1>2 DEF ClaimInv, WorkerHoldsLease
<1>6. ClaimedStaysLocked'
  BY <1>4 DEF ClaimInv, ClaimedStaysLocked, InProgressOrReview, Ready
<1>7. AddedIsUnclaimed'
  BY <1>2, <1>3, <1>4 DEF ClaimInv, AddedIsUnclaimed, InProgressOrReview, Ready, Added
<1>8. VerifiedIsLocked'
  BY <1>2, <1>3, <1>4, WorkingIs DEF ClaimInv, VerifiedIsLocked, EditAt
<1>9. QED  BY <1>5, <1>6, <1>7, <1>8 DEF ClaimInv

LEMMA ClaimStep ==
  ASSUME "slow" \notin Faults
  PROVE  (\A e \in Editor : ~CommitMisreported(e)) /\ EditTypeOK /\ EditShape /\ ClaimInv /\ [EditNext]_evars
         => ClaimInv'
<1> SUFFICES ASSUME \A e \in Editor : ~CommitMisreported(e),
                    EditTypeOK, EditShape, ClaimInv, [EditNext]_evars
             PROVE  ClaimInv'
  OBVIOUS
<1>1. ASSUME NEW e \in Editor, EditStep(e)  PROVE ClaimInv'
  <2>1. CASE LockFreeStep(e)  BY <2>1, LockFreeKeeps
  <2>2. CASE AddLocks(e) \/ LocksMisreported(e)  BY <2>2, AddLocksKeeps
  <2>3. CASE ReleaseAddedLocks(e) \/ \E C \in SUBSET Ulb : UnlockMisreported(e, C)
    BY <2>3, ReleaseAddedKeeps
  <2>4. CASE Commit(e)  BY <2>4, CommitKeeps
  <2>5. CASE \/ \E b \in Batch, S \in SUBSET Ulb : Open(e, b, S)
             \/ Claim(e) \/ ReleaseEditLock(e)
    BY <2>5, LeaseStepsKeep
  <2>6. QED
    BY <1>1, <2>1, <2>2, <2>3, <2>4, <2>5, LockFreeSteps
    DEF EditStep, EditWork, WriteMisreported
<1>2. ASSUME NEW b \in Batch, AbandonUnedited(b)  PROVE ClaimInv'  BY <1>2, EditAbandonKeeps
<1>3. ASSUME NEW b \in Batch, LeaseExpires(b)  PROVE ClaimInv'  BY <1>3, LeaseStepsKeep
<1>4. CASE UNCHANGED evars
  BY <1>4 DEF evars, dstore, store, ClaimInv, WorkerHoldsLease, ClaimedStaysLocked, AddedIsUnclaimed,
              VerifiedIsLocked, InProgressOrReview, Ready, LocksOf, Added, EditAt
<1>5. QED  BY <1>1, <1>2, <1>3, <1>4 DEF EditNext

\* No commit of an edit that took effect is reported as failed unless a run includes it.
LEMMA CommitsReported == "commit" \notin Misreported => \A e \in Editor : ~CommitMisreported(e)
BY DEF CommitMisreported, CommitEdit, EditAt

\* The batches an edit run starts from hold the locks of all they claim.
LEMMA ClaimInvInit == EditInit => ClaimInv
<1> SUFFICES ASSUME EditInit PROVE ClaimInv  OBVIOUS
<1>0. PICK gone \in SUBSET Batch : gone = {} /\ PublishedInit(gone)
  <2>1. PublishedInit({})  BY DEF EditInit
  <2>2. QED  BY <2>1, Zenon
<1>1. PICK claim \in [Batch -> (SUBSET Ulb) \ {{}}], number \in [Batch -> 1 .. MaxBatchNumber] :
        /\ \A b, c \in Batch : b # c => number[b] # number[c]
        /\ \A b, c \in Batch \ gone : b # c => claim[b] \cap claim[c] = {}
        /\ batch = [b \in Batch |->
             [NoDoc EXCEPT !.assembly = "READY", !.number = number[b], !.createdAt = number[b],
                           !.abandoned = b \in gone, !.content = claim[b]]]
        /\ child = claim
        /\ lock = [u \in Ulb |-> IF \E b \in Batch \ gone : u \in claim[b]
                                 THEN CHOOSE b \in Batch \ gone : u \in claim[b] ELSE NoBatch]
  <2>1. PublishedInit(gone)  BY <1>0
  <2>2. QED  BY <2>1, Zenon DEF PublishedInit
<1>2. \A b \in Batch : batch[b].content = claim[b]  BY <1>1 DEF NoDoc
<1>3. ASSUME NEW b \in Batch, NEW u \in claim[b]  PROVE u \in Ulb /\ lock[u] = b
  <2>1. u \in Ulb  OBVIOUS
  <2>2. \A c \in Batch : u \in claim[c] => c = b  BY <1>0, <1>1
  <2>3. (CHOOSE c \in Batch \ gone : u \in claim[c]) = b  BY <1>0, <2>2
  <2>4. QED  BY <1>0, <1>1, <2>1, <2>3
<1>4. ClaimedStaysLocked  BY <1>2, <1>3 DEF ClaimedStaysLocked, LocksOf
<1>5. \A e \in Editor : edit[e].pc = "idle"  BY DEF EditInit, EditProcInit, IdleEdit
<1>6. QED
  BY <1>4, <1>5, WorkingIs DEF ClaimInv, WorkerHoldsLease, AddedIsUnclaimed, VerifiedIsLocked, EditAt

\* A ULB that a live batch claims keeps its lock, whichever steps of an edit fail, wherever the server
\* dies, and whichever writes take effect, in full or in part, and are reported as failed, with two
\* exceptions: no edit outlives its lease, and no commit of an edit that took effect is reported as
\* failed (its compensation would free the locks of what it added).
THEOREM ClaimsStayLocked ==
  "slow" \notin Faults /\ "commit" \notin Misreported /\ EditSpec => []ClaimedStaysLocked
<1>1. EditInit => EditTypeOK /\ EditShape /\ ClaimInv
  <2>1. EditInit => EditShape
    BY WorkingIs DEF EditInit, EditProcInit, EditShape, IdleEdit
  <2>2. QED  BY <2>1, EditInitTyped, ClaimInvInit
<1>2. ClaimInv => ClaimedStaysLocked  BY DEF ClaimInv
<1> SUFFICES ASSUME "slow" \notin Faults, "commit" \notin Misreported
             PROVE  EditSpec => []ClaimedStaysLocked
  OBVIOUS
<1>3. EditTypeOK /\ EditShape /\ ClaimInv /\ [EditNext]_evars => EditTypeOK' /\ EditShape' /\ ClaimInv'
  BY EditStepTyped, ClaimStep, CommitsReported
<1>4. QED  BY <1>1, <1>2, <1>3, PTL DEF EditSpec

-----------------------------------------------------------------------------
(* Types of submits                                                        *)

\* The initial records are well-typed.
LEMMA FirstRecords ==
  /\ NoDoc \in BatchDoc
  /\ NewDraft \in DraftDoc
  /\ IdleSub \in SubState
  /\ IdleSave \in SaveState
BY StoreAssumption, DraftAssumption
DEF NoDoc, BatchDoc, AssemblyStatus, FormStatus, NewDraft, DraftDoc, IdleSub, SubState,
    IdleSave, SaveState

\* What a batch is when the submit finds it published: READY, never submitted, its history told,
\* created at a moment of its own.
Fresh ==
  /\ \A b \in Batch :
       /\ Ready(b) /\ ~Submitted(b)
       /\ history[b] = IF batch[b].abandoned THEN <<"CREATED", "ABANDONED">> ELSE <<"CREATED">>
  /\ \A b, c \in Batch : b # c => batch[b].createdAt # batch[c].createdAt

\* The published batches are well-typed and fresh.
LEMMA PublishedIsFresh ==
  ASSUME NEW gone \in SUBSET Batch, PublishedInit(gone)
  PROVE  DraftTypeOK /\ Fresh /\ draft = [b \in Batch |-> NewDraft]
<1>1. PICK claim \in [Batch -> (SUBSET Ulb) \ {{}}], number \in [Batch -> 1 .. MaxBatchNumber] :
        /\ \A b, c \in Batch : b # c => number[b] # number[c]
        /\ \A b, c \in Batch \ gone : b # c => claim[b] \cap claim[c] = {}
        /\ batch = [b \in Batch |->
             [NoDoc EXCEPT !.assembly = "READY", !.number = number[b], !.createdAt = number[b],
                           !.abandoned = b \in gone, !.content = claim[b]]]
        /\ child = claim
        /\ lock = [u \in Ulb |-> IF \E b \in Batch \ gone : u \in claim[b]
                                 THEN CHOOSE b \in Batch \ gone : u \in claim[b] ELSE NoBatch]
  BY DEF PublishedInit
<1>2. ASSUME NEW b \in Batch
      PROVE  /\ batch[b] \in BatchDoc
             /\ batch[b].assembly = "READY" /\ batch[b].status = "IN_PROGRESS"
             /\ batch[b].abandoned = (b \in gone) /\ batch[b].createdAt = number[b]
  <2>1. number[b] \in 0 .. MaxBatchNumber /\ number[b] \in Nat /\ claim[b] \in SUBSET Ulb
    BY StoreAssumption
  <2>2. (b \in gone) \in BOOLEAN  OBVIOUS
  <2>3. QED  BY <1>1, <2>1, <2>2, FirstRecords DEF BatchDoc, AssemblyStatus, NoDoc
<1>3. batch \in [Batch -> BatchDoc]  BY <1>1, <1>2
<1>4. lock \in [Ulb -> Batch \cup {NoBatch}]
  <2>1. ASSUME NEW u \in Ulb, \E b \in Batch \ gone : u \in claim[b]
        PROVE  (CHOOSE b \in Batch \ gone : u \in claim[b]) \in Batch
    BY <2>1
  <2>2. QED  BY <1>1, <2>1
<1>5. child \in [Batch -> SUBSET Ulb]  BY <1>1
<1>6. history = [b \in Batch |-> IF b \in gone THEN <<"CREATED", "ABANDONED">> ELSE <<"CREATED">>]
  BY DEF PublishedInit
<1>7. history \in [Batch -> Seq(Transition)]
  <2>1. <<"CREATED">> \in Seq(Transition) /\ <<"CREATED", "ABANDONED">> \in Seq(Transition)
    BY DEF Transition
  <2>2. QED  BY <1>6, <2>1
<1>8. draft = [b \in Batch |-> NewDraft] /\ clock = MaxBatchNumber + 1
  BY DEF PublishedInit
<1>9. DraftTypeOK
  BY <1>3, <1>4, <1>5, <1>7, <1>8, FirstRecords, StoreAssumption DEF DraftTypeOK, StoreTypeOK
<1>10. Fresh
  <2>1. ASSUME NEW b \in Batch
        PROVE  /\ Ready(b) /\ ~Submitted(b)
               /\ history[b] = IF batch[b].abandoned THEN <<"CREATED", "ABANDONED">> ELSE <<"CREATED">>
    <3>1. Ready(b) /\ ~Submitted(b)  BY <1>2 DEF Ready, Submitted
    <3>2. CASE b \in gone
      <4>1. batch[b].abandoned  BY <1>2, <3>2
      <4>2. QED  BY <1>6, <3>1, <3>2, <4>1
    <3>3. CASE b \notin gone
      <4>1. ~batch[b].abandoned  BY <1>2, <3>3
      <4>2. QED  BY <1>6, <3>1, <3>3, <4>1
    <3>4. QED  BY <3>2, <3>3
  <2>2. ASSUME NEW b \in Batch, NEW c \in Batch, b # c
        PROVE  batch[b].createdAt # batch[c].createdAt
    <3>1. number[b] # number[c]  BY <1>1, <2>2
    <3>2. QED  BY <1>2, <3>1
  <2>3. QED  BY <2>1, <2>2 DEF Fresh
<1>11. QED  BY SMTT(30), <1>8, <1>9, <1>10

\* The initial state is well-typed.
LEMMA SubmitInitTyped == SubmitInit => SubmitTypeOK /\ Fresh
<1> SUFFICES ASSUME SubmitInit PROVE SubmitTypeOK /\ Fresh  OBVIOUS
<1>1. DraftTypeOK /\ Fresh  BY PublishedIsFresh DEF SubmitInit
<1>2. SubmitProcInit  BY DEF SubmitInit
<1>3. QED  BY <1>1, <1>2, FirstRecords DEF SubmitProcInit, SubmitTypeOK

\* The program counters at which a submit has a batch.
InFlight == {"active", "eligible", "final", "commit"}

\* A submit under way names its batch and the letter it has read.
SubmitShape ==
  \A s \in Submitter : sub[s].pc \in InFlight => sub[s].on \in Batch /\ sub[s].signed # NoPath

\* A write of the submit request alone keeps types and shape.
LEMMA SubGotoTyped ==
  ASSUME SubmitTypeOK, SubmitShape, NEW s \in Submitter, sub[s].pc \in InFlight,
         NEW pc \in InFlight, SubGoto(s, pc)
  PROVE  sub' \in [Submitter -> SubState] /\ SubmitShape'
<1>1. sub' \in [Submitter -> SubState]
  BY DEF SubmitTypeOK, SubGoto, SubState, InFlight
<1>2. QED  BY <1>1 DEF SubmitTypeOK, SubGoto, SubState, SubmitShape

LEMMA SubEndTyped ==
  ASSUME SubmitTypeOK, SubmitShape, NEW s \in Submitter, NEW pc \in {"done", "failed"}, SubEnd(s, pc)
  PROVE  sub' \in [Submitter -> SubState] /\ SubmitShape'
<1>1. [IdleSub EXCEPT !.pc = pc] \in SubState /\ [IdleSub EXCEPT !.pc = pc].pc = pc
  BY FirstRecords DEF IdleSub, SubState
<1>2. QED  BY <1>1 DEF SubmitTypeOK, SubEnd, SubmitShape, InFlight

\* A commit keeps types and shape.
LEMMA CommitTyped ==
  ASSUME SubmitTypeOK, SubmitShape, NEW s \in Submitter, CommitSubmit(s)
  PROVE  SubmitTypeOK' /\ SubmitShape'
<1> DEFINE b == sub[s].on
<1>1. b \in Batch  BY DEF CommitSubmit, SubmitShape, InFlight
<1>2. sub' \in [Submitter -> SubState] /\ SubmitShape'
  BY SubEndTyped DEF CommitSubmit
<1>3. CASE Submittable(s, b)
  <2>1. batch' \in [Batch -> BatchDoc]
    <3>1. batch \in [Batch -> BatchDoc]  BY DEF SubmitTypeOK, DraftTypeOK, StoreTypeOK
    <3>2. [batch[b] EXCEPT !.status = "UNDER_REVIEW_BY_MOHUA"] \in BatchDoc
      BY <1>1, <3>1 DEF BatchDoc, FormStatus
    <3>3. batch' = [batch EXCEPT ![b] = [batch[b] EXCEPT !.status = "UNDER_REVIEW_BY_MOHUA"]]
      BY <1>1, <1>3, <3>1 DEF CommitSubmit
    <3>4. QED  BY <3>1, <3>2, <3>3
  <2>2. history' \in [Batch -> Seq(Transition)]
    <3>1. Append(history[b], "SUBMITTED") \in Seq(Transition)
      BY <1>1 DEF SubmitTypeOK, DraftTypeOK, StoreTypeOK, Transition
    <3>2. QED  BY <1>1, <1>3, <3>1 DEF CommitSubmit, Record, SubmitTypeOK, DraftTypeOK, StoreTypeOK
  <2>3. QED  BY <1>2, <2>1, <2>2 DEF CommitSubmit, SubmitTypeOK, DraftTypeOK, StoreTypeOK
<1>4. CASE ~Submittable(s, b)
  BY <1>2, <1>4 DEF CommitSubmit, SubmitTypeOK, DraftTypeOK, StoreTypeOK
<1>5. QED  BY <1>3, <1>4

\* An abandon keeps types and shape.
LEMMA SubmitAbandonTyped ==
  ASSUME SubmitTypeOK, SubmitShape, NEW b \in Batch, AbandonUnsubmitted(b)
  PROVE  SubmitTypeOK' /\ SubmitShape'
<1>1. AbandonDraft(b) /\ UNCHANGED <<draft, subvars>>  BY DEF AbandonUnsubmitted, AbandonUnleased
<1>2. history' \in [Batch -> Seq(Transition)]
  <2>1. Append(history[b], "ABANDONED") \in Seq(Transition)
    BY DEF SubmitTypeOK, DraftTypeOK, StoreTypeOK, Transition
  <2>2. QED  BY <1>1, <2>1 DEF AbandonDraft, Record, SubmitTypeOK, DraftTypeOK, StoreTypeOK
<1>3. StoreTypeOK'
  <2>1. batch \in [Batch -> BatchDoc]  BY DEF SubmitTypeOK, DraftTypeOK, StoreTypeOK
  <2>2. [batch[b] EXCEPT !.abandoned = TRUE] \in BatchDoc  BY <2>1 DEF BatchDoc
  <2>3. batch' = [batch EXCEPT ![b] = [batch[b] EXCEPT !.abandoned = TRUE]]
    BY <1>1, <2>1 DEF AbandonDraft
  <2>4. batch' \in [Batch -> BatchDoc]  BY <2>1, <2>2, <2>3
  <2>5. QED  BY <1>1, <1>2, <2>4 DEF AbandonDraft, SubmitTypeOK, DraftTypeOK, StoreTypeOK
<1>4. QED  BY <1>1, <1>3 DEF SubmitTypeOK, DraftTypeOK, subvars, SubmitShape

\* A merge stored in a draft leaves it well-typed.
LEMMA MergeStored ==
  ASSUME draft \in [Batch -> DraftDoc], NEW b \in Batch, NEW p \in Path
  PROVE  [draft[b] EXCEPT !.pdf = p] \in DraftDoc
<1>1. draft[b] \in DraftDoc  OBVIOUS
<1>2. QED  BY <1>1 DEF DraftDoc

\* So does every step.
LEMMA SubmitStepTyped ==
  SubmitTypeOK /\ SubmitShape /\ [SubmitNext]_svars => SubmitTypeOK' /\ SubmitShape'
<1> SUFFICES ASSUME SubmitTypeOK, SubmitShape, [SubmitNext]_svars
             PROVE  SubmitTypeOK' /\ SubmitShape'
  OBVIOUS
<1> USE DEF SubmitTypeOK, DraftTypeOK
<1>a. /\ StoreTypeOK /\ draft \in [Batch -> DraftDoc]
      /\ sub \in [Submitter -> SubState] /\ save \in [Saver -> SaveState]
  OBVIOUS
<1>1. ASSUME NEW s \in Submitter, NEW b \in Batch, BeginSubmit(s, b)
      PROVE  SubmitTypeOK' /\ SubmitShape'
  <2> DEFINE q == [IdleSub EXCEPT !.pc = "active", !.on = b, !.signed = draft[b].signed,
                                  !.details = draft[b].details]
  <2>1. q \in SubState /\ q.on = b /\ q.signed # NoPath
    BY <1>1, FirstRecords DEF BeginSubmit, IdleSub, SubState, DraftDoc
  <2>2. sub' = [sub EXCEPT ![s] = q]  BY <1>1 DEF BeginSubmit
  <2>3. sub' \in [Submitter -> SubState] /\ SubmitShape'  BY <2>1, <2>2 DEF SubmitShape
  <2>4. QED  BY <1>1, <2>3 DEF BeginSubmit, dstore, store, StoreTypeOK
<1>2. ASSUME NEW s \in Submitter, CheckActive(s)  PROVE SubmitTypeOK' /\ SubmitShape'
  BY <1>2, SubGotoTyped DEF CheckActive, InFlight, dstore, store, StoreTypeOK
<1>3. ASSUME NEW s \in Submitter, CheckEligible(s)  PROVE SubmitTypeOK' /\ SubmitShape'
  BY <1>3, SubGotoTyped DEF CheckEligible, InFlight, dstore, store, StoreTypeOK
<1>4. ASSUME NEW s \in Submitter, CheckFinal(s)  PROVE SubmitTypeOK' /\ SubmitShape'
  BY <1>4, SubGotoTyped DEF CheckFinal, InFlight, dstore, store, StoreTypeOK
<1>5. ASSUME NEW s \in Submitter, CommitSubmit(s)  PROVE SubmitTypeOK' /\ SubmitShape'
  BY <1>5, CommitTyped
<1>6. ASSUME NEW w \in Saver, WriteDetails(w)  PROVE SubmitTypeOK' /\ SubmitShape'
  <2>1. save[w].on \in Batch  BY <1>6 DEF WriteDetails, SaveState
  <2>2. draft' \in [Batch -> DraftDoc]
    <3> DEFINE b == save[w].on
    <3>1. draft[b] \in DraftDoc /\ draft[b].details + 1 \in Nat  BY <2>1 DEF DraftDoc
    <3>2. [draft[b] EXCEPT !.details = @ + 1, !.signed = NoPath] \in DraftDoc
      <4> HIDE DEF b
      <4>1. [draft[b] EXCEPT !.details = @ + 1] \in DraftDoc  BY <3>1 DEF DraftDoc
      <4>2. QED  BY <3>1, <4>1 DEF DraftDoc
    <3>3. \/ draft' = draft
          \/ draft' = [draft EXCEPT ![b] = [draft[b] EXCEPT !.details = @ + 1, !.signed = NoPath]]
      BY <1>6, <2>1 DEF WriteDetails
    <3>4. QED  BY <2>1, <3>2, <3>3
  <2>3. save' \in [Saver -> SaveState]  BY <1>6, FirstRecords DEF WriteDetails
  <2>4. QED  BY <1>6, <2>2, <2>3 DEF WriteDetails, store, StoreTypeOK, SubmitShape
<1>7. ASSUME NEW w \in Saver, NEW b \in Batch, ReadDetails(w, b)
      PROVE  SubmitTypeOK' /\ SubmitShape'
  <2>1. save' \in [Saver -> SaveState]
    BY <1>7 DEF ReadDetails, SaveState, DraftDoc
  <2>2. QED  BY <1>7, <2>1 DEF ReadDetails, dstore, store, StoreTypeOK, SubmitShape
<1>8. ASSUME NEW m \in merges, StoreMerge(m)  PROVE SubmitTypeOK' /\ SubmitShape'
  <2>1. m.on \in Batch /\ m.key \in Path  OBVIOUS
  <2>2. draft' \in [Batch -> DraftDoc]
    <3>1. [draft[m.on] EXCEPT !.pdf = m.key] \in DraftDoc  BY <2>1, MergeStored
    <3>2. draft' = draft \/ draft' = [draft EXCEPT ![m.on] = [draft[m.on] EXCEPT !.pdf = m.key]]
      BY <1>8, <2>1 DEF StoreMerge
    <3>3. QED  BY <2>1, <3>1, <3>2
  <2>3. QED  BY <1>8, <2>2 DEF StoreMerge, store, StoreTypeOK, SubmitShape
<1>9. ASSUME NEW b \in Batch, StartMerge(b)  PROVE SubmitTypeOK' /\ SubmitShape'
  <2>1. [on |-> b, key |-> draft[b].signed] \in [on : Batch, key : Path]
    BY <1>9 DEF StartMerge, DraftDoc
  <2>2. QED  BY <1>9, <2>1 DEF StartMerge, dstore, store, StoreTypeOK, SubmitShape
<1>10. ASSUME NEW b \in Batch, NEW p \in Path, Upload(b, p)  PROVE SubmitTypeOK' /\ SubmitShape'
  <2>1. draft' \in [Batch -> DraftDoc]  BY <1>10 DEF Upload, DraftDoc
  <2>2. [content |-> batch[b].content, details |-> draft[b].details]
          \in [content : SUBSET Ulb, details : Nat]
    BY DEF StoreTypeOK, BatchDoc, DraftDoc
  <2>3. QED  BY <1>10, <2>1, <2>2 DEF Upload, store, StoreTypeOK, SubmitShape
<1>11. ASSUME NEW b \in Batch, AbandonUnsubmitted(b)  PROVE SubmitTypeOK' /\ SubmitShape'
  BY <1>11, SubmitAbandonTyped
<1>12. CASE UNCHANGED svars
  BY <1>12 DEF svars, subvars, dstore, store, StoreTypeOK, SubmitShape
<1>13. QED
  BY <1>1, <1>2, <1>3, <1>4, <1>5, <1>6, <1>7, <1>8, <1>9, <1>10, <1>11, <1>12
  DEF SubmitNext, SubmitStep

\* Type correctness: every reachable state of published batches, whatever is submitted, saved,
\* uploaded, merged and abandoned, is well-typed.
THEOREM SubmitTypeCorrect == SubmitSpec => []SubmitTypeOK
<1>1. SubmitInit => SubmitTypeOK /\ SubmitShape
  <2>1. SubmitInit => SubmitShape
    BY DEF SubmitInit, SubmitProcInit, IdleSub, SubmitShape, InFlight
  <2>2. QED  BY <2>1, SubmitInitTyped
<1>2. QED  BY <1>1, SubmitStepTyped, PTL DEF SubmitSpec

-----------------------------------------------------------------------------
(* The earliest batch                                                      *)

Less == OpToRel(<, Nat)

LEMMA LessIs == \A x, y \in Nat : <<x, y>> \in Less <=> x < y
BY DEF Less, OpToRel

LEMMA LessIsWellFounded == IsWellFoundedOn(Less, Nat)
BY NatLessThanWellFounded DEF Less

\* Every non-empty set of numbers has a least one.
LEMMA LeastNumber ==
  ASSUME NEW T \in SUBSET Nat, T # {}
  PROVE  \E x \in T : \A y \in T : x <= y
<1>1. PICK x \in T : \A y \in T : <<y, x>> \notin Less
  BY WFMin, LessIsWellFounded
<1>2. \A y \in T : ~ (y < x)
  BY <1>1, LessIs
<1>3. QED  BY <1>2

\* If any batch can be active, one is.
LEMMA SomeBatchIsActive ==
  ASSUME StoreTypeOK, NEW b \in Batch, InProgressOrReview(b)
  PROVE  \E c \in Batch : IsActiveBatch(c)
<1> DEFINE Live == {c \in Batch : InProgressOrReview(c)}
           T == {batch[c].createdAt : c \in Live}
<1>1. T \in SUBSET Nat /\ batch[b].createdAt \in T
  BY DEF StoreTypeOK, BatchDoc
<1>2. PICK x \in T : \A y \in T : x <= y
  BY <1>1, LeastNumber
<1>3. PICK c \in Live : x = batch[c].createdAt
  OBVIOUS
<1>4. QED  BY <1>2, <1>3 DEF IsActiveBatch

-----------------------------------------------------------------------------
(* The invariant of submits                                                *)

\* Batches are published and created one after the other.
Published ==
  /\ \A b \in Batch : Ready(b)
  /\ \A b, c \in Batch : b # c => batch[b].createdAt # batch[c].createdAt

\* What passed assertActive is the active batch for as long as it is not abandoned: nothing earlier
\* comes, and what is later stays later.
PassedIsActive ==
  \A s \in Submitter :
    /\ sub[s].pc \in {"eligible", "final", "commit"}
    /\ ~batch[sub[s].on].abandoned
    => IsActiveBatch(sub[s].on)

SubmittedIsActive == \A b \in Batch : Submitted(b) => IsActiveBatch(b)

SubmitInv ==
  /\ SubmitTypeOK /\ SubmitShape
  /\ Published /\ PassedIsActive /\ SubmittedIsActive
  /\ SubmittedArtifacts /\ SignedLetterIsCurrent /\ SubmitAuditTrail

\* It holds at the start.
LEMMA SubmitInitInv == SubmitInit => SubmitInv
<1> SUFFICES ASSUME SubmitInit PROVE SubmitInv  OBVIOUS
<1>1. SubmitTypeOK /\ Fresh  BY SubmitInitTyped
<1>2. /\ draft = [b \in Batch |-> NewDraft]
      /\ sub = [s \in Submitter |-> IdleSub]
  BY PublishedIsFresh DEF SubmitInit, SubmitProcInit
<1>3. SubmitShape /\ PassedIsActive  BY <1>2 DEF SubmitShape, PassedIsActive, IdleSub, InFlight
<1>4. SignedLetterIsCurrent  BY <1>2 DEF SignedLetterIsCurrent, NewDraft
<1>5. Published /\ SubmittedIsActive /\ SubmittedArtifacts
  BY <1>1 DEF Fresh, Published, SubmittedIsActive, SubmittedArtifacts
<1>6. SubmitAuditTrail
  <2>1. ASSUME NEW b \in Batch
        PROVE  history[b] = IF ~Ready(b) THEN <<>>
                            ELSE IF Submitted(b) THEN <<"CREATED", "SUBMITTED">>
                            ELSE IF batch[b].abandoned THEN <<"CREATED", "ABANDONED">>
                            ELSE <<"CREATED">>
    BY <1>1 DEF Fresh
  <2>2. QED  BY <2>1 DEF SubmitAuditTrail
<1>7. QED  BY <1>1, <1>3, <1>4, <1>5, <1>6 DEF SubmitInv

\* Where batches keep their age and are at most abandoned, an active one that is not abandoned stays
\* active.
LEMMA ActiveStays ==
  ASSUME NEW b \in Batch, IsActiveBatch(b), InProgressOrReview(b)',
         \A c \in Batch : /\ batch'[c].createdAt = batch[c].createdAt
                          /\ InProgressOrReview(c)' => InProgressOrReview(c)
  PROVE  IsActiveBatch(b)'
BY DEF IsActiveBatch

\* A write of drafts alone, which touches no submitted batch and keeps letter and what it was signed
\* for together.
LEMMA DraftWriteKeeps ==
  ASSUME SubmitInv, UNCHANGED <<store, sub>>, SubmitTypeOK', SubmitShape',
         \A b \in Batch : Submitted(b) => draft'[b] = draft[b],
         SignedLetterIsCurrent'
  PROVE  SubmitInv'
<1>1. Published' /\ PassedIsActive' /\ SubmittedIsActive' /\ SubmitAuditTrail'
  BY DEF SubmitInv, store, Published, PassedIsActive, SubmittedIsActive, SubmitAuditTrail,
         Ready, Submitted, IsActiveBatch, InProgressOrReview
<1>2. SubmittedArtifacts'
  BY DEF SubmitInv, store, SubmittedArtifacts, Submitted
<1>3. QED  BY <1>1, <1>2 DEF SubmitInv

\* A step of a submit before its commit, or a commit that is refused: only the request changes.
LEMMA RequestKeeps ==
  ASSUME SubmitInv, UNCHANGED <<dstore, signedFor>>, SubmitTypeOK', SubmitShape', PassedIsActive'
  PROVE  SubmitInv'
BY DEF SubmitInv, dstore, store, Published, SubmittedIsActive, SubmittedArtifacts,
       SignedLetterIsCurrent, SubmitAuditTrail, Ready, Submitted, IsActiveBatch, InProgressOrReview

\* A second audit row follows the first.
LEMMA SecondRow == \A t \in Transition : Append(<<"CREATED">>, t) = <<"CREATED", t>>
<1> SUFFICES ASSUME NEW t \in Transition PROVE Append(<<"CREATED">>, t) = <<"CREATED", t>>
  OBVIOUS
<1> DEFINE a == Append(<<"CREATED">>, t)
           c == <<"CREATED", t>>
<1>1. <<"CREATED">> \in Seq(Transition) /\ Len(<<"CREATED">>) = 1  BY DEF Transition
<1>2. a \in Seq(Transition) /\ Len(a) = 2 /\ a[1] = "CREATED" /\ a[2] = t
  BY <1>1, AppendProperties
<1>3. c \in Seq(Transition) /\ Len(c) = 2 /\ c[1] = "CREATED" /\ c[2] = t
  BY DEF Transition
<1> HIDE DEF a, c
<1>4. \A i \in 1 .. Len(a) : a[i] = c[i]
  <2>1. \A i \in 1 .. Len(a) : i = 1 \/ i = 2  BY <1>2
  <2>2. QED  BY <1>2, <1>3, <2>1
<1>5. a = c  BY <1>2, <1>3, <1>4, SeqEqual
<1>6. QED  BY <1>5 DEF a, c

\* A commit moves the active batch to MoHUA, whole, with one audit row; a refused one moves nothing.
LEMMA CommitSubmitKeeps ==
  ASSUME SubmitInv, NEW s \in Submitter, CommitSubmit(s)
  PROVE  SubmitInv'
<1> DEFINE b == sub[s].on
<1>1. SubmitTypeOK' /\ SubmitShape'  BY CommitTyped DEF SubmitInv
<1>2. b \in Batch /\ sub[s].signed # NoPath  BY DEF SubmitInv, SubmitShape, CommitSubmit, InFlight
<1>3. \A r \in Submitter : sub'[r].pc \in {"eligible", "final", "commit"} => sub'[r] = sub[r]
  <2>1. PICK pc \in {"done", "failed"} : SubEnd(s, pc)  BY DEF CommitSubmit
  <2>2. [IdleSub EXCEPT !.pc = pc].pc = pc  BY DEF IdleSub
  <2>3. QED  BY <2>1, <2>2 DEF SubEnd, SubmitInv, SubmitTypeOK
<1>4. CASE Submittable(s, b)
  <2>1. batch[b].status = "IN_PROGRESS" /\ ~batch[b].abandoned
        /\ draft[b].signed = sub[s].signed /\ draft[b].pdf = sub[s].signed
    BY <1>4 DEF Submittable
  <2>2. IsActiveBatch(b)  BY <2>1 DEF SubmitInv, PassedIsActive, CommitSubmit
  <2>3. batch' = [batch EXCEPT ![b] = [batch[b] EXCEPT !.status = "UNDER_REVIEW_BY_MOHUA"]]
    BY <1>4 DEF CommitSubmit
  <2>4. history' = [history EXCEPT ![b] = Append(history[b], "SUBMITTED")]
    BY <1>4 DEF CommitSubmit, Record
  <2>5. batch \in [Batch -> BatchDoc] /\ history \in [Batch -> Seq(Transition)]
    BY DEF SubmitInv, SubmitTypeOK, DraftTypeOK, StoreTypeOK
  <2>6. batch'[b] = [batch[b] EXCEPT !.status = "UNDER_REVIEW_BY_MOHUA"]
    BY <1>2, <2>3, <2>5
  <2>7. \A c \in Batch : c # b => batch'[c] = batch[c] /\ history'[c] = history[c]
    BY <2>3, <2>4, <2>5
  <2>8. /\ batch'[b].assembly = batch[b].assembly /\ batch'[b].abandoned = batch[b].abandoned
        /\ batch'[b].createdAt = batch[b].createdAt /\ batch'[b].content = batch[b].content
        /\ batch'[b].status = "UNDER_REVIEW_BY_MOHUA"
    BY <1>2, <2>5, <2>6 DEF BatchDoc
  <2>9. \A c \in Batch :
          /\ batch'[c].createdAt = batch[c].createdAt /\ batch'[c].abandoned = batch[c].abandoned
          /\ batch'[c].assembly = batch[c].assembly /\ batch'[c].content = batch[c].content
    BY <2>7, <2>8
  <2>10. \A c \in Batch : IsActiveBatch(c) => IsActiveBatch(c)'
    BY <2>9 DEF IsActiveBatch, InProgressOrReview, Ready
  <2>11. Published'  BY <2>9 DEF SubmitInv, Published, Ready
  <2>12. PassedIsActive'
    <3> SUFFICES ASSUME NEW r \in Submitter, (sub[r].pc \in {"eligible", "final", "commit"})',
                        (~batch[sub[r].on].abandoned)'
                 PROVE  IsActiveBatch(sub[r].on)'
      BY DEF PassedIsActive
    <3>1. sub'[r] = sub[r]  BY <1>3
    <3>2. PICK c \in Batch : c = sub[r].on  BY <3>1 DEF SubmitInv, SubmitShape, InFlight
    <3>3. ~batch[c].abandoned  BY <2>9, <3>1, <3>2
    <3>4. IsActiveBatch(c)  BY <3>1, <3>2, <3>3 DEF SubmitInv, PassedIsActive
    <3>5. IsActiveBatch(c)'  BY <2>10, <3>4
    <3>6. QED  BY <3>1, <3>2, <3>5
  <2>13. SubmittedIsActive'
    BY <2>2, <2>7, <2>10 DEF SubmitInv, SubmittedIsActive, Submitted
  <2>14. SubmittedArtifacts'
    <3>1. draft' = draft  BY DEF CommitSubmit
    <3>2. ASSUME NEW c \in Batch, Submitted(c)'
          PROVE  ~batch'[c].abandoned /\ draft[c].signed # NoPath /\ draft[c].pdf = draft[c].signed
      BY <1>2, <2>1, <2>7, <2>8, <3>2 DEF SubmitInv, SubmittedArtifacts, Submitted
    <3>3. QED  BY <3>1, <3>2 DEF SubmittedArtifacts
  <2>15. SignedLetterIsCurrent'
    BY <2>9 DEF SubmitInv, SignedLetterIsCurrent, CommitSubmit
  <2>16. SubmitAuditTrail'
    <3>1. history[b] = <<"CREATED">>
      BY <1>2, <2>1 DEF SubmitInv, Published, SubmitAuditTrail, Submitted
    <3>2. history'[b] = <<"CREATED", "SUBMITTED">>
      <4>1. history'[b] = Append(history[b], "SUBMITTED")  BY <1>2, <2>4, <2>5
      <4>2. QED  BY <3>1, <4>1, SecondRow DEF Transition
    <3>3. ASSUME NEW c \in Batch
          PROVE  history'[c] = IF ~Ready(c)' THEN <<>>
                               ELSE IF Submitted(c)' THEN <<"CREATED", "SUBMITTED">>
                               ELSE IF batch'[c].abandoned THEN <<"CREATED", "ABANDONED">>
                               ELSE <<"CREATED">>
      <4>1. CASE c = b  BY <2>8, <2>11, <3>2, <4>1 DEF Published, Submitted
      <4>2. CASE c # b  BY <2>7, <4>2 DEF SubmitInv, SubmitAuditTrail, Ready, Submitted
      <4>3. QED  BY <4>1, <4>2
    <3>4. QED  BY <3>3 DEF SubmitAuditTrail
  <2>17. QED  BY <1>1, <2>11, <2>12, <2>13, <2>14, <2>15, <2>16 DEF SubmitInv
<1>5. CASE ~Submittable(s, b)
  <2>1. UNCHANGED <<dstore, signedFor>>  BY <1>5 DEF CommitSubmit, dstore, store
  <2>2. PassedIsActive'
    BY <1>3, <2>1 DEF SubmitInv, PassedIsActive, dstore, store, IsActiveBatch, InProgressOrReview, Ready
  <2>3. QED  BY <1>1, <2>1, <2>2, RequestKeeps
<1>6. QED  BY <1>4, <1>5

\* An abandon takes a batch away that is not under review; the active one, if it is another, stays.
LEMMA SubmitAbandonKeeps ==
  ASSUME SubmitInv, NEW b \in Batch, AbandonUnsubmitted(b)
  PROVE  SubmitInv'
<1>1. SubmitTypeOK' /\ SubmitShape'  BY SubmitAbandonTyped DEF SubmitInv
<1>2. AbandonDraft(b) /\ UNCHANGED <<draft, subvars>>  BY DEF AbandonUnsubmitted, AbandonUnleased
<1>3. batch \in [Batch -> BatchDoc] /\ history \in [Batch -> Seq(Transition)]
  BY DEF SubmitInv, SubmitTypeOK, DraftTypeOK, StoreTypeOK
<1>4. batch' = [batch EXCEPT ![b] = [batch[b] EXCEPT !.abandoned = TRUE]]
  BY <1>2, <1>3 DEF AbandonDraft
<1>5. history' = [history EXCEPT ![b] = Append(history[b], "ABANDONED")]
  BY <1>2 DEF AbandonDraft, Record
<1>6. \A c \in Batch : c # b => batch'[c] = batch[c] /\ history'[c] = history[c]
  BY <1>3, <1>4, <1>5
<1>7. /\ batch'[b].assembly = batch[b].assembly /\ batch'[b].status = batch[b].status
      /\ batch'[b].createdAt = batch[b].createdAt /\ batch'[b].content = batch[b].content
      /\ batch'[b].abandoned
  BY <1>3, <1>4 DEF BatchDoc
<1>8. \A c \in Batch :
        /\ batch'[c].createdAt = batch[c].createdAt /\ batch'[c].status = batch[c].status
        /\ batch'[c].assembly = batch[c].assembly /\ batch'[c].content = batch[c].content
  BY <1>6, <1>7
<1>9. \A c \in Batch : InProgressOrReview(c)' => InProgressOrReview(c) /\ c # b
  BY <1>6, <1>7 DEF InProgressOrReview, Ready
<1>10. ASSUME NEW c \in Batch, c # b, IsActiveBatch(c)  PROVE IsActiveBatch(c)'
  <2>1. InProgressOrReview(c)'  BY <1>6, <1>10 DEF IsActiveBatch, InProgressOrReview, Ready
  <2>2. QED  BY <1>8, <1>9, <1>10, <2>1, ActiveStays
<1>11. Published'  BY <1>8 DEF SubmitInv, Published, Ready
<1>12. batch[b].status = "IN_PROGRESS" /\ ~batch[b].abandoned  BY <1>2 DEF AbandonDraft
<1>13. sub' = sub /\ draft' = draft /\ signedFor' = signedFor  BY <1>2 DEF subvars
<1>14. PassedIsActive'
  <2> SUFFICES ASSUME NEW r \in Submitter, (sub[r].pc \in {"eligible", "final", "commit"})',
                      (~batch[sub[r].on].abandoned)'
               PROVE  IsActiveBatch(sub[r].on)'
    BY DEF PassedIsActive
  <2>1. PICK c \in Batch : c = sub[r].on  BY <1>13 DEF SubmitInv, SubmitShape, InFlight
  <2>2. c # b  BY <1>7, <1>13, <2>1
  <2>3. IsActiveBatch(c)  BY <1>6, <1>13, <2>1, <2>2 DEF SubmitInv, PassedIsActive
  <2>4. IsActiveBatch(c)'  BY <1>10, <2>2, <2>3
  <2>5. QED  BY <1>13, <2>1, <2>4
<1>15. SubmittedIsActive' /\ SubmittedArtifacts'
  <2>1. ASSUME NEW c \in Batch, Submitted(c)'
        PROVE  c # b /\ Submitted(c) /\ batch'[c] = batch[c]
    BY <1>6, <1>7, <1>12, <2>1 DEF Submitted
  <2>2. SubmittedIsActive'  BY <1>10, <2>1 DEF SubmitInv, SubmittedIsActive
  <2>3. SubmittedArtifacts'  BY <1>13, <2>1 DEF SubmitInv, SubmittedArtifacts
  <2>4. QED  BY <2>2, <2>3
<1>16. SignedLetterIsCurrent'  BY <1>8, <1>13 DEF SubmitInv, SignedLetterIsCurrent
<1>17. SubmitAuditTrail'
  <2>1. history[b] = <<"CREATED">>
    BY <1>12 DEF SubmitInv, Published, SubmitAuditTrail, Submitted
  <2>2. history'[b] = <<"CREATED", "ABANDONED">>
    <3>1. history'[b] = Append(history[b], "ABANDONED")  BY <1>3, <1>5
    <3>2. QED  BY <2>1, <3>1, SecondRow DEF Transition
  <2>3. ASSUME NEW c \in Batch
        PROVE  history'[c] = IF ~Ready(c)' THEN <<>>
                             ELSE IF Submitted(c)' THEN <<"CREATED", "SUBMITTED">>
                             ELSE IF batch'[c].abandoned THEN <<"CREATED", "ABANDONED">>
                             ELSE <<"CREATED">>
    <3>1. CASE c = b
      <4>1. Ready(b)' /\ ~Submitted(b)' /\ batch'[b].abandoned
        BY <1>7, <1>11, <1>12 DEF Published, Submitted
      <4>2. QED  BY <2>2, <3>1, <4>1
    <3>2. CASE c # b  BY <1>6, <3>2 DEF SubmitInv, SubmitAuditTrail, Ready, Submitted
    <3>3. QED  BY <3>1, <3>2
  <2>4. QED  BY <2>3 DEF SubmitAuditTrail
<1>18. QED  BY <1>1, <1>11, <1>14, <1>15, <1>16, <1>17 DEF SubmitInv

\* The checks before the commit: assertActive finds the batch active, and it stays so.
LEMMA CheckKeeps ==
  ASSUME SubmitInv, NEW s \in Submitter, CheckActive(s) \/ CheckEligible(s) \/ CheckFinal(s)
  PROVE  SubmitInv'
<1> DEFINE b == sub[s].on
<1>1. SubmitTypeOK' /\ SubmitShape'
  BY SubmitStepTyped DEF SubmitInv, SubmitNext, SubmitStep
<1>2. UNCHANGED <<dstore, signedFor>>  BY DEF CheckActive, CheckEligible, CheckFinal
<1>3. b \in Batch /\ sub'[s].on = b
  BY DEF SubmitInv, SubmitTypeOK, SubState, SubmitShape, InFlight, CheckActive, CheckEligible,
         CheckFinal, SubGoto
<1>4. \A r \in Submitter : r # s => sub'[r] = sub[r]
  BY DEF SubmitInv, SubmitTypeOK, CheckActive, CheckEligible, CheckFinal, SubGoto
<1>5. ASSUME ~batch[b].abandoned  PROVE IsActiveBatch(b)
  <2>1. CASE CheckActive(s)
    <3>1. InProgressOrReview(b)  BY <1>3, <1>5 DEF SubmitInv, Published, InProgressOrReview
    <3>2. StoreTypeOK  BY DEF SubmitInv, SubmitTypeOK, DraftTypeOK
    <3>3. PICK c \in Batch : IsActiveBatch(c)  BY <1>3, <3>1, <3>2, SomeBatchIsActive
    <3>4. QED  BY <2>1, <3>3 DEF CheckActive, Unblocked
  <2>2. CASE CheckEligible(s) \/ CheckFinal(s)
    BY <1>5, <2>2 DEF SubmitInv, PassedIsActive, CheckEligible, CheckFinal
  <2>3. QED  BY <2>1, <2>2
<1>6. PassedIsActive'
  <2>1. \A r \in Submitter :
          sub'[r].pc \in {"eligible", "final", "commit"} /\ ~batch[sub'[r].on].abandoned
          => IsActiveBatch(sub'[r].on)
    BY <1>3, <1>4, <1>5 DEF SubmitInv, PassedIsActive
  <2>2. QED  BY <1>2, <2>1 DEF PassedIsActive, dstore, store, IsActiveBatch, InProgressOrReview, Ready
<1>7. QED  BY <1>1, <1>2, <1>6, RequestKeeps

\* An upload, a save, a merge: drafts in progress only, and a letter never outlives what it was
\* signed for.
LEMMA DraftStepKeeps ==
  ASSUME SubmitInv, \/ \E b \in Batch, p \in Path : Upload(b, p)
                    \/ \E w \in Saver : WriteDetails(w)
                    \/ \E m \in merges : StoreMerge(m)
  PROVE  SubmitInv'
<1>1. SubmitTypeOK' /\ SubmitShape'
  BY SubmitStepTyped DEF SubmitInv, SubmitNext, SubmitStep
<1>2. draft \in [Batch -> DraftDoc] /\ signedFor \in [Batch -> [content : SUBSET Ulb, details : Nat]]
  BY DEF SubmitInv, SubmitTypeOK, DraftTypeOK
<1>3. ASSUME NEW b \in Batch, NEW p \in Path, Upload(b, p)  PROVE SubmitInv'
  <2>1. draft' = [draft EXCEPT ![b] = [draft[b] EXCEPT !.signed = p]]
        /\ signedFor' = [signedFor EXCEPT ![b] =
                           [content |-> batch[b].content, details |-> draft[b].details]]
        /\ UNCHANGED <<store, sub>> /\ ~Submitted(b)
    BY <1>2, <1>3 DEF Upload, CanEdit, Submitted
  <2>2. draft'[b].details = draft[b].details
        /\ signedFor'[b] = [content |-> batch[b].content, details |-> draft[b].details]
    BY <1>2, <2>1 DEF DraftDoc
  <2>3. \A c \in Batch : c # b => draft'[c] = draft[c] /\ signedFor'[c] = signedFor[c]
    BY <1>2, <2>1
  <2>4. SignedLetterIsCurrent'
    BY <2>1, <2>2, <2>3 DEF SubmitInv, SignedLetterIsCurrent, store
  <2>5. QED  BY <1>1, <2>1, <2>3, <2>4, DraftWriteKeeps
<1>4. ASSUME NEW w \in Saver, WriteDetails(w)  PROVE SubmitInv'
  <2> DEFINE b == save[w].on
  <2>1. UNCHANGED <<store, sub, signedFor>>  BY <1>4 DEF WriteDetails
  <2>2. CASE Savable(w)
    <3>1. b \in Batch /\ ~Submitted(b)
      <4>1. save[w] \in SaveState  BY SMTT(30) DEF SubmitInv, SubmitTypeOK
      <4>2. b # NoBatch /\ CanEdit(b)  BY <1>4, <2>2 DEF WriteDetails, Savable
      <4>3. b \in Batch  BY SMTT(30), <4>1, <4>2 DEF SaveState
      <4>4. QED  BY <4>2, <4>3 DEF CanEdit, Submitted
    <3>2. draft' = [draft EXCEPT ![b] = [draft[b] EXCEPT !.details = @ + 1, !.signed = NoPath]]
      BY <1>2, <1>4, <2>2, <3>1 DEF WriteDetails
    <3>3. draft'[b].signed = NoPath
      <4>1. draft'[b] = [draft[b] EXCEPT !.details = @ + 1, !.signed = NoPath]
        BY <1>2, <3>1, <3>2
      <4>2. QED  BY <1>2, <3>1, <4>1 DEF DraftDoc
    <3>4. \A c \in Batch : c # b => draft'[c] = draft[c]  BY <1>2, <3>2
    <3>5. SignedLetterIsCurrent'
      BY <2>1, <3>3, <3>4 DEF SubmitInv, SignedLetterIsCurrent, store
    <3>6. QED  BY SMTT(30), <1>1, <2>1, <3>1, <3>4, <3>5, DraftWriteKeeps
  <2>3. CASE ~Savable(w)
    <3>1. draft' = draft  BY <1>4, <2>3 DEF WriteDetails
    <3>2. SignedLetterIsCurrent'  BY <2>1, <3>1 DEF SubmitInv, SignedLetterIsCurrent, store
    <3>3. QED  BY <1>1, <2>1, <3>1, <3>2, DraftWriteKeeps
  <2>4. QED  BY <2>2, <2>3
<1>5. ASSUME NEW m \in merges, StoreMerge(m)  PROVE SubmitInv'
  <2>1. UNCHANGED <<store, sub, signedFor>>  BY <1>5 DEF StoreMerge
  <2>2. m.on \in Batch  BY DEF SubmitInv, SubmitTypeOK
  <2>3. ASSUME NEW c \in Batch
        PROVE  /\ Submitted(c) => draft'[c] = draft[c]
               /\ draft'[c].signed = draft[c].signed /\ draft'[c].details = draft[c].details
    <3>1. CASE batch[m.on].status = "IN_PROGRESS"
      <4>1. draft' = [draft EXCEPT ![m.on] = [draft[m.on] EXCEPT !.pdf = m.key]]
        BY <1>2, <1>5, <2>2, <3>1 DEF StoreMerge
      <4>2. c # m.on => draft'[c] = draft[c]  BY <1>2, <4>1
      <4>3. draft'[m.on] = [draft[m.on] EXCEPT !.pdf = m.key]  BY <1>2, <2>2, <4>1
      <4>4. draft'[m.on].signed = draft[m.on].signed /\ draft'[m.on].details = draft[m.on].details
        BY <1>2, <2>2, <4>3 DEF DraftDoc
      <4>5. QED  BY <3>1, <4>2, <4>4 DEF Submitted
    <3>2. CASE batch[m.on].status # "IN_PROGRESS"  BY <1>5, <3>2 DEF StoreMerge
    <3>3. QED  BY <3>1, <3>2
  <2>4. SignedLetterIsCurrent'
    BY <2>1, <2>3 DEF SubmitInv, SignedLetterIsCurrent, store
  <2>5. QED  BY <1>1, <2>1, <2>3, <2>4, DraftWriteKeeps
<1>6. QED  BY <1>3, <1>4, <1>5

\* A read that begins a save or a submit, or starts a merge.
LEMMA SubmitReadKeeps ==
  ASSUME SubmitInv, \/ \E s \in Submitter, b \in Batch : BeginSubmit(s, b)
                    \/ \E w \in Saver, b \in Batch : ReadDetails(w, b)
                    \/ \E b \in Batch : StartMerge(b)
  PROVE  SubmitInv'
<1>1. SubmitTypeOK' /\ SubmitShape'
  BY SubmitStepTyped DEF SubmitInv, SubmitNext, SubmitStep
<1>2. UNCHANGED <<dstore, signedFor>>  BY DEF BeginSubmit, ReadDetails, StartMerge
<1>3. \A r \in Submitter : sub'[r].pc \in {"eligible", "final", "commit"} => sub'[r] = sub[r]
  <2>1. CASE sub' = sub  BY <2>1
  <2>2. ASSUME NEW s \in Submitter, NEW b \in Batch, BeginSubmit(s, b)
        PROVE  \A r \in Submitter :
                 sub'[r].pc \in {"eligible", "final", "commit"} => sub'[r] = sub[r]
    <3> DEFINE q == [IdleSub EXCEPT !.pc = "active", !.on = b, !.signed = draft[b].signed,
                                    !.details = draft[b].details]
    <3>1. q.pc = "active"  BY DEF IdleSub
    <3>2. sub' = [sub EXCEPT ![s] = q]  BY <2>2 DEF BeginSubmit
    <3> HIDE DEF q
    <3>3. QED  BY <3>1, <3>2 DEF SubmitInv, SubmitTypeOK
  <2>3. QED  BY <2>1, <2>2 DEF ReadDetails, StartMerge
<1>4. PassedIsActive'
  BY <1>2, <1>3 DEF SubmitInv, PassedIsActive, dstore, store, IsActiveBatch, InProgressOrReview, Ready
<1>5. QED  BY <1>1, <1>2, <1>4, RequestKeeps

\* Every step keeps the invariant.
LEMMA SubmitStepInv == SubmitInv /\ [SubmitNext]_svars => SubmitInv'
<1> SUFFICES ASSUME SubmitInv, [SubmitNext]_svars PROVE SubmitInv'  OBVIOUS
<1>1. CASE \E s \in Submitter : CommitSubmit(s)  BY <1>1, CommitSubmitKeeps
<1>2. CASE \E b \in Batch : AbandonUnsubmitted(b)  BY <1>2, SubmitAbandonKeeps
<1>3. CASE \E s \in Submitter : CheckActive(s) \/ CheckEligible(s) \/ CheckFinal(s)
  BY <1>3, CheckKeeps
<1>4. CASE \/ \E b \in Batch, p \in Path : Upload(b, p)
           \/ \E w \in Saver : WriteDetails(w)
           \/ \E m \in merges : StoreMerge(m)
  BY <1>4, DraftStepKeeps
<1>5. CASE \/ \E s \in Submitter, b \in Batch : BeginSubmit(s, b)
           \/ \E w \in Saver, b \in Batch : ReadDetails(w, b)
           \/ \E b \in Batch : StartMerge(b)
  BY <1>5, SubmitReadKeeps
<1>6. CASE UNCHANGED svars
  <2>1. SubmitTypeOK' /\ SubmitShape'  BY <1>6, SubmitStepTyped DEF SubmitInv
  <2>2. UNCHANGED <<dstore, signedFor, sub>>  BY <1>6 DEF svars, subvars
  <2>3. PassedIsActive'
    BY <2>2 DEF SubmitInv, PassedIsActive, dstore, store, IsActiveBatch, InProgressOrReview, Ready
  <2>4. QED  BY <2>1, <2>2, <2>3, RequestKeeps
<1>7. QED  BY <1>1, <1>2, <1>3, <1>4, <1>5, <1>6 DEF SubmitNext, SubmitStep

\* The invariant of the submit holds in every reachable state.
THEOREM SubmitInvAlways == SubmitSpec => []SubmitInv
BY SubmitInitInv, SubmitStepInv, PTL DEF SubmitSpec

\* What MoHUA receives is never abandoned, and has a signed letter and the merge made from it,
\* whatever uploads, saves, merges and abandons race with the submit.
THEOREM SubmittedAreComplete == SubmitSpec => []SubmittedArtifacts
<1>1. SubmitInv => SubmittedArtifacts  BY DEF SubmitInv
<1>2. QED  BY <1>1, SubmitInvAlways, PTL

\* MoHUA has at most one batch of an installment, when no create is still running.
THEOREM OneUnderReview == SubmitSpec => []AtMostOneUnderReview
<1>1. SubmitInv => AtMostOneUnderReview
  <2> SUFFICES ASSUME SubmitInv, NEW b \in Batch, NEW c \in Batch, Submitted(b), Submitted(c)
               PROVE  b = c
    BY DEF AtMostOneUnderReview
  <2>1. IsActiveBatch(b) /\ IsActiveBatch(c)  BY DEF SubmitInv, SubmittedIsActive
  <2>2. batch[b].createdAt <= batch[c].createdAt /\ batch[c].createdAt <= batch[b].createdAt
    BY <2>1 DEF IsActiveBatch
  <2>3. batch[b].createdAt \in Nat /\ batch[c].createdAt \in Nat
    BY DEF SubmitInv, SubmitTypeOK, DraftTypeOK, StoreTypeOK, BatchDoc
  <2>4. batch[b].createdAt = batch[c].createdAt  BY <2>2, <2>3
  <2>5. QED  BY <2>4 DEF SubmitInv, Published
<1>2. QED  BY <1>1, SubmitInvAlways, PTL

\* The audit rows of a batch are exactly what happened to it, however many submits and abandons race.
THEOREM SubmitHistoryIsExact == SubmitSpec => []SubmitAuditTrail
<1>1. SubmitInv => SubmitAuditTrail  BY DEF SubmitInv
<1>2. QED  BY <1>1, SubmitInvAlways, PTL

\* A signed letter was uploaded for the letter details and the ULBs its batch has now.
THEOREM LettersAreCurrent == SubmitSpec => []SignedLetterIsCurrent
<1>1. SubmitInv => SignedLetterIsCurrent  BY DEF SubmitInv
<1>2. QED  BY <1>1, SubmitInvAlways, PTL
=============================================================================

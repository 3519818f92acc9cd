------------------------------ MODULE ClaimSubmit ------------------------------
(***************************************************************************)
(* Everything a State does with a draft after its ULBs are chosen: save the *)
(* letter details, upload the signed letter, have the final PDF merged,     *)
(* submit to MoHUA.                                                         *)
(*                                                                         *)
(* Each request reads the batch once, checks what it read over several      *)
(* awaited calls, and then relies on the filter of one guarded write.       *)
(* A request that is refused, dies or hangs before that write leaves no     *)
(* trace, so only its successful path is modelled. The enclosures merged    *)
(* after the signed letter do not change: the key of a merge is the path of *)
(* the signed letter.                                                       *)
(***************************************************************************)
EXTENDS ClaimDraft

CONSTANTS
  Submitter,    \* submit requests
  Saver,        \* letter-details saves
  MaxSaves      \* bound on the saves that change a batch

ASSUME SubmitAssumption == MaxSaves \in Nat

VARIABLES
  sub,         \* sub[s]: the submit request s and what it read
  save,        \* save[w]: the letter-details save w and what it read
  merges,      \* final-PDF merges under way: the batch and the signed letter each was started for
  signedFor    \* history variable: the content and details of b when its letter was uploaded

subvars == <<sub, save, merges, signedFor>>
svars == <<dstore, subvars>>

SubState ==
  [pc : {"idle", "active", "eligible", "final", "commit", "done", "failed"},
   on : Batch \cup {NoBatch}, signed : Path \cup {NoPath}, details : Nat]

IdleSub == [pc |-> "idle", on |-> NoBatch, signed |-> NoPath, details |-> 0]

SaveState == [on : Batch \cup {NoBatch}, details : Nat, hasSigned : BOOLEAN]

IdleSave == [on |-> NoBatch, details |-> 0, hasSigned |-> FALSE]

SubmitTypeOK ==
  /\ DraftTypeOK
  /\ sub \in [Submitter -> SubState]
  /\ save \in [Saver -> SaveState]
  /\ merges \subseteq [on : Batch, key : Path]
  /\ signedFor \in [Batch -> [content : SUBSET Ulb, details : Nat]]

SubmitProcInit ==
  /\ sub = [s \in Submitter |-> IdleSub]
  /\ save = [w \in Saver |-> IdleSave]
  /\ merges = {}
  /\ signedFor = [b \in Batch |-> [content |-> {}, details |-> 0]]

SubmitInit == (\E gone \in SUBSET Batch : PublishedInit(gone)) /\ SubmitProcInit

\* canEditClaimLetter.
CanEdit(b) == Ready(b) /\ batch[b].status = "IN_PROGRESS" /\ ~batch[b].abandoned

-----------------------------------------------------------------------------
\* uploadSignedFile: the path already stored is "unchanged"; no edit lock and no active-batch check.
Upload(b, p) ==
  /\ CanEdit(b)
  /\ draft[b].signed # p
  /\ draft' = [draft EXCEPT ![b].signed = p]
  /\ signedFor' = [signedFor EXCEPT ![b] =
                     [content |-> batch[b].content, details |-> draft[b].details]]
  /\ UNCHANGED <<store, sub, save, merges>>

\* ClaimLetterLetterDetailsService.save up to its write. With a signed letter present, the request
\* carries confirmSignedFileRemoval.
ReadDetails(w, b) ==
  /\ save[w] = IdleSave
  /\ CanEdit(b) /\ Unblocked(b)
  /\ draft[b].details < MaxSaves
  /\ save' = [save EXCEPT ![w] = [on |-> b, details |-> draft[b].details,
                                  hasSigned |-> draft[b].signed # NoPath]]
  /\ UNCHANGED <<dstore, sub, merges, signedFor>>

\* Its guarded write: the details as read, and a signed letter as read present or absent.
Savable(w) ==
  LET b == save[w].on IN
    /\ CanEdit(b)
    /\ draft[b].details = save[w].details
    /\ (draft[b].signed # NoPath) = save[w].hasSigned

WriteDetails(w) ==
  /\ save[w].on # NoBatch
  /\ draft' = IF Savable(w)
              THEN [draft EXCEPT ![save[w].on].details = @ + 1, ![save[w].on].signed = NoPath]
              ELSE draft
  /\ save' = [save EXCEPT ![w] = IdleSave]
  /\ UNCHANGED <<store, sub, merges, signedFor>>

-----------------------------------------------------------------------------
(* ClaimLetterFinalPdfService                                              *)

\* Mutant: a merge is started without a signed letter.
StartMergeUnsigned(b) ==
  /\ CanEdit(b) /\ Unblocked(b)
  /\ draft[b].signed # draft[b].pdf \/ draft[b].signed = NoPath
  /\ merges' = merges \cup {[on |-> b, key |-> draft[b].signed]}
  /\ UNCHANGED <<dstore, sub, save, signedFor>>

\* resolve and ensure: a draft's merge is started unless the stored one has the key already. Builds
\* of one key share one promise.
StartMerge(b) ==
  /\ CanEdit(b) /\ Unblocked(b)
  /\ draft[b].signed \notin {NoPath, draft[b].pdf}
  /\ merges' = merges \cup {[on |-> b, key |-> draft[b].signed]}
  /\ UNCHANGED <<dstore, sub, save, signedFor>>

\* build stores what it merged, whatever has been uploaded or saved meanwhile.
StoreMerge(m) ==
  /\ m \in merges
  /\ merges' = merges \ {m}
  /\ draft' = IF batch[m.on].status = "IN_PROGRESS"
              THEN [draft EXCEPT ![m.on].pdf = m.key] ELSE draft
  /\ UNCHANGED <<store, sub, save, signedFor>>

-----------------------------------------------------------------------------
(* ClaimLetterSubmitService.submit                                         *)

SubGoto(s, pc) == sub' = [sub EXCEPT ![s].pc = pc]
SubEnd(s, pc) == sub' = [sub EXCEPT ![s] = [IdleSub EXCEPT !.pc = pc]]

\* The batch is read. What submit needs of it is compared with this copy: a signed letter, and the
\* stored merge made from it and reviewed by the State (assertReviewedKey).
BeginSubmit(s, b) ==
  /\ sub[s].pc = "idle"
  /\ CanEdit(b)
  /\ draft[b].signed # NoPath
  /\ draft[b].pdf = draft[b].signed
  /\ sub' = [sub EXCEPT ![s] = [IdleSub EXCEPT !.pc = "active", !.on = b,
                                  !.signed = draft[b].signed, !.details = draft[b].details]]
  /\ UNCHANGED <<dstore, save, merges, signedFor>>

\* assertActive.
CheckActive(s) ==
  /\ sub[s].pc = "active"
  /\ Unblocked(sub[s].on)
  /\ SubGoto(s, "eligible")
  /\ UNCHANGED <<dstore, save, merges, signedFor>>

\* assertBatchStillEligible, of the child rows there are at this moment; all of them are eligible.
CheckEligible(s) ==
  /\ sub[s].pc = "eligible"
  /\ SubGoto(s, IF batch[sub[s].on].number = MaxBatchNumber THEN "final" ELSE "commit")
  /\ UNCHANGED <<dstore, save, merges, signedFor>>

\* assertFinalBatchIsComplete: no expected ULB without a lock.
CheckFinal(s) ==
  /\ sub[s].pc = "final"
  /\ \A u \in Ulb : lock[u] # NoBatch
  /\ SubGoto(s, "commit")
  /\ UNCHANGED <<dstore, save, merges, signedFor>>

\* Mutants: the merge, the status, the edit lock is not in the filter.
SubmittableAnyMerge(s, b) ==
  /\ batch[b].status = "IN_PROGRESS" /\ ~batch[b].abandoned
  /\ draft[b].signed = sub[s].signed /\ draft[b].details = sub[s].details
  /\ LeaseFree(b)

SubmittableAnyStatus(s, b) ==
  /\ ~batch[b].abandoned
  /\ draft[b].signed = sub[s].signed /\ draft[b].details = sub[s].details
  /\ draft[b].pdf = sub[s].signed
  /\ LeaseFree(b)

SubmittableDuringEdit(s, b) ==
  /\ batch[b].status = "IN_PROGRESS" /\ ~batch[b].abandoned
  /\ draft[b].signed = sub[s].signed /\ draft[b].details = sub[s].details
  /\ draft[b].pdf = sub[s].signed

\* The filter of the submitting update; sub[s].signed is also the reviewed key.
Submittable(s, b) ==
  /\ batch[b].status = "IN_PROGRESS"
  /\ ~batch[b].abandoned
  /\ draft[b].signed = sub[s].signed
  /\ draft[b].details = sub[s].details
  /\ draft[b].pdf = sub[s].signed
  /\ LeaseFree(b)

\* One transaction with the history row. The losing request only reads again, to choose its answer.
CommitSubmit(s) ==
  /\ sub[s].pc = "commit"
  /\ LET b == sub[s].on IN
       IF Submittable(s, b)
       THEN /\ batch' = [batch EXCEPT ![b].status = "UNDER_REVIEW_BY_MOHUA"]
            /\ Record(b, "SUBMITTED")
            /\ SubEnd(s, "done")
       ELSE SubEnd(s, "failed") /\ UNCHANGED <<batch, history>>
  /\ UNCHANGED <<lock, child, clock, draft, save, merges, signedFor>>

AbandonUnsubmitted(b) == AbandonUnleased(b) /\ UNCHANGED subvars

-----------------------------------------------------------------------------
SubmitStep ==
  \/ \E s \in Submitter :
       \/ \E b \in Batch : BeginSubmit(s, b)
       \/ CheckActive(s) \/ CheckEligible(s) \/ CheckFinal(s) \/ CommitSubmit(s)
  \/ \E w \in Saver : WriteDetails(w) \/ \E b \in Batch : ReadDetails(w, b)
  \/ \E m \in merges : StoreMerge(m)
  \/ \E b \in Batch : StartMerge(b) \/ \E p \in Path : Upload(b, p)

SubmitNext == SubmitStep \/ \E b \in Batch : AbandonUnsubmitted(b)

SubmitSpec == SubmitInit /\ [][SubmitNext]_svars
=============================================================================

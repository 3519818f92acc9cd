---------------------------- MODULE RequestExemption ----------------------------
(***************************************************************************)
(* RequestExemptionService.finalSubmit, with which a State files an         *)
(* exemption request for one or more forms, and the approve and reject of   *)
(* RequestExemptionMohuaService. A filing or a decision is a process; its   *)
(* last step is one transaction.                                            *)
(*                                                                         *)
(* A request that is refused, fails or dies before that transaction leaves  *)
(* no trace.                                                                *)
(***************************************************************************)
EXTENDS ExemptionStore

CONSTANT Decision   \* approve and reject requests

VARIABLES
  filing,     \* filing[r]: the filing r and what it read
  decision    \* decision[q]: the decision q and what it read

xvars == <<filing, decision>>

FilingState ==
  [pc : {"idle", "check", "write", "done"}, forms : SUBSET FormId,
   on : Filing \cup {NoFiling}, data : [FormId -> Entry], updatedAt : Nat]

IdleFiling ==
  [pc |-> "idle", forms |-> {}, on |-> NoFiling, data |-> NoData, updatedAt |-> 0]

DecisionState ==
  [pc : {"idle", "check", "write", "done"}, form : FormId,
   on : Filing \cup {NoFiling}, verdict : {Approved, Rejected}]

IdleDecision == [pc |-> "idle", form |-> SfcForm, on |-> NoFiling, verdict |-> Rejected]

ExemptionTypeOK ==
  /\ filing \in [Filing -> FilingState]
  /\ decision \in [Decision -> DecisionState]

ExemptionInit ==
  /\ filing = [r \in Filing |-> IdleFiling]
  /\ decision = [q \in Decision |-> IdleDecision]

FilingEnd(r) == filing' = [filing EXCEPT ![r] = [IdleFiling EXCEPT !.pc = "done"]]
DecisionEnd(q) == decision' = [decision EXCEPT ![q] = [IdleDecision EXCEPT !.pc = "done"]]

-----------------------------------------------------------------------------
(* finalSubmit                                                             *)

\* resolveExistingDocument, and the check that no requested form has an entry that is pending or
\* approved already.
ReadExisting(r, F) ==
  /\ filing[r].pc = "idle"
  /\ F # {}
  /\ \/ /\ Docs = {}
        /\ filing' = [filing EXCEPT ![r] = [IdleFiling EXCEPT !.pc = "check", !.forms = F]]
     \/ \E d \in Docs :
          /\ \A f \in F : exemption[d].data[f].status \in {"NONE", Rejected}
          /\ filing' = [filing EXCEPT ![r] =
               [pc |-> "check", forms |-> F, on |-> d, data |-> exemption[d].data,
                updatedAt |-> exemption[d].updatedAt]]
  /\ UNCHANGED <<estore, decision>>

\* assertTargetStateFormsEligible.
CheckTargets(r) ==
  /\ filing[r].pc = "check"
  /\ IF \E f \in filing[r].forms : HasProgress(f)
     THEN FilingEnd(r)
     ELSE filing' = [filing EXCEPT ![r].pc = "write"]
  /\ UNCHANGED <<estore, decision>>

\* mergedData: the entries as they were read, the submitted ones replaced whole.
Merged(r) ==
  [f \in FormId |-> IF f \in filing[r].forms THEN [status |-> Pending, by |-> r]
                    ELSE filing[r].data[f]]

\* Mutant: the update is not guarded by updatedAt.
UnguardedFiling(r) == filing[r].on = NoFiling => Docs = {}

\* The update is guarded by updatedAt as read, the create by the unique index.
FilingFits(r) ==
  IF filing[r].on = NoFiling THEN Docs = {}
  ELSE exemption[filing[r].on].updatedAt = filing[r].updatedAt

Document(r) == IF filing[r].on = NoFiling THEN r ELSE filing[r].on

SubmittedRow(r) == [action |-> "SUBMITTED", by |-> r]

\* The transaction: the document and one log row per submitted form.
WriteFiling(r) ==
  /\ filing[r].pc = "write"
  /\ FilingEnd(r)
  /\ IF FilingFits(r)
     THEN /\ exemption' = [exemption EXCEPT ![Document(r)] =
               [exists |-> TRUE, data |-> Merged(r), updatedAt |-> @.updatedAt + 1]]
          /\ log' = [f \in FormId |->
               IF f \in filing[r].forms THEN Append(log[f], SubmittedRow(r)) ELSE log[f]]
     ELSE UNCHANGED <<exemption, log>>
  /\ UNCHANGED <<sfc, sfcHistory, decision>>

-----------------------------------------------------------------------------
(* approve and reject                                                      *)

\* The document is read and its entry found pending. Only approve looks at the target form.
ReadPending(q, d, f, verdict) ==
  /\ decision[q].pc = "idle"
  /\ d \in Docs
  /\ exemption[d].data[f].status = Pending
  /\ decision' = [decision EXCEPT ![q] =
       [pc |-> IF verdict = Approved THEN "check" ELSE "write", form |-> f, on |-> d,
        verdict |-> verdict]]
  /\ UNCHANGED <<estore, filing>>

\* assertSectionStillEligible.
CheckSection(q) ==
  /\ decision[q].pc = "check"
  /\ IF HasProgress(decision[q].form)
     THEN DecisionEnd(q)
     ELSE decision' = [decision EXCEPT ![q].pc = "write"]
  /\ UNCHANGED <<estore, filing>>

\* Mutant: the update does not match the status of the entry.
AnyEntry(q) == exemption[decision[q].on].data[decision[q].form].status # "NONE"

\* The $elemMatch of the update: the form still has a pending entry.
StillPending(q) == exemption[decision[q].on].data[decision[q].form].status = Pending

Decided(q) ==
  [exemption[decision[q].on].data EXCEPT ![decision[q].form] =
     [status |-> decision[q].verdict, by |-> @.by]]

DecidedRow(q) ==
  [action |-> IF decision[q].verdict = Approved THEN "APPROVED" ELSE "RETURNED", by |-> NoFiling]

\* The transaction: the status of that entry and its log row.
WriteDecision(q) ==
  /\ decision[q].pc = "write"
  /\ DecisionEnd(q)
  /\ IF StillPending(q)
     THEN /\ exemption' = [exemption EXCEPT ![decision[q].on] =
               [exists |-> TRUE, data |-> Decided(q), updatedAt |-> @.updatedAt + 1]]
          /\ log' = [log EXCEPT ![decision[q].form] = Append(@, DecidedRow(q))]
     ELSE UNCHANGED <<exemption, log>>
  /\ UNCHANGED <<sfc, sfcHistory, filing>>

-----------------------------------------------------------------------------
ExemptionStep ==
  \/ \E r \in Filing :
       (\E F \in SUBSET FormId : ReadExisting(r, F)) \/ CheckTargets(r) \/ WriteFiling(r)
  \/ \E q \in Decision :
       \/ \E d \in Filing, f \in FormId, v \in {Approved, Rejected} : ReadPending(q, d, f, v)
       \/ CheckSection(q) \/ WriteDecision(q)
=============================================================================

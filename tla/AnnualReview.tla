------------------------------ MODULE AnnualReview ------------------------------
(***************************************************************************)
(* What the State and the ADMIN decide: the State on single documents and   *)
(* on the section, with undo; the ADMIN on a manual review.                 *)
(*                                                                         *)
(* A decision checks what it read and writes by the id of the section, with *)
(* no condition. MoHUA's decision is not reached: nothing in the repository *)
(* moves a section on from APPROVED_BY_STATE.                               *)
(***************************************************************************)
EXTENDS AnnualOcr

VARIABLE ruled   \* history variable: the verdicts the ADMIN's decisions wrote, by document

reviewUnchanged == <<history, filing, worker, cast>>

UnderReview == section = "UNDER_REVIEW_BY_STATE"

-----------------------------------------------------------------------------
(* decideDocument, undoDocumentDecision: NoVerdict undoes                  *)

BeginDocument(h, d, v) ==
  /\ UnderReview
  /\ HasEntry(d)
  /\ Start(h, [NoRequest EXCEPT !.op = "document", !.docId = d, !.verdict = v, !.seen = Clock])
  /\ UNCHANGED <<annualStore, filing, worker, cast, ruled>>

\* The time of a decision is taken between its read and its write.
Decided(r) ==
  IF r.verdict = NoVerdict THEN {Undecided}
  ELSE {[status |-> r.verdict, at |-> t] : t \in r.seen..Clock}

DecideDocument(h) ==
  /\ req[h].op = "document"
  /\ \E decision \in Decided(req[h]) :
       documents' = [documents EXCEPT ![First(req[h].docId)].decision = decision]
  /\ Finish(h)
  /\ UNCHANGED <<section, pending, ruled, reviewUnchanged>>

-----------------------------------------------------------------------------
(* decideSection                                                           *)

\* Mutant: documents the State has returned are no obstacle.
AnyDecision == TRUE

NoneReturned == \A i \in DOMAIN documents : Effective(documents[i]) # "RETURNED"

\* The documents without a decision that counts are swept into the section's.
BeginSection(h, v) ==
  /\ UnderReview
  /\ v = "APPROVED" => NoneReturned
  /\ Start(h, [NoRequest EXCEPT
       !.op = "section", !.verdict = v, !.seen = Clock,
       !.sweep = {documents[i].docId :
                    i \in {j \in DOMAIN documents : Effective(documents[j]) = NoVerdict}}])
  /\ UNCHANGED <<annualStore, filing, worker, cast, ruled>>

DecideSection(h) ==
  /\ req[h].op = "section"
  /\ section' = IF req[h].verdict = "APPROVED" THEN "APPROVED_BY_STATE" ELSE "RETURNED_BY_STATE"
  /\ \E decision \in Decided(req[h]) :
       documents' = [i \in DOMAIN documents |->
         IF documents[i].docId \in req[h].sweep
         THEN [documents[i] EXCEPT !.decision = decision] ELSE documents[i]]
  /\ Finish(h)
  /\ UNCHANGED <<pending, ruled, reviewUnchanged>>

\* undoSectionApproval.
BeginUndo(h) ==
  /\ section = "APPROVED_BY_STATE"
  /\ Start(h, [NoRequest EXCEPT !.op = "undo"])
  /\ UNCHANGED <<annualStore, filing, worker, cast, ruled>>

UndoApproval(h) ==
  /\ req[h].op = "undo"
  /\ section' = "UNDER_REVIEW_BY_STATE"
  /\ documents' = [i \in DOMAIN documents |-> [documents[i] EXCEPT !.decision = Undecided]]
  /\ Finish(h)
  /\ UNCHANGED <<pending, ruled, reviewUnchanged>>

-----------------------------------------------------------------------------
(* decideManualReview                                                      *)

\* A review was requested; whether it was decided already is not asked.
BeginRuling(h, d, v) ==
  /\ HasEntry(d)
  /\ Entry(d).upload # NoUpload
  /\ Entry(d).requested
  /\ Start(h, [NoRequest EXCEPT !.op = "decide", !.docId = d, !.verdict = v, !.on = Entry(d).upload])
  /\ UNCHANGED <<annualStore, filing, worker, cast, ruled>>

\* By docId alone.
RuleEntry(h) ==
  /\ req[h].op = "decide"
  /\ documents' = [documents EXCEPT ![First(req[h].docId)] = Ruling(@, req[h].verdict)]
  /\ ruled' = ruled \cup {<<req[h].docId, req[h].verdict>>}
  /\ req' = [req EXCEPT ![h].op = "decideRow"]
  /\ UNCHANGED <<section, pending, reviewUnchanged>>

\* Mutant: the decided request is added beside the pending one.
StillPending(n) == n

\* The pending request of the upload that was read is decided; with none, a decided one is added.
PendingAfter(n) == IF n > 0 THEN n - 1 ELSE n

RuleRow(h) ==
  /\ req[h].op = "decideRow"
  /\ pending' = [pending EXCEPT ![req[h].on] = PendingAfter(@)]
  /\ Finish(h)
  /\ UNCHANGED <<section, documents, ruled, reviewUnchanged>>

ReviewRequest(h) ==
  \/ \E d \in DocId : \/ \E v \in Verdict \cup {NoVerdict} : BeginDocument(h, d, v)
                      \/ \E v \in Verdict : BeginRuling(h, d, v)
  \/ \E v \in Verdict : BeginSection(h, v)
  \/ DecideDocument(h) \/ DecideSection(h) \/ BeginUndo(h) \/ UndoApproval(h)
  \/ RuleEntry(h) \/ RuleRow(h)
=============================================================================

----------------------------- MODULE MCLetterScenes -----------------------------
EXTENDS ClaimLetterProps, TLC

(***************************************************************************)
(* Three scenes, chosen at the start: one letter from the empty database,   *)
(* with one create, one edit and one submit; two letters that are           *)
(* published, with everything that submits them; and two published letters  *)
(* with edits alone. A step of the first may take a request only if no      *)
(* other one of its kind has begun, and an edit of it fails only without an *)
(* effect and where the code restores what the edit found. The edits of the *)
(* third meet every failure of Faults and Misreported; of the commits that  *)
(* are reported as failed, those of edits that added no ULB.                *)
(***************************************************************************)
VARIABLE scene

ScenesInit ==
  \/ scene = "one" /\ LetterInit
  \/ scene = "two" /\ SubmitInit /\ CreateProcInit /\ EditProcInit
  \/ scene = "edits" /\ EditInit /\ CreateProcInit /\ SubmitProcInit

OneOfEach ==
  /\ Cardinality({r \in Batch : req[r].pc # "idle"}) <= 1
  /\ Cardinality({s \in Submitter : sub[s].pc # "idle"}) <= 1
  /\ Cardinality({e \in Editor : edit[e].pc # "idle"}) <= 1

\* The steps of an edit whose failure without an effect leaves the draft as the edit found it.
Restored == {"read", "prepare", "delete", "verify", "commit"}

FailsRestored ==
  \A e \in Editor :
    edit'[e] # edit[e] => EditWork(e) \/ (edit[e].pc \in Restored /\ EditStepFails(e))

CommitsMisreportedAddNothing ==
  \A e \in Editor : edit'[e] # edit[e] /\ CommitMisreported(e) => Added(e) = {}

ScenesNext ==
  \/ scene = "one" /\ LetterNext /\ OneOfEach' /\ FailsRestored /\ UNCHANGED scene
  \/ scene = "two" /\ SubmitNext /\ UNCHANGED <<createOnly, edit, scene>>
  \/ scene = "edits" /\ EditNext /\ CommitsMisreportedAddNothing
     /\ UNCHANGED <<createOnly, subvars, scene>>

ScenesSpec == ScenesInit /\ [][ScenesNext]_<<lvars, scene>>

\* DraftIsWhole beside creates and submits, where a step of an edit fails only without an effect and
\* only where the catch blocks of updateDraftRaw put the draft back. Of the other failures (a write
\* that took effect, wholly or in part, and is reported as failed; one met while inserting or undoing)
\* it does not speak: they leave drafts that are not whole.
DraftIsWholeIfRestored == scene = "edits" \/ DraftIsWhole

(* Requests, keys and ULBs are interchangeable: no action or property orders them. *)
Symmetry ==
  Permutations(Batch) \cup Permutations(Ulb) \cup Permutations(Key) \cup Permutations(Submitter)
    \cup Permutations(Path) \cup Permutations(Editor)
=============================================================================

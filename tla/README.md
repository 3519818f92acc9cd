# Verification of cf-nest-api-v2: the XVI Finance Commission workflow

`cf-nest-api-v2` is the NestJS backend of CityFinance. Its largest part, `module/xvi-fc`, is the
workflow of the XVI Finance Commission grants: Urban Local Bodies (ULBs) and States fill forms,
PMU and MoHUA review them, and at the end a State assembles a **claim letter**, the document with
which it claims an installment for a set of ULBs. All paths below are relative to `src/src/` of the
repository; `cl/` stands for `module/xvi-fc/state/claim-letter/`.

The claim letter is modelled first because it is where the program's own concurrency is: a
many-step pipeline over four MongoDB collections, part inside and part outside transactions, with
leases, optimistic locks, two clean-up paths, and money at the end of it. Beside it stand forms it depends on: exemption
requests with the SFC Status form they may excuse a State from, the declaration of unspent money (FC unspent) whose rows two
reviewers decide, the form of the elected urban local bodies (EULB), a dataset of rows that comes from an Excel file, the
devolution formula, another such dataset whose amounts must make up the grant, and the two ULB forms whose uploads a job queue validates, annual accounts and the detailed utilisation report (DUR).

## 1. Inventory

| Part | State | Operations | Modelled |
|---|---|---|---|
| Claim letter, create pipeline (`cl/services/assembly`, `cl/helpers`) | batches, ULB locks, child rows, history | `createDraft`: idempotency check, reservation transaction, chunked rows, verification, finalize, roll-back, inline reclaim | `ClaimCreate` |
| Claim letter, recovery (`cl/services/recovery`) | the same | hourly cron that reclaims stale builds; a report-only anomaly scan | `ClaimCreate` |
| Claim letter, edit and abandon (`cl/services/assembly`) | the same, and the edit lock of a batch | `updateDraft` with its compensation, `abandonDraft` | `ClaimEdit`, `ClaimDraft` |
| Claim letter, details, signed letter, final PDF, submit (`cl/services/{letter-details,main,final-pdf,submit,active-batch,history}`) | draft fields of a batch | `save`, `uploadSignedFile`, `ensure`/`build`, `submit` | `ClaimSubmit` |
| Claim letter, reads (preview, .docx, lists) | none | render and list | no: no state |
| Claim eligibility evaluator | none of its own | a read-only evaluation over the other forms | as a nondeterministic pass or refusal; planned |
| Request Exemption (`state/request-exemption`, `mohua/request-exemption`) | one document per (ULB or State, year), a log per form | file, approve, reject, file again | `RequestExemption`; the State's own requests, those per ULB are alike |
| SFC Status (`state/sfc-status`, `pmu/sfc-status`) | one document per (State, year), history | save, submit, PMU approve and reject | `SfcStatus` |
| FC unspent declaration (`{state,pmu,mohua}/fc-unspent-declaration`) | one document per (State, year), a row per ULB, histories | save, submit; PMU and MoHUA approve or reject the form, or rows of it in bulk | `FcUnspent` |
| Elected urban local bodies (`{state,pmu}/elected-urban-local-bodies`) | one document per (State, year), a versioned dataset of one row per ULB, histories | save, submit, upload and validate an Excel file, revalidate, delete the file, edit a row, post-submission update; PMU approves or rejects the form, or rows of it | `ElectedBodies` |
| Devolution formula (`{state,pmu}/devolution-formula`) | one document per (State, year, installment), a versioned dataset of one amount per ULB, histories | save, submit, upload and validate an Excel file, revalidate, delete the file, edit a row; PMU approves or rejects the form | `DevolutionFormula` |
| GTC and its PMU review | one document per State, histories | save, submit, review | planned |
| Annual accounts (`ulb/annual_accounts`) | two sections of documents, upload history, manual-review rows, OCR jobs | upload, retry, remove, submit; decide per document or section, undo; manual review; OCR processor and cron | `AnnualStore`, `AnnualUpload`, `AnnualOcr`, `AnnualReview`; one section, they are alike |
| DUR (`ulb/dur`) | one document with two slots, upload history, validation jobs | the same, decided as a whole | `DurForm`, `DurValidation` |
| OTP login (`module/auth`) | Redis keys with TTL | send, verify, reset | planned |
| AFS digitization and its queues | documents, BullMQ jobs | enqueue, process, retry | planned |
| E-mail queue, reminders, notifications, resources and zip jobs | jobs | compose and send | no: thin queues in front of a provider |
| Masters, users, API clients, line items, form JSON, message threads | documents | create, read, update | no: single-document writes |
| Guards, throttler, validation, S3, file tokens, cache | none or external | predicates, I/O | no: pure or I/O |

`PROJECT.json` has the same list, finer, with the source files of each part.

### How the modelled parts interact

They share documents, not calls. A **batch** (`claim_letter_batches`) is one claim letter of a
(state, year, installment). A **lock** (`claim_letter_ulb_locks`, unique per ULB) stands for "this ULB is
in that batch"; it is what keeps a ULB out of two claims. A **child row** (`claim_letter_batch_ulbs`)
holds what the batch claims for one ULB. **History** rows are the audit trail. Create, edit, submit, abandon and
the cron all read the batch, check for a while, and then write through a filter on what they read;
everything that can go wrong is in the gap between the read and the filter, or in a step that no
transaction covers.

An **exemption request** excuses a State or ULB from a form; it has one entry per form and is refused once that form has
real progress. The **SFC Status** form in turn cannot be saved or submitted while its exemption is pending or
approved. Each reads the other's document, and no transaction spans the two.

The **FC unspent declaration** is written in transactions, but what a request may do it decides before them: the status of the
form, which rows wait. Inside, a save takes its rows from the snapshot of the transaction, and the last of the row decisions settles
the form by counting rows in that snapshot.

The **elected bodies** form keeps counts of its dataset (rows in error, missing ULBs, a verdict), and a submit looks at the counts and
not at the rows. Rows carry the dataset version they belong to. An upload takes the next version, puts the new rows in and the old
ones out in one transaction; a revalidation, a deletion and an edit write rows first and the counts after. PMU decides on
rows of the version it read; a returned row that is edited goes back to PMU by itself, in the middle of a review too.

The **devolution formula** is kept the same way: counts, a verdict, and the total the rows were validated against, beside versioned rows.
The total is read from the grant allocation, which others write. A draft takes over the current total, a revalidation and an edit write
rows first and the verdict after, and the submit compares the total with the grant and believes the verdict.

The SFC form, the declaration, the elected bodies and the devolution formula share no document; they are composed side by side.

An **upload** to annual accounts or DUR writes the document's entry, then a row of the upload history, then queues a job. The
*processor* takes the job to the vendor's server, waits for the answer and writes the verdict; a *cron* does the same every
five minutes for runs that are in PROCESSING when their processor is gone. A failed file may be sent to an ADMIN for
*manual review*; after an ADMIN's refusal a failure costs one of three attempts, and the last one blocks uploads for a
day. The ULB submits when every document has passed, the State decides. All of these write the same embedded
documents, each through a filter of its own. Annual accounts claim the history row before they write a verdict; DUR
filters on the id of the upload alone.

### What is hard

* Two creates choose the same slot or ULBs from older snapshots; a retried create runs beside the first.
* A build dies or hangs with a slot and locks in its hands; two clean-ups compete to take them back,
  possibly from a build that is only slow and then goes on.
* An edit deletes and re-inserts the child rows outside a transaction, undoes that on failure, and
  guards it all with a lease that may run out.
* Which batch is *the* active one is derived from `createdAt` of READY batches, not stored.
* A filing writes the whole array of entries it read, while MoHUA decides on single entries of it.
* A PMU reviewer's write is not conditional on what the reviewer read.
* Two transactions that overlap and write different rows both commit, and neither has counted the row of the other.
* Rows and the counts of them are written apart: an upload, a deletion that dies half-way, or an edit that comes late can leave a form
  whose counts say it may be submitted, or whose tally says it is decided, with rows that say otherwise.
* Upload, details save, PDF merge, edit, abandon and submit each invalidate what another has read.
* A verdict comes when the file has been replaced, retried, removed, sent to manual review or submitted since; and it
  comes twice, from the processor and from the cron, or never, when either dies.
* An upload is three writes without a transaction, the second of which may be refused: the version of a history row
  is counted and then required to be unique.

The hazards are listed with their lines in `PROJECT.json`, each with the properties that would
catch it going wrong, or with the reason why none does.

## 2. Modules

| Module | What it is |
|---|---|
| `ClaimStore` | The four collections and the writes several services share: `DeleteBuildingArtifacts`, `AbandonDraft`, `Record`, the active-batch rule. |
| `ClaimCreate` | `createDraft`, the inline reclaim, the cron, abandon, crashes. |
| `ClaimLedger` | Abstract specification: ULBs are held, published, cancelled and withdrawn whole. |
| `ClaimCreateProps` | Properties of the pipeline, and the refinement mapping to `ClaimLedger`. |
| `ClaimCreate_proofs` | Theorems about it. |
| `ClaimDraft` | The mutable fields of a READY batch, the lease, and published initial states. |
| `ClaimEdit`, `ClaimEditProps` | `updateDraft` with compensation, faults and leases; its properties. |
| `ClaimSubmit`, `ClaimSubmitProps` | Upload, details, merge, submit; their properties. |
| `ClaimDraft_proofs` | Theorems about edits and about submits, each on published batches. |
| `ClaimLetter`, `ClaimLetterProps` | All of it composed, from the empty database. |
| `ClaimLetter_proofs` | Theorems about the composition. |
| `ExemptionStore` | The exemption document, its log, the SFC form and its history. |
| `RequestExemption` | Filing, approval and rejection of exemptions, step by step. |
| `SfcStatus` | Save, submit and PMU review of the SFC form. |
| `ExemptionLife` | Abstract specification: per form, filed, decided, and after a rejection filed again. |
| `StateForms` | The two together, their properties, and the refinement mapping to `ExemptionLife`. |
| `FcUnspent` | The FC unspent declaration, its transactions, PMU and MoHUA; its properties. |
| `ElectedBodies` | The elected bodies form, its dataset, every request of the State and PMU; its properties. |
| `ElectedBodies_proofs` | Theorems about it. |
| `DevolutionFormula` | The devolution formula, its dataset, every request of the State and PMU; its properties. |
| `DevolutionFormula_proofs` | Theorems about it. |
| `ReviewedForms` | `StateForms`, `FcUnspent`, `ElectedBodies` and `DevolutionFormula` side by side. |
| `ReviewedForms_proofs` | Theorems about `StateForms` and `FcUnspent`; what is proved of each form holds of all together. |
| `ManualReview` | The rules of attempts, cooldown and manual review that annual accounts and DUR share. |
| `AnnualStore` | One section of annual accounts in the database. |
| `AnnualUpload`, `AnnualOcr`, `AnnualReview` | What ULB, queue and cron, State and ADMIN do with it. |
| `AnnualAccounts` | The three together, and their properties. |
| `AnnualAccounts_proofs` | Theorems about them. |
| `DurForm`, `DurValidation` | The DUR form; its validation runs and properties. |
| `UlbForms` | Both ULB forms: a behaviour plays a *scene* of one of them while the other rests. |
| `UlbForms_proofs` | Theorems about DUR; what is proved of each form holds of both together. |
| `MC...` | Symmetry sets, and the scenes TLC plays. |

### State and code

A batch document is named after the create request that inserts it: a request inserts at most one and
an ObjectId is not reused, so `Batch` is both the set of requests and of documents.

| Variable | Code |
|---|---|
| `batch[b]` | `ClaimLetterBatch`: `assembly` is `assemblyStatus`, `number` is `batchNumber`, `key` is `buildRequestId`, `status` is `currentFormStatus`, `content` stands for `contentHash` (the set it was computed from), `stale` for "created more than 30 minutes ago" |
| `lock[u]` | the one lock document of ULB `u` (unique index) |
| `child[b]` | ULBs with a child row of `b` |
| `history[b]` | the history rows of `b` in order |
| `req[r]` | local variables of `createDraftRaw` and what it calls; `pc` names the next awaited call |
| `sweep` | the ids the running cron sweep has read |
| `draft[b]` | `revision`, `editLockToken`, lease expired, `signedClaimFile`, letter-details version, `finalClaimPdf.sourceKey` |
| `edit[e]` | local variables of `updateDraftRaw`; `pc` names the next awaited call |
| `sub[s]`, `save[w]`, `merges` | what a submit, a details save or a merge has read |
| `signedFor[b]` | history variable: what the letter was signed for |
| `exemption[d]` | the whole-State exemption document that filing `d` inserted: `data[]` as a function of the form, `updatedAt` as a count of writes |
| `log[f]` | the log rows of form `f` in order |
| `sfc`, `sfcHistory` | the one SFC document of the State and year (unique index), with the request whose data it holds; its history rows |
| `filing[r]`, `decision[q]`, `change[q]`, `review[p]` | what a filing, a MoHUA decision, a save or submit, a PMU review has read |
| `moves` | history variable: the status changes the State's requests made |
| `fcForm`, `fcRow[u]` | the declaration (`currentFormStatus`, `isFcUnspent`) and the row of ULB `u` (unique index): `isActive`, `rowStatus`, and in `by` whose data it holds |
| `fcReq[q]` | a request: what it read; once its transaction is open, the snapshot of the rows and which documents others have written since (`missed`) |
| `fcListed`, `fcSkewed` | history variables: the ULBs of the last submit; whether two transactions that overlapped have both committed |
| `eulbForm` | the elected bodies form: `currentFormStatus`, `activeDatasetVersion`, whether there is `electedBodyExcelFile`, the stored counts (`summary`), `postSubmissionUpdates[]` (`batches`) |
| `eulbRow[v][u]` | the row of ULB `u` in dataset version `v` (unique index): `rowStatus`, whether its content is good and its stored `validationStatus` says so, the upload it came with (`from`) and who last wrote its content (`by`) |
| `eulbReq[q]` | a request: the version and status it read, its file or rows, the counts it is about to store |
| `eulbTangled` | history variable: a request of the State wrote after another one had written since it began, or stopped half-way, or rows were replaced while PMU had them |
| `dfForm` | the devolution formula: `currentFormStatus`, `activeDatasetVersion`, `totalMoHUAAllocation` (`total`), the stored counts and `validationStatus` (`summary`) |
| `dfRow[v][u]` | the row of ULB `u` in dataset version `v` (unique index): its amount, whether the values go together (`sound`), the stored verdict (`valid`), and that it was refused for an altered ULB name (`flagged`) |
| `dfGrant` | the allocation of MoHUA, written from outside |
| `dfReq[q]` | a request: the version, status and total it read, its file or row, the verdict it is about to store |
| `dfTangled` | history variable: a request wrote after another one had written since it began, or stopped half-way, or a draft took over another total beside a verdict |
| `section`, `documents` | `form_status` and `documents[]` of a section of annual accounts. Of an entry: file, OCR status and verdict, manual review, attempts, block, the State's decision |
| `history[u]`, `pending[u]` | the upload-history row of `u` (`runs`, `passes`, `fails` count what happened to it), its PENDING manual-review rows |
| `filing[u]`, `req[h]` | what the upload `u`, or another request in handler `h`, has read; `pc` is its next call |
| `worker[w]` | run `n` of upload `u`, in the processor or the cron: queued, started, its answer, what it read of the attempts |
| `durStatus`, `slot` | `currentFormStatus` and the two documents of the DUR form |
| `durFiling`, `durReq`, `queued`, `run` | its uploads, other requests, jobs in the queue, runs of processor and cron |
| `ruled`, `rulings`, `verdict` | history variables: which decisions an ADMIN made, which documents one approved, which verdicts a file had |
| `cast`, `durCast`, `fcCast`, `eulbCast`, `dfCast`, `scene` | the scene: which requests arrive, how many files, how many requests at once, whether the cron runs, whether things die |

An action is one awaited database call or one transaction, so every other process may act between two
of them. Two places are finer or coarser than that on purpose:

* the reservation transaction is two steps, the snapshot read that chooses the slot and the inserts
  with the commit, since the unique indexes decide between two transactions that are both open.
  A write conflict with an open transaction is `OpenSlotClash` and `OpenLockClash`: it may or may not occur;
* eligibility, allocation, gate and drift checks (`prepareChildren`, `assertNoDrift`) read other
  collections; each of them may pass or refuse.

What is abstracted: amounts, snapshots and evidence of a child row, the text of the letter, its
enclosures (they are fixed when a batch is published, so the key of a merge is the signed letter's path),
version numbers above one (`createNewVersion` has no caller), amounts, files and remarks of a declaration, its history rows and its
gate on the devolution formula, which can only refuse, an amount of the devolution formula to the total of its row, the content of a row of elected bodies but for its being good or bad, and form statuses other than the two a batch
is ever given. Vendor and OCR server are outside: an answer is any of pass, fail and error, or it does not come. Of an exemption entry only its status and which filing wrote it are kept, of the SFC form only
whose data it holds. What a filing asks for is any non-empty set of forms: the form configuration decides which exist.

## 3. Runs

| Run | Question | Bounds |
|---|---|---|
| `ClaimCreate_all` | Is what is published whole, with unique slots and keys and exact audit rows, and does the pipeline implement the ledger? | 2 requests, 2 ULBs, 2 keys, 2 slots, chunks of 1 |
| `ClaimCreate_resolve` | Does every build end, if the clock and the cron run? | the same with 1 slot and chunks of 2 |
| `ClaimLetter_all` | The whole letter, create to submit: is what MoHUA gets complete, as it was read and signed, one at a time, recorded once, frozen? Can a claimed ULB ever be unlocked or an update be lost, whatever step of an edit fails, crashes or is misreported? | scene *one*: the empty database, 1 create, 1 edit that fails where the code restores the draft, 1 submit; scene *two*: 2 published batches, 2 submits; both: 1 details save, 2 letters; scene *edits*: 2 published batches, 2 edits, every fault but slowness, every write misreported, but the commit only of edits that add no ULB; 2 ULBs in all |
| `ReviewedForms_all` | Do racing filings and decisions keep document and log together and to the life cycle; does anything stale reach a form under review; does PMU find what was submitted, keep what it approved, and always have a decision left? Is a dataset ever mixed of two uploads, sent on with a row nobody approved, or with amounts that do not make up the allocation? | 2 filings, 2 decisions, 2 forms (one with a progress check), 1 save, 1 submit, 1 reviewer whose requests repeat, two of them at once; declaration: 2 ULBs, 3 saves or submits, 2 requests at once; elected bodies: 2 ULBs, 5 requests of the State one after the other, or 3 of which 2 overlap; devolution formula: 2 ULBs, 2 amounts, 2 grants, every file, 5 scenes of 3 to 5 requests |
| `UlbForms_all` | Do late, doubled and lost verdicts ever pass a wrong file, count twice, or touch what is under review? Does what was submitted stay passed? | 14 scenes; annual accounts: 2 files of 1 document; DUR: 3 files for its 2 documents; 2 requests, 2 runs per file, 2 attempts |
| `DurForm_stale` | finding 5 below | 1 file of each document, 1 retry, 1 submit |
| `ClaimEdit_abandoned` | finding 2 below | 2 batches, 3 ULBs, 1 edit, no fault |
| `ClaimLetter_crash` | finding 3 below | 1 batch, 1 edit that may crash |
| `ClaimLetter_tworeviews` | finding 1 below | 2 creates, 2 submits, no edit |
| `SfcReview_stale` | finding 4 below | 1 submit, 1 save, 2 reviewers |
| `FcUnspent_skew` | finding 6 below | 2 ULBs, submits, 2 PMU reviewers at once |
| `ElectedBodies_replaced` | finding 7 below | 2 ULBs, 3 uploads or submits, one request at a time |

Why the bounds suffice for the cases at issue. Two requests are enough for every pairwise race, and the
clean-up paths are processes of their own. With two ULBs selections can be equal, disjoint or (by one
strictly in the other) overlapping, and with chunks of one a build can be caught between chunks. With one slot the second
create meets a full installment. Two edits are enough for one to take over from the other, on one batch or on two; that two batches which
claim a ULB each dispute a third takes three ULBs and is left to the proofs (`ClaimsStayLocked`, `EditsNeverLost`), which are for any number. Each edit, submit and create request
is one attempt; a retry is another request of the set. Values that never end (`clock`, `revision`) are
bounded because each is raised by a request that runs once; `MaxSaves` bounds the letter-details
version. Scene *two* of `ClaimLetter_all` starts from two published batches of which any may be abandoned already.
`ReviewedForms_all` starts with no exemption and with an SFC form that is not started or was returned once, so that a resubmission
is reached with one submit; two filings and two decisions give every race on the document and a filing after a
rejection. At most two of these requests are under way at once (the constraint `TwoAtOnce`), so that one may read and any number of others, each in turn, overtake it; that more of them overlap is left to the theorems of `ReviewedForms_proofs`, which prove each of these properties for any number. One reviewer is enough for its properties, which say nothing of what reviews do to each other; the second is in
`SfcReview_stale`. In `UlbForms_all` two files of one document are the old and the new one of every race; a third lets one DUR
document be replaced while the other stays. Two requests overlap in every pair the scenes allow. A file's second run is its retry,
and the cron stands beside either. Two retries of one file may both be begun, as in the code; that both are queued takes a third run and is left
to the theorems (`RunsSettledOnce`, `EveryStrikeIsEarned`, `DurEvidence`), which are for any number. In DUR, which claims no run, the second job of a file may
also be the second attempt the queue makes after a crash. Two attempts (three in the code) already have a first, a last and the fresh batch after the
block. The scenes are there for size only: each pairs the operations that write the same fields.
The declaration is played in two scenes: every operation, MoHUA's too, one after the other, so that a form comes back from either
reviewer and is submitted again; and the State's requests and PMU's with one other request beside them. Three saves or submits are a
submission, its correction, and one that comes late. Two ULBs are one row that waits beside one that is decided. Decisions of two
reviewers beside each other are in `FcUnspent_skew` only: what the later one does to the earlier one's rows nothing in the code
excludes, and so it is with a decision of MoHUA that comes after the next submit.
The elected bodies take five requests of the State one after the other (upload, submit, an edit of a returned row, another edit,
a post-submission update, with PMU deciding in between) and three when two overlap: one that reads, one that overtakes it, and one
that meets what they left. A dataset version is used by one upload, so there are as many versions as requests (`EulbMaxOps`).
The devolution formula has a scene in which every file meets every request one after the other; one with all requests two at a time;
and three longer ones, of upload, edit, submit and what comes between, with files of which one is whole. With grants of 2 and 4, and amounts of
1 and 3 for two ULBs, rows can make up either grant, miss it, or exceed it alone. The forms of a State are played one per scene.

Some properties of annual accounts are stated for scenes in which requests do not overlap and nobody retries (`Quiet`).
The code has no filter that would make them true otherwise: an upload, a retry and a submit check the document first
and then write by id, and the late results of several runs of one file come in any order: of three runs, one may fail the
document, so that a manual review is asked for and returned, the next pass it after an upload has been checked, which clears that
review, and the third fail it again, which opens the review anew, before the upload writes its file over it. Two runs, the
bound of `UlbForms_all`, are too few for that; the attempt to prove `ReviewedFileStays` with retries found it. That is listed under hazards, not as a finding, since no statement of the repository excludes it.
`QueueMatchesHistory` and `NoneIsStranded` also leave out processes that die, since nothing repairs what these leave between two writes.
`CHECK_DEADLOCK FALSE` is set throughout since the system rests when every request has been answered.

### Fairness

Only `BuildsResolve` needs any. Requests get none: a create may hang or its process die at every step. The clock and the cron need no client: a BUILDING document
grows old (`WF Age`), the cron's scan happens (`WF CronScan`, `@Cron` hourly). `CronStops` lets any sweep break off through
an error or restart, so `WF CronClean` would promise nothing; `SF CronClean` says that a deletion that is
attempted over and over succeeds in the end, which is what "the next sweep starts over" amounts to
when the database is not broken for good.

### Findings

Seven statements of the repository's own documents are not what the code does (`PROJECT.json`, "findings"):

1. ADR 0004 argues that two racing creates are harmless because "the older one proceeds and the newer
   one is blocked". A batch becomes active only when it is READY. If the newer one finishes first it is
   active, may be submitted, and the older one, finished later, has the earlier `createdAt`, becomes
   active in its turn and may be submitted as well.
2. `claim-letter-permissions.helpers.ts` says an abandoned batch is never editable; the two filters of
   `updateDraft` do not look at `isAbandoned`. The edit commits and the abandoned batch holds locks again.
3. ADR 0003 says a submit cannot land while the child rows are being rebuilt. After a process died in
   the middle of an edit the lease runs out, the submit is accepted, and rows are missing.
4. `xvi-fc-form-status-access.util.ts` says that a form PMU has approved is settled for that stage. The check is made
   on what was read and the write matches the document's id only, so a second reviewer can return a form after the
   first has sent it to MoHUA.
5. `dur-validation-result-writer.service.ts` says that writes scoped by `uploadId` drop a stale result. A retry may start a second
   run of the same upload while the first is under way. The first passes, the form is submitted, and the
   second fails a document the State has before it.
6. `fc-unspent-pmu-row-review-domain.service.ts` says that the form is settled "the instant every active row has a PMU decision".
   The rows are counted in the snapshot of the transaction. Two bulk decisions at once, one approving and one
   rejecting, each count the row of the other as pending; they write different documents, so both commit and neither settles the
   form. It stays before PMU with every row decided, and can be neither approved nor rejected; only a bulk call for "all that
   match", which then finds none, settles it.
7. `elected-urban-local-bodies-pmu-row-review-domain.service.ts` says that the form goes to MoHUA "when every row was approved". The tally does
   not count rows of no status, and `validateExcel` replaces rows by such rows also while PMU has the form, as long as none is approved. A
   bulk approval of all that match then finds nothing to approve, and sends the form to MoHUA with no row approved.

Limits the code accepts are visible in the configurations rather than as findings. A slow edit whose
lease was taken over can release locks another edit has committed, so `ClaimLetter_all` leaves
`"slow"` out (that no update is lost holds with slow edits too, and is proved).

Failures of an edit come in two kinds. `Faults` names the steps whose call may fail *without an effect*, and crashes; `Misreported` the
writes that may take effect and be reported as failed: the lock transaction (`"prepare"`), the commit, and, outside of any transaction and so
also in part, the deletes and inserts of rows (`"delete"`, `"undo"`, `"persist"`) and the release of locks (`"unlock"`). What the code puts back, it
puts back after failures without an effect of `"read"`, `"prepare"`, `"delete"`, `"verify"` and `"commit"` (`Restored`). A database error while the totals are read
(`"totals"`) skips the restoration of the old rows; the failures of the compensation itself (`"undo"`, `"restore"`, `"unlock"`) and of
`"persist"`, whose compensation does not first delete what a failed bulk insert left, leave rows or locks behind, and so does every
misreported write: a delete of rows that took effect in part is followed by no restore, the locks of a misreported transaction stay. A failed `"release"`
leaves only the edit lock, to its lease. `DraftIsWholeIfRestored` and `SubmittedIsWhole` are therefore about scene *one* of `ClaimLetter_all`, whose edit fails only
without an effect and where the code restores. Scene *edits* has all of these failures; what must hold there is that no claimed ULB is unlocked and that no
update is lost. That what is under review does not change, whatever a failing edit beside it leaves behind, is proved (`ReviewFrozen`).

The commit of an edit (`claim-letter-assembly.service.ts:1453`) is a case of its own. Comments there say that a removed ULB is "never free while the edit can still
fail" (:1415-1416) and that the catch blocks put back what is "persisted but unconfirmed" (:1292). They run as well when the commit took effect and the
driver reports an error for it, a case for which `createDraft` makes allowance. They then delete the committed rows, put the old ones back, and release
the locks of the ULBs the edit added (:1391), which the committed content claims; and since the commit has given the edit lock back, a submit or another edit may get in
before they are done. With `"commit"` in `Misreported` and nothing else, one batch, one edit and two ULBs, TLC finds `ClaimedStaysLocked` violated, and with a submit
`ReviewIsFrozen`. Scene *edits* therefore has this failure only for edits that add no ULB; `ClaimsStayLocked` and `ReviewFrozen` assume that there is none. That no
update is lost holds with it in any case (`EditsNeverLost`).

The DUR processor writes its verdict to slot and history at once, inside the `try` whose `catch` writes FAILED. If the history
write fails after the slot was set to PASSED, FAILED is written over it; if the process dies after that write and before the queue knows, the job is
attempted again, and the second verdict is taken like the first. Either may hit a document that was submitted since.
`DurSubmittedPassed` is therefore about scenes without failures (with either of the two alone TLC finds it violated); `DurPassedOnEvidence` holds with both.

## 4. Proofs

`ClaimCreate_proofs` proves, for every number of requests, ULBs, keys and slots and every chunk size,
from the assumptions `StoreAssumption` and `ChunkAssumption` only:

* `TypeCorrect`: `CreateSpec => []CreateTypeOK`;
* `LocksBacked`, `PublishedIsWhole`, `DistinctBatches`, `HistoryIsExact`,
  `SuccessIsReady`: the other invariants of `ClaimCreate_all`;
* `PublishedIsKept`: the action property `ReadyIsNeverLost`;
* `PipelineImplementsLedger`: `CreateSpec => Ledger!LedgerSpec`.

None of the invariants is inductive. That a batch is published whole rests on what the request
has verified: at `finalize` its rows are the selection *and nobody else ever writes them*; that no
reclaim hits it rests on `DeleteBuildingArtifacts` matching BUILDING in the very step that deletes, and on
only the request itself turning its document READY. `CreateInv` therefore adds to the properties
`Consistent`, one clause per request relating its program counter to its document (nothing before the
reservation; BUILDING or deleted after it, and while it is BUILDING its key and all its locks; all its rows once
they are verified; READY only when the request is done or about to learn it; and a success answer only for a READY
document of its key), and two facts on documents (only READY ones are abandoned or have content).

The step proof is organised by *writes*: of the twenty-odd actions only reserve, persist, finalize, delete,
abandon and age change the store, so each of these has one lemma (`...Keeps`) that says what it preserves for all
requests, and `RequestKeepsInv` has one step per action that cites them. The refinement goes the same way: each write
lemma (`...Maps`) says which ledger step it is.

`ReviewedForms_proofs` proves every property that `ReviewedForms_all` checks of exemptions and the SFC form, and that there is one exemption document (`OneDocument`), for any forms and any number of filings, decisions,
saves, submits and reviewers (two and more of them too), from `ExemptionAssumption`: `FormsTypeCorrect`,
`LogIsExact`, `HistoryTrue`, `ReviewFrozen`, and `LogImplementsLife`: `StateFormsSpec => Life!LifeSpec`.

`LogTellsEntries` is not inductive: a filing overwrites all entries with what it has read. `ExemptionInv` adds, per
filing, that it holds the entries of the document *if* it holds its `updatedAt`, and that its own forms could be filed
when it read them. So a filing that passes the filter writes over what it read; one that found no
document writes only if there is still none, hence no log. A write raises `updatedAt` above all that anybody has
read (`WriteKeepsReaders`). `Tells` states, on a sequence of rows alone, what log and entry have to do with each other, with a
lemma for each kind of row. `SfcInv` adds that what a save or submit has read was editable.

`ClaimDraft_proofs` proves of `EditSpec`, for any batches, ULBs and edits, from `StoreAssumption`: `EditTypeCorrect`; `EditsNeverLost`, that is
`NoLostUpdate` for *every* set of faults and misreported writes, slow edits and misreported commits included; and `ClaimsStayLocked`, that is `ClaimedStaysLocked` when edits are
not slow (`"slow" \notin Faults`), since only then is an edit alone while it works, and no commit is misreported (`"commit" \notin Misreported`), since
a commit gives the edit lock back and its undoing frees what it claims. The other writes may be misreported.

An edit that holds the lock's token knows the revision (`TokenKnowsRevision`), however late it is; whoever
takes the lease over also takes the token. That is all `NoLostUpdate` needs. `ClaimInv` is `WorkerHoldsLease` (an edit past its
lock owns the lease), `ClaimedStaysLocked`, `AddedIsUnclaimed` (what an edit has locked anew is claimed by no one: the
compensation may release it) and `VerifiedIsLocked` (what it verified is locked for its batch, so the commit may claim it).
Steps are sorted by the writes they make (`OwnStep`, `LockFreeStep`); adding locks, releasing them, committing, taking the lease
and abandoning have one lemma each.

It also proves `SubmittedArtifacts`, `AtMostOneUnderReview`, `SubmitAuditTrail` and `SignedLetterIsCurrent`, and the
types, of `SubmitSpec`: any number of batches that are published (some abandoned), and of submits, saves, uploads, merges and
abandons on them, from `StoreAssumption` and `DraftAssumption`; no create and no edit runs. A submit checks that its batch is the active
one in one step and commits in another, and the commit does not ask again. So the invariant (`SubmitInv`) needs
`PassedIsActive`: what passed the check stays the active batch until it is abandoned. The check itself says only that no *other*
batch is active; that one is active follows because the naturals have no infinite descent (`SomeBatchIsActive`). A batch that
passed is the earliest, an abandon makes none earlier, and the filter of the commit excludes an abandoned one. A create still
running is what breaks it: it publishes a batch that is earlier (finding 1).

`ClaimLetter_proofs` proves of `LetterSpec`, where creates, reclaims, the cron, edits, saves, uploads, merges, submits and abandons run side by side
from the empty database, for any number of each, from the assumptions of the modules it composes:

* under *all* faults, slow edits, crashes and misreported writes included: `LetterTypeCorrect`, `LettersStayCurrent` (`SignedLetterIsCurrent`),
  `SubmittedStayComplete` (`SubmittedArtifacts`), `LetterHistoryIsExact` (`SubmitAuditTrail`);
* where no edit outlives its lease and no commit of one is misreported (`"slow" \notin Faults`, `"commit" \notin Misreported`; any step may fail, any edit may die, any
  other write may be misreported): `ReviewFrozen` (`ReviewIsFrozen`) and `ClaimsStayLockedBesideCreates` (`ClaimedStaysLocked`);
* where moreover edits fail only without an effect (`Misreported = {}`), and in steps the code restores from, or in giving the edit lock back (`Faults \subseteq Restored \cup {"release"}`):
  `SubmittedWhole` (`SubmittedIsWhole`), and `UnheldDraftsStayWhole` (`DraftIsWhole`);
* of `ScenesSpec`, where only the edit of scene *one* is so limited: `DraftsWhole` (`DraftIsWholeIfRestored`).

The hypotheses on `Faults` and `Misreported` are as weak as the code allows. With one batch and two edits TLC finds a counterexample to `ReviewIsFrozen` and to
`ClaimedStaysLocked` with `"slow"` as the only fault and with `"commit"` as the only misreported write, and to `SubmittedIsWhole` and `DraftIsWhole` with each one of `"persist"`, `"totals"`, `"undo"`, `"restore"`,
`"unlock"` and `"crash"` as the only fault, or with each misreported write as the only one (see the limits in section 3).

The invariant of the create pipeline does not survive the composition. It says that a lock is backed by a row of a live batch, and an edit that began before an abandon
locks ULBs for a draft that is abandoned by then. What creates really *rely on* survives: `Creates` (the clause `Consistent` of every request) and
`LocksName` (a lock names a document that exists), which is why `ClaimCreate_proofs` proves the two apart from the rest (`RequestRelies`). `LetterInv` adds that nothing has
touched a batch before it is published (`Unpublished`), that edits, submits and merges are of published ones (`EditsOnReady`, `SubmitsOnReady`), and the promises of the submit
(`PromiseInv`). Each step writes the documents of one batch, and of which kind says enough of it: the create pipeline an unpublished one (`UnpublishedStep`), an edit a
published one whose audit rows and status stay (`EditedDraft`), a submit, save, upload or merge one whose ULBs, rows and locks stay and which is not under review
(`LockedDraft`). So each pair of parts meets in one lemma (`UnpublishedKeepsLeases`, `EditedKeepsPromise`, `LockedKeepsLeases`, ...) instead of one per pair of actions.

`LeaseInv` is `ClaimInv` of the edits and, of a batch under review, that it is not abandoned and its lease is free. As an edit at work holds the lease, none works on what is
under review: that is `ReviewFrozen`. `WholeInv` says how far the one edit at work on a live draft is: at each program counter (`Progress`) which rows and locks there
are, against the content of the batch, what the edit was asked for and what it found. `Commit` finds all it was asked for in rows and locks; every way back, through `undo`, `restore` and
`unlock`, ends with what it found. A draft without an edit is whole, and the filter of the submit asks for just that: no edit lock, or an expired one, which without slow
edits is the lock of an edit that has ended.

Of the declaration `ReviewedForms_proofs` proves, for any ULBs, requests and scenes, from `FcAssumption`: `FcTypeCorrect`; `ApprovedAreKept`, that is
`ApprovedRowsAreKept` however many late saves and submits overlap; `PmuDecides`, that is `PmuCanDecideUnlessSkewed` when MoHUA has
no request (`WithoutMohua`; the hazards say why it is left out); and `ReviewOfTheSubmit`, that is `ReviewIsOfTheSubmit` in
`CalmScenes`, where any number of late saves and submits overlap with one reviewer of PMU, or, with MoHUA too, nothing overlaps.
With two reviewers it is false: one of them may decide on a row as it was in an earlier round (the hazard of `FcUnspent_skew`).

All of it rests on `SnapshotsAreCurrent`: what an open transaction has not missed, its snapshot shows as it is. A commit writes
only what it has not missed, so a save decides on a row as that row is (`WritesAreCurrent`), although its check of the form may be
long past. For `PmuDecides`, a transaction that commits while nothing is skewed has missed nothing at all
(`UnskewedIsCurrent`). What it counts are then the rows themselves. A submit that leaves no row waiting leaves only approved
ones or none (`SubmitIsDecidable`), and after a decision either a row waits or the form is settled (`DecisionIsSettled`).

For `ReviewOfTheSubmit` the invariant (`TableInv`) adds that reviews are calm (`ReviewsAreCalm`), that the rows a reviewer has
loaded wait for it until it commits (`LoadedRowsWait`), that the transaction of a save or submit which has missed none of another sees
which rows are active, and as approved what is (`SubmitSeesRows`), and that only a Yes lists ULBs (`ListedWithYes`).

`ElectedBodies_proofs` proves, for any ULBs, requests and scenes, from `EulbAssumption`: `EulbTypeCorrect`; `OneDataset`, that is
`DatasetIsWhole` however uploads, revalidations, deletions and edits overlap; `ApprovedRowsChange`, that is
`ApprovedRowsChangeOnRecord`; and `ApprovedRows`, that is `ApprovedRowByRowUnlessTangled`. For `DatasetIsWhole` it shows that only `ReplaceDataset` puts rows where there were none, and that
what it leaves are its own (`ReplacesWhole`, `StayWhole`). `ApprovedRowsChangeOnRecord` is not inductive: a request may write what it read
long ago. `EulbInv` adds what relates an open request to the rows: no request reads a version beyond the current one (`ReadsActive`); PMU has one
request at a time (`OneReview`), and the rows it has loaded are still pending when it commits (`DecidesPending`); the row an edit has read
is still open to the State, as long as the State has not written since (`EditsEditable`). What the State's writes leave of
pending rows stays pending or goes (`PendingStaysOrGoes`), and each of them makes the other requests stale.

That PMU and MoHUA find a row for every ULB rests on the stored counts, which a submit trusts: `finalSubmit` never looks at the rows.
`RowByRowInv` says that as long as nothing is tangled the counts are those of the rows, except while these are being deleted
(`CountsTell`), that rows are submitted all at once, so that one which was returned shows that every ULB has one that is or was in review
(`MarkedTogether`; the edit of a returned row reopens the form without looking at the others), that PMU reviews such rows (`ReviewsMarked`), and
that a request which no other has overtaken still knows what it has read (`FreshKnow`). Most writes leave which rows are there and
which are marked (`KeepsMarks`, `WriteKeepsRowByRow`); submits, new datasets, deletions and decisions have a lemma each.

`DevolutionFormula_proofs` proves, for any ULBs, amounts, grants, requests and scenes, from `DfAssumption` and `DfCastsAssumption`:
`DfTypeCorrect`; `DfOneDataset`, that is `DfDatasetIsWhole` however the requests overlap, along the same lines (`DfReplacesWhole`, `DfStayWhole`);
and `AllocationAddsUp`, that is `DfAddsUpUnlessTangled`. Its invariant (`AddsUpInv`) says, while nothing is tangled: the stored verdict is that of the
rows unless a request is between its two writes (`VerdictTells`), and then the form was not submitted (`SubmittedIsValid`); the stored count of
missing ULBs is true of the rows there are (`MissingTells`; an edit takes it over without looking); no row in error is stored as valid
(`JudgedRight`); a request that no other has overtaken knows what is there (`FreshDfKnow`), and while one is half-way no other one is fresh
(`FreshIsAlone`). Whether or not anything is tangled, a draft has read that the form is open to the State (`DraftsEditable`), and an upload establishes all of it anew from
its file (`UploadAddsUp`). What a valid file or a valid count means for the sum is two lemmas (`ValidFileMakesUp`, `ValidRowsMakeUp`); the sum itself is never
computed, only that it is taken of the same amounts.

`ReviewedForms_proofs` also carries these over to the composition: a behaviour of `FormsSpec` is one of `StateFormsSpec`, `FcSpec`, `EulbSpec` and `DfSpec`
(`BehavesAsStateForms`, `BehavesAsFcUnspent`, `BehavesAsElectedBodies`, `BehavesAsDevolutionFormula`), and so well typed (`AllFormsTypeCorrect`) and with
whole datasets (`DatasetsWhole`).

`AnnualAccounts_proofs` proves, for any documents and any number of uploads, requests and OCR runs in any scene, from
`UploadAssumption`, `CastAssumption` and `MaxAttemptsAssumption`: `AnnualTypeCorrect`; `RunsSettledOnce`, that is `SettledOncePerRun`; `PassedByItsFile`, that
is `PassedOnEvidence`; and `EveryStrikeIsEarned`, that is `StrikesAreEarned`. Types alone are not inductive, since every request
writes by a docId or an upload that it read before: `AnnualTypeInv` adds that entries never go, so that what a request has read is
still there (`RequestInv`), that a row comes after its entry (`RowInv`), and that only recorded uploads are run (`WorkerInv`).

That a run is settled once is `RunsInv`: a row in PROCESSING has an unsettled run, also when two retries of an upload overlap, each of which
puts the row to PROCESSING and queues a run. For the evidence, a run that is about to write PASS has seen *its own upload* pass, and the write goes
to entries of that upload (`EvidenceInv`); a late PASS of a replaced file finds none. A strike is counted in three steps of a worker
(claim the row, read the strikes, write them), with other workers, uploads and reviews in between, so `StrikesInv` counts: each
strike of a document, or that a worker holds, and each worker that has claimed a failure and has yet to read the strikes
(`Claims`) has a failed run of its own (`StrikesOf`). The step proofs are sorted by what a step does to a row (`RowMoves`),
to an entry (`EntryMoves`) and to a worker (`WorkerMoves`), with one lemma per kind of move.

The properties of `Quiet` scenes are theorems as well: `ReviewedStays` (`ReviewedFileStays`), `ApprovedSections` (`ApprovedIsWhole`), `QueueAgrees`
(`QueueMatchesHistory`) and `NoneStranded` (`NoneIsStranded`). In these scenes requests take turns, while runs of any number of files, the current
and replaced ones, still end in any order next to them. `QuietInv` says what that leaves true: one request is open and none is a
retry (`OneAtATime`, which comes from the bound on open requests in `Start`, not from the property); a row is claimed by one worker, and once it
has left PROCESSING it does not come back (`OneClaim`); a document has one entry, so that a filter by docId finds it
(`OneEntry`); what passed or has a verdict has no result to come (`VerdictStands`), so that a late run can neither clear nor open a
review; and what an open request has read of its entry still holds when it writes (`ReadsHold`). Each further property adds what it needs:

- `SectionInv`: an upload, a removal or a submit is open only while the ULB may edit the section, and a submit only while every document has
  passed; a State decision has seen the present clock, so that no upload is later than it; a section is approved only by a request under which every
  document is approved, alone or along with it (`Approving`). `TimesInv` adds that no upload is ahead of the clock.
- `QueueInv`: an upload has one PENDING row while its entry awaits the ADMIN and none otherwise, except between the two writes of a request or
  a decision, when the open request (`RowToWrite`) owes the difference.
- `StrandInv`: an upload's version is free when its row is written, since it is one more than the rows of its document
  (`VersionsInv`); a run has left in the row what the cron looks for (`RunsTell`); and the result of the file in an entry is still
  to come (`Coming`), from a request that has yet to queue it, a worker, or the cron.

`UlbForms_proofs` proves of the utilisation report, in the same generality, from `DurAssumption` and `MaxAttemptsAssumption`: `DurTypeCorrect`; `DurEvidence`,
that is `DurPassedOnEvidence`; and `DurSubmitted`, that is `DurSubmittedPassed`. A version is bounded by the uploads that have arrived (`DurVersionsInv`). `DurSubmittedPassed` speaks of scenes without overlap, retries, cron and failures; the invariant (`DurPlainInv`) says of these that one request is open at a
time, that a job is queued only for an upload whose request is over and at most the last one is not over (`DurOneRun`), that a document which passed or has a verdict is not
validated any more (`DurVerdictStands`), so that no late verdict can reach it, and that while the State has the form no upload is under way
(`DurWithState`). `DurForm_stale` is what happens with a retry; what failures around the write of a verdict do is said in section 3. `BehavesAsAnnualAccounts` and `BehavesAsDur` carry all of this to `UlbFormsSpec`.

Only model-checked: liveness (`BuildsResolve`), which rests on fairness and is out of the prover's reach. Of `ScenesSpec` as such only `DraftIsWholeIfRestored` is
proved; the other properties of `ClaimLetter_all` are proved of `LetterSpec`, `EditSpec` and `SubmitSpec`, the behaviours of its scenes *one*, *edits* and *two*.
`AtMostOneUnderReview` is a theorem of `SubmitSpec` alone: with a create still running it is false (finding 1).

## 5. Plan

1. *(done)* `ClaimStore`, `ClaimCreate` with its abstract ledger and proofs; `ClaimDraft`, `ClaimEdit`,
   `ClaimSubmit`; their composition `ClaimLetter`; proofs about the edit.
2. *(done)* `RequestExemption`, `SfcStatus` and their composition with the life cycle they implement.
   All its properties are theorems. To come: the per-ULB request, with annual accounts and elected bodies as targets.
3. *(done)* `UlbForms`: annual accounts and DUR between uploads, queue, cron and reviews.
4. *(done)* `FcUnspent`: a State form with ULB rows between save, submit, PMU and MoHUA; `ElectedBodies`: the same reviews on a versioned dataset;
   `DevolutionFormula`: a dataset whose amounts have to add up.
5. *(done)* Theorems about the submit (`SubmittedArtifacts`, `SubmitAuditTrail`, `AtMostOneUnderReview` for published batches).
6. *(done)* Theorems about annual accounts, with overlap (`SettledOncePerRun`, `PassedOnEvidence`, `StrikesAreEarned`) and without (`ReviewedFileStays`,
   `ApprovedIsWhole`, `QueueMatchesHistory`, `NoneIsStranded`), about DUR and about the devolution formula, and about the composition `ClaimLetter`.
7. OTP in Redis; the digitization queue.

### Not modelled

Of the elected bodies: changes of the ULB registry and of the date while the form is filled (a revalidation deletes rows of ULBs that left the
registry), the dates that make a row eligible for the post-submission update, the histories (no action reads them), the signed file,
error sheets and worklists. MoHUA has no review of this form yet.

Of the devolution formula: changes of the ULB registry, the edit lock of an active claim, which only refuses, the histories, the file and error sheets,
worklists and the Excel that is written.

Of annual accounts and DUR: lists, downloads, previews, the form log, reminders and notifications (nothing reads them back);
the bulk operations, which are loops over single ones; progress counters of a running job; documents that need no OCR;
exemption stubs. MoHUA's decision on annual accounts is not modelled because no code moves a section past
`APPROVED_BY_STATE`. The parts marked *no* in the inventory keep no state of their own, write single
documents, or are I/O.

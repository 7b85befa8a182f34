----------------------------- MODULE DocumentOcr -----------------------------
(***************************************************************************)
(* The identity document of one application and its OCR: uploads that       *)
(* replace each other, the jobs that read them, and the parent's page, which *)
(* polls for the result and fills its fields in (registrations/views.py,    *)
(* registrations/services.py, integrations/tasks.py, async_upload.js).      *)
(*                                                                         *)
(* A job loads the document and its application once, before the provider's *)
(* long call. Requests that write the application are one step here;        *)
(* ApplicationReview interleaves those.                                    *)
(***************************************************************************)
EXTENDS Naturals, FiniteSets

CONSTANTS
    Scans,        \* ids of Document rows of one kind
    NoScan,
    Uploads,      \* upload requests that may be under way
    OcrJobs,      \* slots for queued or running OCR jobs
    OcrAttempts,  \* max_attempts of the cluster
    MaxKills      \* bound: jobs that die in a behaviour

ASSUME OcrAssumption ==
    /\ NoScan \notin Scans
    /\ OcrAttempts \in Nat \ {0}
    /\ MaxKills \in Nat

VARIABLES
    form,     \* the RegistrationApplication row
    scans,    \* Document rows
    uploading, \* the upload requests
    ocr,      \* ocr_extract_job deliveries
    page,     \* the workspace in the parent's browser
    kills     \* history: jobs that died

ocrVars == <<form, scans, uploading, ocr, page, kills>>

-----------------------------------------------------------------------------
(* Types *)

FormStatus == {"draft", "submitted", "fix_requested"}

\* read: field_sources says that the child's fields come from the OCR. The
\* other entries of field_sources are left out.
Form == [status : FormStatus, read : BOOLEAN]

OcrStatus == {"pending", "completed", "failed"}

\* deleted: soft-deleted; purged: the row is gone. copied: made by the reuse of
\* an earlier application's document. unread: history, a job gave up on it
\* because of its file or the encryption.
Scan == [row : {"none", "active", "deleted", "purged"}, status : OcrStatus, extracted : BOOLEAN,
         copied : BOOLEAN, unread : BOOLEAN]

JobPc == {"free", "queued", "called", "extracted", "marked"}

OcrTypeOK ==
    /\ form \in Form
    /\ scans \in [Scans -> Scan]
    /\ uploading \in [Uploads -> [at : {"idle", "replacing", "created"}, scan : Scans \cup {NoScan}]]
    /\ ocr \in [OcrJobs -> [at : JobPc, scan : Scans \cup {NoScan},
                            attempts : 0 .. (OcrAttempts - 1), seen : FormStatus]]
    /\ page \in [field : {"empty", "typed"} \cup Scans, chip : Scans \cup {NoScan},
                 polls : SUBSET Scans]
    /\ kills \in 0 .. MaxKills

BlankForm == [status |-> "draft", read |-> FALSE]
NoRowYet == [row |-> "none", status |-> "pending", extracted |-> FALSE, copied |-> FALSE,
             unread |-> FALSE]
NoUpload == [at |-> "idle", scan |-> NoScan]
FreeSlot == [at |-> "free", scan |-> NoScan, attempts |-> 0, seen |-> "draft"]

OcrInit ==
    /\ form = BlankForm
    /\ scans = [d \in Scans |-> NoRowYet]
    /\ uploading = [u \in Uploads |-> NoUpload]
    /\ ocr = [j \in OcrJobs |-> FreeSlot]
    /\ page = [field |-> "empty", chip |-> NoScan, polls |-> {}]
    /\ kills = 0

Active == {d \in Scans : scans[d].row = "active"}
Unused == {d \in Scans : scans[d].row = "none"}
Gone(d) == scans[d].row = "purged"

JobsOf(d) == {j \in OcrJobs : ocr[j].at # "free" /\ ocr[j].scan = d}

\* enqueue_ocr_job.
Enqueue(d) ==
    \E j \in OcrJobs :
        /\ ocr[j].at = "free"
        /\ ocr' = [ocr EXCEPT ![j] = [FreeSlot EXCEPT !.at = "queued", !.scan = d]]

-----------------------------------------------------------------------------
(* Upload: async_document_upload, and _handle_document_upload of a form POST *)

\* The first active row of the kind is soft-deleted; the status of the
\* application is not looked at.
ReplaceScan(u) ==
    /\ uploading[u].at = "idle"
    /\ IF Active = {} THEN UNCHANGED scans
       ELSE \E d \in Active : scans' = [scans EXCEPT ![d].row = "deleted"]
    /\ uploading' = [uploading EXCEPT ![u].at = "replacing"]
    /\ UNCHANGED <<form, ocr, page, kills>>

CreateScan(u) ==
    /\ uploading[u].at = "replacing"
    /\ \E d \in Unused :
          /\ scans' = [scans EXCEPT ![d].row = "active"]
          /\ uploading' = [uploading EXCEPT ![u] = [at |-> "created", scan |-> d]]
    /\ UNCHANGED <<form, ocr, page, kills>>

\* The job is queued and the page told which document to poll.
AnswerUpload(u) ==
    /\ uploading[u].at = "created"
    /\ Enqueue(uploading[u].scan)
    /\ page' = [page EXCEPT !.polls = @ \cup {uploading[u].scan}]
    /\ uploading' = [uploading EXCEPT ![u] = NoUpload]
    /\ UNCHANGED <<form, scans, kills>>

UploadEnds(u) ==
    /\ uploading[u].at # "idle"
    /\ uploading' = [uploading EXCEPT ![u] = NoUpload]
    /\ UNCHANGED <<form, scans, ocr, page, kills>>

\* _handle_guardian_doc_reuse, in a draft save: an application without an active
\* document gets a copy of the family's latest one, status and extraction along;
\* no job is queued for the copy.
ReuseScan(status, extracted) ==
    /\ form.status \in {"draft", "fix_requested"}
    /\ Active = {}
    /\ \E d \in Unused : scans' = [scans EXCEPT ![d] =
          [row |-> "active", status |-> status, extracted |-> extracted, copied |-> TRUE,
           unread |-> FALSE]]
    /\ form' = [form EXCEPT !.read = extracted]
    /\ UNCHANGED <<uploading, ocr, page, kills>>

\* DocumentAdmin.re_run_ocr, on any row of the changelist.
RerunOcr(d) ==
    /\ scans[d].row \in {"active", "deleted"}
    /\ scans' = [scans EXCEPT ![d].status = "pending", ![d].unread = FALSE]
    /\ Enqueue(d)
    /\ UNCHANGED <<form, uploading, page, kills>>

\* DocumentAdmin.delete_model: the row and its extraction are gone.
PurgeScan(d) ==
    /\ scans[d].row \in {"active", "deleted"}
    /\ scans' = [scans EXCEPT ![d].row = "purged", ![d].extracted = FALSE, ![d].unread = FALSE]
    /\ UNCHANGED <<form, uploading, ocr, page, kills>>

-----------------------------------------------------------------------------
(* ocr_extract_job *)

\* Variant: one attempt more than max_attempts.
RaiseOnceMore(j) ==
    ocr' = [ocr EXCEPT ![j] =
        IF ocr[j].attempts < OcrAttempts
        THEN [FreeSlot EXCEPT !.at = "queued", !.scan = ocr[j].scan,
                              !.attempts = ocr[j].attempts + 1]
        ELSE FreeSlot]

\* A raise counts an attempt; the last one leaves the queue for good.
RaiseIn(j) ==
    ocr' = [ocr EXCEPT ![j] =
        IF ocr[j].attempts + 1 < OcrAttempts
        THEN [FreeSlot EXCEPT !.at = "queued", !.scan = ocr[j].scan,
                              !.attempts = ocr[j].attempts + 1]
        ELSE FreeSlot]

Mark(d, status) == scans' = [scans EXCEPT ![d].status = status, ![d].unread = FALSE]

\* Variant: the document is marked before its extraction is inserted.
MarkEarly(j) ==
    /\ ocr[j].at = "queued"
    /\ Mark(ocr[j].scan, "completed")
    /\ ocr' = [ocr EXCEPT ![j].at = "called", ![j].seen = form.status]
    /\ UNCHANGED <<form, uploading, page, kills>>

LoadScan(j) ==
    /\ ocr[j].at = "queued"
    /\ ocr' = IF Gone(ocr[j].scan) THEN [ocr EXCEPT ![j] = FreeSlot]
              ELSE [ocr EXCEPT ![j].at = "called", ![j].seen = form.status]
    /\ UNCHANGED <<form, scans, uploading, page, kills>>

\* The file cannot be opened, or the result not be encrypted: neither is inside
\* safe_extract_document_data, so the raise is saved nowhere.
FileRaises(j) ==
    /\ ocr[j].at \in {"queued", "called"}
    /\ ~Gone(ocr[j].scan)
    /\ RaiseIn(j)
    /\ scans' = [scans EXCEPT ![ocr[j].scan].unread = @ \/ ocr[j].attempts + 1 = OcrAttempts]
    /\ UNCHANGED <<form, uploading, page, kills>>

\* Variant: a failure raises before it is saved.
FailureUnsaved(j, transient) ==
    /\ ocr[j].at = "called"
    /\ RaiseIn(j)
    /\ UNCHANGED <<form, scans, uploading, page, kills>>

\* A classified failure is saved; transient ones raise to be tried again.
ProviderFails(j, transient) ==
    /\ ocr[j].at = "called"
    /\ ~Gone(ocr[j].scan)
    /\ Mark(ocr[j].scan, "failed")
    /\ IF transient THEN RaiseIn(j) ELSE ocr' = [ocr EXCEPT ![j] = FreeSlot]
    /\ UNCHANGED <<form, uploading, page, kills>>

\* A document deleted meanwhile cannot be saved, nor its extraction inserted.
SaveLost(j) ==
    /\ ocr[j].at \in {"called", "extracted"}
    /\ Gone(ocr[j].scan)
    /\ RaiseIn(j)
    /\ UNCHANGED <<form, scans, uploading, page, kills>>

\* The extraction is inserted, one per document,
SaveExtraction(j) ==
    /\ ocr[j].at = "called"
    /\ ~Gone(ocr[j].scan)
    /\ ~scans[ocr[j].scan].extracted
    /\ scans' = [scans EXCEPT ![ocr[j].scan].extracted = TRUE]
    /\ ocr' = [ocr EXCEPT ![j].at = "extracted"]
    /\ UNCHANGED <<form, uploading, page, kills>>

\* or there is one already and the IntegrityError is raised.
ExtractionTaken(j) ==
    /\ ocr[j].at = "called"
    /\ scans[ocr[j].scan].extracted
    /\ RaiseIn(j)
    /\ UNCHANGED <<form, scans, uploading, page, kills>>

MarkCompleted(j) ==
    /\ ocr[j].at = "extracted"
    /\ ~Gone(ocr[j].scan)
    /\ Mark(ocr[j].scan, "completed")
    /\ ocr' = [ocr EXCEPT ![j].at = "marked"]
    /\ UNCHANGED <<form, uploading, page, kills>>

\* Variant: the status of the application is not asked.
ApplyAnyway(j) ==
    /\ ocr[j].at = "marked"
    /\ form' = [form EXCEPT !.read = TRUE]
    /\ ocr' = [ocr EXCEPT ![j] = FreeSlot]
    /\ UNCHANGED <<scans, uploading, page, kills>>

\* _apply_field_sources, to the application as it was loaded.
ApplySources(j) ==
    /\ ocr[j].at = "marked"
    /\ form' = IF ocr[j].seen = "draft" THEN [form EXCEPT !.read = TRUE] ELSE form
    /\ ocr' = [ocr EXCEPT ![j] = FreeSlot]
    /\ UNCHANGED <<scans, uploading, page, kills>>

\* A killed worker counts no attempt: the job is delivered again.
KillJob(j) ==
    /\ ocr[j].at \in JobPc \ {"free", "queued"}
    /\ kills < MaxKills
    /\ kills' = kills + 1
    /\ ocr' = [ocr EXCEPT ![j] = [FreeSlot EXCEPT !.at = "queued", !.scan = ocr[j].scan,
                                                  !.attempts = ocr[j].attempts]]
    /\ UNCHANGED <<form, scans, uploading, page>>

-----------------------------------------------------------------------------
(* The parent's page, and the application *)

TypeField(text) ==
    /\ page' = [page EXCEPT !.field = text]
    /\ UNCHANGED <<form, scans, uploading, ocr, kills>>

\* The suggestion chip is accepted.
AcceptChip ==
    /\ page.chip # NoScan
    /\ page' = [page EXCEPT !.field = page.chip, !.chip = NoScan]
    /\ UNCHANGED <<form, scans, uploading, ocr, kills>>

DismissChip ==
    /\ page.chip # NoScan
    /\ page' = [page EXCEPT !.chip = NoScan]
    /\ UNCHANGED <<form, scans, uploading, ocr, kills>>

\* The workspace is opened again: pending documents are polled.
LoadPage ==
    /\ page' = [page EXCEPT !.chip = NoScan, !.polls = {d \in Active : scans[d].status = "pending"}]
    /\ UNCHANGED <<form, scans, uploading, ocr, kills>>

\* Variant: what was read replaces whatever is there.
FillAnyway(d) == [page EXCEPT !.field = d]

\* classifyFieldAction: prefill, nothing, or suggest.
Fill(d) ==
    CASE page.field = "empty" -> [page EXCEPT !.field = d]
      [] page.field = d       -> page
      [] OTHER                -> [page EXCEPT !.chip = d]

\* pollStatus, answered once the document is no longer pending. Whether the
\* document has been replaced meanwhile is not asked.
PollAnswered(d) ==
    /\ d \in page.polls
    /\ ~Gone(d)
    /\ scans[d].status # "pending"
    /\ LET filled == IF scans[d].status = "completed" /\ scans[d].extracted THEN Fill(d) ELSE page
       IN page' = [filled EXCEPT !.polls = page.polls \ {d}]
    /\ UNCHANGED <<form, scans, uploading, ocr, kills>>

\* The deadline has passed.
PollGivesUp(d) ==
    /\ d \in page.polls
    /\ page' = [page EXCEPT !.polls = @ \ {d}]
    /\ UNCHANGED <<form, scans, uploading, ocr, kills>>

\* submit_application needs an active document, in any OCR state.
SubmitForm ==
    /\ form.status \in {"draft", "fix_requested"}
    /\ Active # {}
    /\ form' = [form EXCEPT !.status = "submitted"]
    /\ UNCHANGED <<scans, uploading, ocr, page, kills>>

RequestFix ==
    /\ form.status = "submitted"
    /\ form' = [form EXCEPT !.status = "fix_requested"]
    /\ UNCHANGED <<scans, uploading, ocr, page, kills>>

-----------------------------------------------------------------------------

OcrJobStep(j) ==
    \/ LoadScan(j)
    \/ FileRaises(j)
    \/ \E transient \in BOOLEAN : ProviderFails(j, transient)
    \/ SaveLost(j)
    \/ SaveExtraction(j)
    \/ ExtractionTaken(j)
    \/ MarkCompleted(j)
    \/ ApplySources(j)

OcrNext ==
    \/ \E u \in Uploads :
          \/ ReplaceScan(u)
          \/ CreateScan(u)
          \/ AnswerUpload(u)
          \/ UploadEnds(u)
    \/ \E status \in OcrStatus, extracted \in BOOLEAN :
          /\ status = "completed" => extracted
          /\ ReuseScan(status, extracted)
    \/ \E d \in Scans :
          \/ RerunOcr(d)
          \/ PurgeScan(d)
          \/ PollAnswered(d)
          \/ PollGivesUp(d)
    \/ \E j \in OcrJobs : OcrJobStep(j) \/ KillJob(j)
    \/ \E text \in {"empty", "typed"} : TypeField(text)
    \/ AcceptChip
    \/ DismissChip
    \/ LoadPage
    \/ SubmitForm
    \/ RequestFix

OcrFairness == \A j \in OcrJobs : WF_ocrVars(OcrJobStep(j))

OcrSpec == OcrInit /\ [][OcrNext]_ocrVars /\ OcrFairness

-----------------------------------------------------------------------------
(* Properties *)

\* A document that was uploaded here and is marked completed has its
\* extraction, wherever a job died (integrations/tasks.py:136-154).
CompletedHasExtraction ==
    \A d \in Scans :
        (scans[d].row \in {"active", "deleted"} /\ scans[d].status = "completed" /\ ~scans[d].copied)
            => scans[d].extracted

\* What the parent has typed stays until the parent changes it or accepts the
\* suggestion, in whichever order uploads, jobs and polls are answered
\* (async_upload.js:176-183, :303-317).
TypedKept ==
    [][(page.field = "typed" /\ page'.field \notin {"typed", "empty"})
          => page'.field = page.chip]_page

\* A document with a job and no extraction does not stay pending: it fails or
\* is read (integrations/tasks.py:109-116), unless the last attempt of a job
\* could not open its file or encrypt the result (:99, :118), which leaves it
\* pending without a job.
PendingScanSettles ==
    \A d \in Scans :
        (scans[d].status = "pending" /\ ~scans[d].extracted /\ JobsOf(d) # {})
            ~> \/ scans[d].status # "pending" \/ scans[d].extracted \/ Gone(d)
               \/ scans[d].unread /\ JobsOf(d) = {}

\* Once the application leaves DRAFT its captured data is frozen: late jobs
\* must not touch field_sources (integrations/tasks.py:162-167).
FrozenAfterSubmit ==
    [][(form.status = "submitted" /\ form'.status = "submitted")
          => form'.read = form.read]_form

Loaded(job) == job.at \in {"called", "extracted", "marked"}

\* The job believes in a draft.
Late(job) == Loaded(job) /\ job.seen = "draft"

\* What is captured of a submitted application is changed only by a job that had
\* it loaded when it was submitted, and no job comes to believe in a draft
\* afterwards (integrations/tasks.py:162-169).
LateJobsOnly ==
    [][/\ (form.status = "submitted" /\ form'.status = "submitted" /\ form'.read # form.read)
              => \E j \in OcrJobs : Late(ocr[j]) /\ ocr'[j].at = "free"
       /\ form.status # "draft" => \A j \in OcrJobs : Late(ocr'[j]) => Late(ocr[j])]_ocrVars
=============================================================================

-------------------------- MODULE DocumentOcr_proofs --------------------------
(***************************************************************************)
(* A completed document has its extraction, what the parent has typed       *)
(* stays, only the jobs that had the application loaded change it after a   *)
(* submission, and no job runs for ever: proofs for any number of documents, *)
(* uploads, jobs, attempts and deaths.                                      *)
(***************************************************************************)
EXTENDS DocumentOcr, TLAPS

USE OcrAssumption

-----------------------------------------------------------------------------
(* The inductive invariant *)

ScansOK ==
    /\ scans \in [Scans -> Scan]
    /\ \A d \in Scans :
          (~Gone(d) /\ scans[d].status = "completed" /\ ~scans[d].copied) => scans[d].extracted

Uploading == [at : {"idle", "replacing", "created"}, scan : Scans \cup {NoScan}]

\* The document of an answer is a row.
UploadingOK ==
    /\ uploading \in [Uploads -> Uploading]
    /\ \A u \in Uploads :
          uploading[u].at = "created" =>
              uploading[u].scan \in Scans /\ scans[uploading[u].scan].row # "none"

Job == [at : JobPc, scan : Scans \cup {NoScan}, attempts : 0 .. (OcrAttempts - 1), seen : FormStatus]

\* A job is about a row; once it has inserted the extraction, that stays until
\* the row is gone.
JobOK(job) ==
    /\ job \in Job
    /\ job.at # "free" => job.scan \in Scans /\ scans[job.scan].row # "none"
    /\ (job.at = "extracted" /\ ~Gone(job.scan)) => scans[job.scan].extracted

JobsOK ==
    /\ ocr \in [OcrJobs -> Job]
    /\ \A j \in OcrJobs : JobOK(ocr[j])

PageOK == page \in [field : {"empty", "typed"} \cup Scans, chip : Scans \cup {NoScan},
                    polls : SUBSET Scans]

OcrInv ==
    /\ form \in Form
    /\ ScansOK
    /\ UploadingOK
    /\ JobsOK
    /\ PageOK
    /\ kills \in 0 .. MaxKills

LEMMA OcrInvType == OcrInv => OcrTypeOK /\ CompletedHasExtraction
BY DEF OcrInv, ScansOK, UploadingOK, JobsOK, PageOK, Uploading, Job, OcrTypeOK,
       CompletedHasExtraction, Gone

LEMMA FreeSlotOK == FreeSlot \in Job /\ FreeSlot.at = "free"
BY DEF FreeSlot, Job, JobPc, FormStatus

LEMMA OcrInvInit == OcrInit => OcrInv
<1> SUFFICES ASSUME OcrInit
             PROVE  OcrInv
    OBVIOUS
<1>1. NoRowYet \in Scan /\ NoRowYet.status = "pending"
    BY DEF NoRowYet, Scan, OcrStatus
<1>2. ScansOK
    BY <1>1 DEF OcrInit, ScansOK
<1>3. NoUpload \in Uploading /\ NoUpload.at = "idle"
    BY DEF NoUpload, Uploading
<1>4. UploadingOK
    BY <1>3 DEF OcrInit, UploadingOK
<1>5. JobsOK
    BY FreeSlotOK DEF OcrInit, JobsOK, JobOK
<1>6. form \in Form /\ PageOK /\ kills \in 0 .. MaxKills
    BY DEF OcrInit, BlankForm, Form, FormStatus, PageOK
<1>7. QED
    BY <1>2, <1>4, <1>5, <1>6 DEF OcrInv

-----------------------------------------------------------------------------
(* One job or one document changes *)

\* The slot of one job is filled again or moves on.
LEMMA JobPart ==
    ASSUME JobsOK, NEW j \in OcrJobs, NEW job, JobOK(job)', ocr' = [ocr EXCEPT ![j] = job],
           \A d \in Scans : scans[d].row # "none" => scans'[d].row # "none",
           \A d \in Scans : Gone(d) => Gone(d)',
           \A d \in Scans : (scans[d].extracted /\ ~Gone(d)') => scans'[d].extracted
    PROVE  JobsOK'
<1>1. job \in Job
    BY DEF JobOK
<1>2. QED
    BY <1>1 DEF JobsOK, JobOK

\* The jobs stay as they are.
LEMMA JobsKept ==
    ASSUME JobsOK, UNCHANGED ocr,
           \A d \in Scans : scans[d].row # "none" => scans'[d].row # "none",
           \A d \in Scans : Gone(d) => Gone(d)',
           \A d \in Scans : (scans[d].row # "none" /\ scans[d].extracted /\ ~Gone(d)') => scans'[d].extracted
    PROVE  JobsOK'
BY DEF JobsOK, JobOK

LEMMA UploadingKept ==
    ASSUME UploadingOK, UNCHANGED uploading,
           \A d \in Scans : scans[d].row # "none" => scans'[d].row # "none"
    PROVE  UploadingOK'
BY DEF UploadingOK

\* A failed attempt leaves the job in the queue, or none.
LEMMA RaisePart ==
    ASSUME JobsOK, NEW j \in OcrJobs, ocr[j].at # "free", RaiseIn(j),
           \A d \in Scans : scans[d].row # "none" => scans'[d].row # "none",
           \A d \in Scans : Gone(d) => Gone(d)',
           \A d \in Scans : (scans[d].extracted /\ ~Gone(d)') => scans'[d].extracted
    PROVE  JobsOK'
<1>1. JobOK(ocr[j])
    BY DEF JobsOK
<1>. PICK again : again = [FreeSlot EXCEPT !.at = "queued", !.scan = ocr[j].scan,
                                          !.attempts = ocr[j].attempts + 1]
    OBVIOUS
<1>2. CASE ocr[j].attempts + 1 < OcrAttempts
    <2>. PICK n : n = ocr[j].attempts + 1
        OBVIOUS
    <2>1. ocr[j].attempts \in 0 .. (OcrAttempts - 1) /\ ocr[j].scan \in Scans
        BY <1>1 DEF JobOK, Job
    <2>2. n \in 0 .. (OcrAttempts - 1)
        BY <1>2, <2>1
    <2>3. again = [FreeSlot EXCEPT !.at = "queued", !.scan = ocr[j].scan, !.attempts = n]
        OBVIOUS
    <2>4. again \in Job /\ again.at = "queued" /\ again.scan = ocr[j].scan
        BY <2>1, <2>2, <2>3, FreeSlotOK DEF Job, JobPc
    <2>5. JobOK(again)'
        BY <1>1, <2>4 DEF JobOK
    <2>6. ocr' = [ocr EXCEPT ![j] = again]
        BY <1>2 DEF RaiseIn
    <2>7. QED
        BY <2>5, <2>6, JobPart
<1>3. CASE ~(ocr[j].attempts + 1 < OcrAttempts)
    <2>1. ocr' = [ocr EXCEPT ![j] = FreeSlot]
        BY <1>3 DEF RaiseIn
    <2>2. JobOK(FreeSlot)'
        BY FreeSlotOK DEF JobOK
    <2>3. QED
        BY <2>1, <2>2, JobPart
<1>4. QED
    BY <1>2, <1>3

\* A new job for a row.
LEMMA EnqueuePart ==
    ASSUME JobsOK, NEW d \in Scans, scans[d].row # "none", Enqueue(d),
           \A e \in Scans : scans[e].row # "none" => scans'[e].row # "none",
           \A e \in Scans : Gone(e) => Gone(e)',
           \A e \in Scans : (scans[e].extracted /\ ~Gone(e)') => scans'[e].extracted
    PROVE  JobsOK'
<1>. PICK j \in OcrJobs : ocr' = [ocr EXCEPT ![j] = [FreeSlot EXCEPT !.at = "queued", !.scan = d]]
    BY DEF Enqueue
<1>. PICK new : new = [FreeSlot EXCEPT !.at = "queued", !.scan = d]
    OBVIOUS
<1>1. new \in Job /\ new.at = "queued" /\ new.scan = d
    BY FreeSlotOK DEF Job, JobPc
<1>2. JobOK(new)'
    BY <1>1 DEF JobOK
<1>3. QED
    BY <1>2, JobPart

\* A row is written that keeps its extraction.
LEMMA RowPart ==
    ASSUME ScansOK, NEW d \in Scans, NEW row \in Scan, scans' = [scans EXCEPT ![d] = row],
           row.row = scans[d].row, row.extracted = scans[d].extracted,
           row.status = "completed" => (row.status = scans[d].status /\ row.copied = scans[d].copied)
    PROVE  /\ ScansOK'
           /\ \A e \in Scans : scans'[e].row = scans[e].row /\ scans'[e].extracted = scans[e].extracted
BY DEF ScansOK, Gone

\* A status is written, completed only over an extraction.
LEMMA MarkPart ==
    ASSUME ScansOK, NEW d \in Scans, NEW status \in OcrStatus,
           Mark(d, status),
           (status = "completed" /\ ~Gone(d)) => scans[d].extracted
    PROVE  /\ ScansOK'
           /\ \A e \in Scans : scans'[e].row = scans[e].row /\ scans'[e].extracted = scans[e].extracted
<1>. PICK row : row = [scans[d] EXCEPT !.status = status, !.unread = FALSE]
    OBVIOUS
<1>1. /\ row \in Scan /\ row.status = status /\ row.row = scans[d].row
      /\ row.extracted = scans[d].extracted /\ row.copied = scans[d].copied
    BY DEF ScansOK, Scan
<1>2. scans' = [scans EXCEPT ![d] = row]
    BY DEF Mark, ScansOK
<1>3. QED
    BY <1>1, <1>2 DEF ScansOK, Gone

-----------------------------------------------------------------------------
(* Every step keeps the invariant *)

LEMMA UploadSteps ==
    ASSUME OcrInv, NEW u \in Uploads,
           ReplaceScan(u) \/ CreateScan(u) \/ AnswerUpload(u) \/ UploadEnds(u)
    PROVE  OcrInv'
<1> USE DEF OcrInv
<1>1. CASE ReplaceScan(u)
    <2>1. ScansOK' /\ \A d \in Scans : /\ scans[d].row = "none" <=> scans'[d].row = "none"
                                       /\ Gone(d) <=> Gone(d)'
                                       /\ scans'[d].extracted = scans[d].extracted
        <3>1. CASE Active = {}
            BY <1>1, <3>1 DEF ReplaceScan, ScansOK, Gone
        <3>2. CASE Active # {}
            <4>. PICK d \in Scans : scans[d].row = "active" /\ scans' = [scans EXCEPT ![d].row = "deleted"]
                BY <1>1, <3>2 DEF ReplaceScan, Active
            <4>. PICK row : row = [scans[d] EXCEPT !.row = "deleted"]
                OBVIOUS
            <4>1. /\ row \in Scan /\ row.row = "deleted" /\ row.status = scans[d].status
                  /\ row.extracted = scans[d].extracted /\ row.copied = scans[d].copied
                BY DEF ScansOK, Scan
            <4>2. scans' = [scans EXCEPT ![d] = row]
                BY DEF ScansOK
            <4>3. QED
                BY <4>1, <4>2 DEF ScansOK, Gone
        <3>3. QED
            BY <3>1, <3>2
    <2>2. [uploading[u] EXCEPT !.at = "replacing"] \in Uploading
        BY DEF UploadingOK, Uploading
    <2>3. UploadingOK'
        BY <1>1, <2>1, <2>2 DEF ReplaceScan, UploadingOK, Uploading
    <2>4. JobsOK'
        BY <1>1, <2>1, JobsKept DEF ReplaceScan
    <2>5. QED
        BY <1>1, <2>1, <2>3, <2>4 DEF ReplaceScan, PageOK
<1>2. CASE CreateScan(u)
    <2>. PICK d \in Unused :
            /\ scans' = [scans EXCEPT ![d].row = "active"]
            /\ uploading' = [uploading EXCEPT ![u] = [at |-> "created", scan |-> d]]
        BY <1>2 DEF CreateScan
    <2>. PICK row : row = [scans[d] EXCEPT !.row = "active"]
        OBVIOUS
    <2>1. /\ row \in Scan /\ row.row = "active" /\ row.status = scans[d].status
          /\ row.extracted = scans[d].extracted /\ row.copied = scans[d].copied
          /\ d \in Scans /\ scans[d].row = "none"
        BY DEF ScansOK, Scan, Unused
    <2>2. scans' = [scans EXCEPT ![d] = row]
        BY DEF ScansOK
    <2>3. ScansOK' /\ \A e \in Scans : /\ scans[e].row # "none" => scans'[e].row # "none"
                                       /\ Gone(e) => Gone(e)'
                                       /\ scans'[e].extracted = scans[e].extracted
        BY <2>1, <2>2 DEF ScansOK, Gone
    <2>4. UploadingOK'
        BY <2>1, <2>2, <2>3 DEF UploadingOK, Uploading, ScansOK
    <2>5. JobsOK'
        BY <1>2, <2>3, JobsKept DEF CreateScan
    <2>6. QED
        BY <1>2, <2>3, <2>4, <2>5 DEF CreateScan, PageOK
<1>3. CASE AnswerUpload(u)
    <2>1. uploading[u].scan \in Scans /\ scans[uploading[u].scan].row # "none"
        BY <1>3 DEF AnswerUpload, UploadingOK
    <2>2. JobsOK'
        BY <1>3, <2>1, EnqueuePart DEF AnswerUpload, Gone
    <2>3. NoUpload \in Uploading /\ NoUpload.at = "idle"
        BY DEF NoUpload, Uploading
    <2>4. UploadingOK'
        BY <1>3, <2>3 DEF AnswerUpload, UploadingOK
    <2>5. PageOK'
        BY <1>3, <2>1 DEF AnswerUpload, PageOK
    <2>6. QED
        BY <1>3, <2>2, <2>4, <2>5 DEF AnswerUpload, ScansOK, Gone
<1>4. CASE UploadEnds(u)
    <2>1. NoUpload \in Uploading /\ NoUpload.at = "idle"
        BY DEF NoUpload, Uploading
    <2>2. UploadingOK'
        BY <1>4, <2>1 DEF UploadEnds, UploadingOK
    <2>3. QED
        BY <1>4, <2>2 DEF UploadEnds, ScansOK, JobsOK, JobOK, PageOK, Gone
<1>5. QED
    BY <1>1, <1>2, <1>3, <1>4

LEMMA RowSteps ==
    ASSUME OcrInv, NEW d \in Scans, RerunOcr(d) \/ PurgeScan(d)
    PROVE  OcrInv'
<1> USE DEF OcrInv
<1>1. CASE RerunOcr(d)
    <2>1. /\ ScansOK'
          /\ \A e \in Scans : scans'[e].row = scans[e].row /\ scans'[e].extracted = scans[e].extracted
        <3>. PICK row : row = [scans[d] EXCEPT !.status = "pending", !.unread = FALSE]
            OBVIOUS
        <3>1. /\ row \in Scan /\ row.status = "pending"
              /\ row.row = scans[d].row /\ row.extracted = scans[d].extracted
            BY DEF ScansOK, Scan, OcrStatus
        <3>2. scans' = [scans EXCEPT ![d] = row]
            BY <1>1 DEF RerunOcr, ScansOK
        <3>3. QED
            BY <3>1, <3>2, RowPart
    <2>2. JobsOK'
        BY <1>1, <2>1, EnqueuePart DEF RerunOcr, Gone
    <2>3. UploadingOK'
        BY <1>1, <2>1, UploadingKept DEF RerunOcr
    <2>4. QED
        BY <1>1, <2>1, <2>2, <2>3 DEF RerunOcr, PageOK
<1>2. CASE PurgeScan(d)
    <2>. PICK row : row = [scans[d] EXCEPT !.row = "purged", !.extracted = FALSE, !.unread = FALSE]
        OBVIOUS
    <2>1. row \in Scan /\ row.row = "purged"
        BY DEF ScansOK, Scan
    <2>2. scans' = [scans EXCEPT ![d] = row]
        BY <1>2 DEF PurgeScan, ScansOK
    <2>3. ScansOK' /\ \A e \in Scans : /\ scans[e].row # "none" => scans'[e].row # "none"
                                       /\ Gone(e) => Gone(e)'
                                       /\ (scans[e].extracted /\ ~Gone(e)') => scans'[e].extracted
        BY <2>1, <2>2 DEF ScansOK, Gone
    <2>4. JobsOK'
        BY <1>2, <2>3, JobsKept DEF PurgeScan
    <2>5. UploadingOK'
        BY <1>2, <2>3, UploadingKept DEF PurgeScan
    <2>6. QED
        BY <1>2, <2>3, <2>4, <2>5 DEF PurgeScan, PageOK
<1>3. QED
    BY <1>1, <1>2

LEMMA ReuseStep ==
    ASSUME OcrInv, NEW status \in OcrStatus, NEW extracted \in BOOLEAN,
           status = "completed" => extracted, ReuseScan(status, extracted)
    PROVE  OcrInv'
<1> USE DEF OcrInv
<1>. PICK d \in Unused : scans' = [scans EXCEPT ![d] =
        [row |-> "active", status |-> status, extracted |-> extracted, copied |-> TRUE,
         unread |-> FALSE]]
    BY DEF ReuseScan
<1>1. d \in Scans /\ scans[d].row = "none"
    BY DEF Unused
<1>2. [row |-> "active", status |-> status, extracted |-> extracted, copied |-> TRUE,
       unread |-> FALSE] \in Scan
    BY DEF Scan
<1>3. ScansOK' /\ \A e \in Scans : /\ scans[e].row # "none" => scans'[e] = scans[e]
                                   /\ Gone(e) => Gone(e)'
    BY <1>1, <1>2 DEF ScansOK, Gone
<1>4. JobsOK'
    BY <1>3, JobsKept DEF ReuseScan
<1>5. UploadingOK'
    BY <1>3, UploadingKept DEF ReuseScan
<1>6. form' \in Form
    BY DEF ReuseScan, Form
<1>7. QED
    BY <1>3, <1>4, <1>5, <1>6 DEF ReuseScan, PageOK

\* A step of a job that writes no document.
LEMMA QuietJobStep ==
    ASSUME OcrInv, NEW j \in OcrJobs, JobsOK', UNCHANGED <<scans, uploading, page>>,
           form' \in Form, kills' \in 0 .. MaxKills
    PROVE  OcrInv'
BY DEF OcrInv, ScansOK, UploadingOK, PageOK, Gone

LEMMA JobSteps ==
    ASSUME OcrInv, NEW j \in OcrJobs, OcrJobStep(j) \/ KillJob(j)
    PROVE  OcrInv'
<1> USE DEF OcrInv
<1>0. JobOK(ocr[j]) /\ ocr[j] \in Job /\ (ocr[j].at # "free" => ocr[j].scan \in Scans)
    BY DEF JobsOK, JobOK
<1>1. CASE LoadScan(j)
    <2>1. CASE Gone(ocr[j].scan)
        <3>1. ocr' = [ocr EXCEPT ![j] = FreeSlot]
            BY <1>1, <2>1 DEF LoadScan
        <3>2. JobOK(FreeSlot)'
            BY FreeSlotOK DEF JobOK
        <3>3. JobsOK'
            BY <1>1, <3>1, <3>2, JobPart DEF LoadScan, Gone
        <3>4. QED
            BY <1>1, <3>3, QuietJobStep DEF LoadScan
    <2>2. CASE ~Gone(ocr[j].scan)
        <3>. PICK job : job = [ocr[j] EXCEPT !.at = "called", !.seen = form.status]
            OBVIOUS
        <3>1. job \in Job /\ job.at = "called" /\ job.scan = ocr[j].scan
            BY <1>0 DEF Job, JobPc, Form
        <3>2. ocr' = [ocr EXCEPT ![j] = job]
            BY <1>1, <2>2 DEF LoadScan, JobsOK
        <3>3. JobOK(job)'
            BY <1>0, <1>1, <3>1 DEF LoadScan, JobOK
        <3>4. JobsOK'
            BY <1>1, <3>2, <3>3, JobPart DEF LoadScan, Gone
        <3>5. QED
            BY <1>1, <3>4, QuietJobStep DEF LoadScan
    <2>3. QED
        BY <2>1, <2>2
<1>2. ASSUME NEW transient \in BOOLEAN, ProviderFails(j, transient)
      PROVE  OcrInv'
    <2>1. ocr[j].at # "free" /\ Mark(ocr[j].scan, "failed")
        BY <1>2 DEF ProviderFails
    <2>2. /\ ScansOK'
          /\ \A e \in Scans : scans'[e].row = scans[e].row /\ scans'[e].extracted = scans[e].extracted
        BY <1>0, <2>1, MarkPart DEF OcrStatus
    <2>3. JobsOK'
        <3>1. CASE transient
            BY <1>2, <2>1, <2>2, <3>1, RaisePart DEF ProviderFails, Gone
        <3>2. CASE ~transient
            <4>1. JobOK(FreeSlot)'
                BY FreeSlotOK DEF JobOK
            <4>2. QED
                BY <1>2, <2>2, <3>2, <4>1, JobPart DEF ProviderFails, Gone
        <3>3. QED
            BY <3>1, <3>2
    <2>4. UploadingOK'
        BY <1>2, <2>2, UploadingKept DEF ProviderFails
    <2>5. QED
        BY <1>2, <2>2, <2>3, <2>4 DEF ProviderFails, PageOK
<1>3. CASE SaveLost(j) \/ ExtractionTaken(j)
    <2>1. JobsOK'
        BY <1>3, RaisePart DEF SaveLost, ExtractionTaken, Gone
    <2>2. QED
        BY <1>3, <2>1, QuietJobStep DEF SaveLost, ExtractionTaken
<1>4. CASE SaveExtraction(j)
    <2>. PICK d \in Scans : d = ocr[j].scan
        BY <1>0, <1>4 DEF SaveExtraction
    <2>. PICK row : row = [scans[d] EXCEPT !.extracted = TRUE]
        OBVIOUS
    <2>1. /\ row \in Scan /\ row.extracted /\ row.row = scans[d].row
          /\ scans' = [scans EXCEPT ![d] = row]
        BY <1>4 DEF SaveExtraction, ScansOK, Scan
    <2>2. ScansOK' /\ \A e \in Scans : /\ scans'[e].row = scans[e].row
                                       /\ scans[e].extracted => scans'[e].extracted
        BY <2>1 DEF ScansOK, Gone
    <2>. PICK job : job = [ocr[j] EXCEPT !.at = "extracted"]
        OBVIOUS
    <2>3. job \in Job /\ job.scan = d
        BY <1>0 DEF Job, JobPc
    <2>4. ocr' = [ocr EXCEPT ![j] = job]
        BY <1>4 DEF SaveExtraction, JobsOK
    <2>5. JobOK(job)'
        BY <1>0, <1>4, <2>1, <2>2, <2>3 DEF SaveExtraction, JobOK, ScansOK
    <2>6. JobsOK'
        BY <2>2, <2>4, <2>5, JobPart DEF Gone
    <2>7. UploadingOK'
        BY <1>4, <2>2, UploadingKept DEF SaveExtraction
    <2>8. QED
        BY <1>4, <2>2, <2>6, <2>7 DEF SaveExtraction, PageOK
<1>5. CASE MarkCompleted(j)
    <2>. PICK d \in Scans : d = ocr[j].scan
        BY <1>0, <1>5 DEF MarkCompleted
    <2>1. scans[d].extracted /\ Mark(d, "completed")
        BY <1>0, <1>5 DEF MarkCompleted, JobOK
    <2>2. /\ ScansOK'
          /\ \A e \in Scans : scans'[e].row = scans[e].row /\ scans'[e].extracted = scans[e].extracted
        BY <2>1, MarkPart DEF OcrStatus
    <2>. PICK job : job = [ocr[j] EXCEPT !.at = "marked"]
        OBVIOUS
    <2>3. job \in Job /\ job.at = "marked" /\ job.scan = d
        BY <1>0 DEF Job, JobPc
    <2>4. ocr' = [ocr EXCEPT ![j] = job]
        BY <1>5 DEF MarkCompleted, JobsOK
    <2>5. JobOK(job)'
        BY <1>0, <1>5, <2>2, <2>3 DEF MarkCompleted, JobOK
    <2>6. JobsOK'
        BY <2>2, <2>4, <2>5, JobPart DEF Gone
    <2>7. UploadingOK'
        BY <1>5, <2>2, UploadingKept DEF MarkCompleted
    <2>8. QED
        BY <1>5, <2>2, <2>6, <2>7 DEF MarkCompleted, PageOK
<1>6. CASE ApplySources(j)
    <2>1. JobOK(FreeSlot)'
        BY FreeSlotOK DEF JobOK
    <2>2. JobsOK'
        BY <1>6, <2>1, JobPart DEF ApplySources, Gone
    <2>3. form' \in Form
        BY <1>6 DEF ApplySources, Form
    <2>4. QED
        BY <1>6, <2>2, <2>3, QuietJobStep DEF ApplySources
<1>7. CASE KillJob(j)
    <2>. PICK job : job = [FreeSlot EXCEPT !.at = "queued", !.scan = ocr[j].scan,
                                          !.attempts = ocr[j].attempts]
        OBVIOUS
    <2>1. job \in Job /\ job.at = "queued" /\ job.scan = ocr[j].scan
        BY <1>0, FreeSlotOK DEF Job, JobPc
    <2>2. JobOK(job)'
        BY <1>0, <1>7, <2>1 DEF KillJob, JobOK
    <2>3. JobsOK'
        BY <1>7, <2>2, JobPart DEF KillJob, Gone
    <2>4. kills' \in 0 .. MaxKills
        BY <1>7 DEF KillJob
    <2>5. QED
        BY <1>7, <2>3, <2>4, QuietJobStep DEF KillJob
<1>8. CASE FileRaises(j)
    <2>. PICK d \in Scans : d = ocr[j].scan
        BY <1>0, <1>8 DEF FileRaises
    <2>. PICK row : row = [scans[d] EXCEPT !.unread = @ \/ ocr[j].attempts + 1 = OcrAttempts]
        OBVIOUS
    <2>1. /\ row \in Scan /\ row.row = scans[d].row /\ row.extracted = scans[d].extracted
          /\ row.status = scans[d].status /\ row.copied = scans[d].copied
        BY DEF ScansOK, Scan
    <2>2. scans' = [scans EXCEPT ![d] = row]
        BY <1>8 DEF FileRaises, ScansOK
    <2>3. /\ ScansOK'
          /\ \A e \in Scans : scans'[e].row = scans[e].row /\ scans'[e].extracted = scans[e].extracted
        BY <2>1, <2>2, RowPart
    <2>4. JobsOK'
        BY <1>8, <2>3, RaisePart DEF FileRaises, Gone
    <2>5. UploadingOK'
        BY <1>8, <2>3, UploadingKept DEF FileRaises
    <2>6. QED
        BY <1>8, <2>3, <2>4, <2>5 DEF FileRaises, PageOK
<1>9. QED
    BY <1>1, <1>2, <1>3, <1>4, <1>5, <1>6, <1>7, <1>8 DEF OcrJobStep

\* The page takes what was read as its field, or offers it.
LEMMA FillIsPage ==
    ASSUME PageOK, NEW d \in Scans
    PROVE  /\ Fill(d) \in [field : {"empty", "typed"} \cup Scans, chip : Scans \cup {NoScan},
                           polls : SUBSET Scans]
           /\ page.field = "typed" => Fill(d).field = page.field
<1>1. CASE page.field # "empty" /\ page.field # d
    <2>1. Fill(d) = [page EXCEPT !.chip = d]
        BY <1>1 DEF Fill
    <2>2. QED
        BY <2>1 DEF PageOK
<1>2. CASE page.field = "empty" /\ page.field # d
    <2>1. Fill(d) = [page EXCEPT !.field = d]
        BY <1>2 DEF Fill
    <2>2. QED
        BY <1>2, <2>1 DEF PageOK
<1>3. CASE page.field = d /\ page.field # "empty"
    <2>1. Fill(d) = page
        BY <1>3 DEF Fill
    <2>2. QED
        BY <2>1 DEF PageOK
<1>4. CASE page.field = d /\ page.field = "empty"
    <2>1. Fill(d) = page \/ Fill(d) = [page EXCEPT !.field = d]
        BY <1>4 DEF Fill
    <2>2. QED
        BY <1>4, <2>1 DEF PageOK
<1>5. QED
    BY <1>1, <1>2, <1>3, <1>4

PageStep ==
    \/ \E d \in Scans : PollAnswered(d) \/ PollGivesUp(d)
    \/ \E text \in {"empty", "typed"} : TypeField(text)
    \/ AcceptChip
    \/ DismissChip
    \/ LoadPage

LEMMA PageSteps ==
    ASSUME OcrInv, PageStep
    PROVE  /\ OcrInv'
           /\ (page.field = "typed" /\ page'.field \notin {"typed", "empty"})
                 => page'.field = page.chip
<1> USE DEF OcrInv
<1>1. UNCHANGED <<form, scans, uploading, ocr, kills>>
    BY DEF PageStep, PollAnswered, PollGivesUp, TypeField, AcceptChip, DismissChip, LoadPage
<1>2. PageOK' => OcrInv'
    BY <1>1 DEF ScansOK, UploadingOK, JobsOK, JobOK, Gone
<1>3. ASSUME NEW d \in Scans, PollAnswered(d)
      PROVE  PageOK' /\ (page.field = "typed" => page'.field = "typed")
    <2>. PICK filled : filled = IF scans[d].status = "completed" /\ scans[d].extracted
                                THEN Fill(d) ELSE page
        OBVIOUS
    <2>1. /\ filled \in [field : {"empty", "typed"} \cup Scans, chip : Scans \cup {NoScan},
                         polls : SUBSET Scans]
          /\ page.field = "typed" => filled.field = page.field
        BY FillIsPage DEF PageOK
    <2>2. page' = [filled EXCEPT !.polls = page.polls \ {d}]
        BY <1>3 DEF PollAnswered
    <2>3. QED
        BY <2>1, <2>2 DEF PageOK
<1>4. ASSUME NEW d \in Scans, PollGivesUp(d)
      PROVE  PageOK' /\ page'.field = page.field
    BY <1>4 DEF PollGivesUp, PageOK
<1>5. ASSUME NEW text \in {"empty", "typed"}, TypeField(text)
      PROVE  PageOK' /\ page'.field \in {"empty", "typed"}
    BY <1>5 DEF TypeField, PageOK
<1>6. CASE AcceptChip
    BY <1>2, <1>6 DEF AcceptChip, PageOK
<1>7. CASE DismissChip
    <2>1. PageOK' /\ page'.field = page.field
        BY <1>7 DEF DismissChip, PageOK
    <2>2. QED
        BY <1>2, <2>1
<1>8. CASE LoadPage
    <2>. PICK pending : pending = {d \in Active : scans[d].status = "pending"}
        OBVIOUS
    <2>1. pending \in SUBSET Scans
        BY DEF Active
    <2>2. page' = [page EXCEPT !.chip = NoScan, !.polls = pending]
        BY <1>8 DEF LoadPage
    <2>3. PageOK' /\ page'.field = page.field
        BY <2>1, <2>2 DEF PageOK
    <2>4. QED
        BY <1>2, <2>3
<1>9. QED
    BY <1>2, <1>3, <1>4, <1>5, <1>6, <1>7, <1>8 DEF PageStep

LEMMA FormSteps ==
    ASSUME OcrInv, SubmitForm \/ RequestFix
    PROVE  OcrInv'
<1>1. form' \in Form
    BY DEF OcrInv, SubmitForm, RequestFix, Form, FormStatus
<1>2. QED
    BY <1>1 DEF OcrInv, SubmitForm, RequestFix, ScansOK, UploadingOK, JobsOK, JobOK, PageOK, Gone

LEMMA StepKeepsOcrInv == OcrInv /\ [OcrNext]_ocrVars => OcrInv'
<1> SUFFICES ASSUME OcrInv, [OcrNext]_ocrVars
             PROVE  OcrInv'
    OBVIOUS
<1>1. CASE UNCHANGED ocrVars
    BY <1>1 DEF ocrVars, OcrInv, ScansOK, UploadingOK, JobsOK, JobOK, PageOK, Gone
<1>2. CASE PageStep
    BY <1>2, PageSteps
<1>3. QED
    BY <1>1, <1>2, UploadSteps, RowSteps, ReuseStep, JobSteps, FormSteps DEF OcrNext, PageStep

LEMMA OcrAlwaysInv == OcrSpec => []OcrInv
BY OcrInvInit, StepKeepsOcrInv, PTL DEF OcrSpec

-----------------------------------------------------------------------------

\* Every variable keeps its type.
THEOREM OcrTypeCorrect == OcrSpec => []OcrTypeOK
BY OcrAlwaysInv, OcrInvType, PTL

\* A document uploaded here and marked completed has its extraction, wherever a
\* job died (integrations/tasks.py:125-147).
THEOREM CompletedIsExtracted == OcrSpec => []CompletedHasExtraction
BY OcrAlwaysInv, OcrInvType, PTL

\* What the parent has typed stays, but for the parent's own typing and
\* accepting (async_upload.js:190-197).
THEOREM TypedStays == OcrSpec => TypedKept
<1>1. OcrInv /\ [OcrNext]_ocrVars =>
        [(page.field = "typed" /\ page'.field \notin {"typed", "empty"})
            => page'.field = page.chip]_page
    <2> SUFFICES ASSUME OcrInv, OcrNext, ~UNCHANGED page
                 PROVE  (page.field = "typed" /\ page'.field \notin {"typed", "empty"})
                            => page'.field = page.chip
        BY DEF ocrVars
    <2>1. CASE PageStep
        BY <2>1, PageSteps
    <2>2. ASSUME NEW u \in Uploads, AnswerUpload(u)
          PROVE  page'.field = page.field
        BY <2>2 DEF AnswerUpload, OcrInv, PageOK
    <2>3. QED
        BY <2>1, <2>2
           DEF OcrNext, PageStep, ReplaceScan, CreateScan, UploadEnds, ReuseScan, RerunOcr, PurgeScan,
               OcrJobStep, LoadScan, FileRaises, ProviderFails, SaveLost, SaveExtraction, ExtractionTaken,
               MarkCompleted, ApplySources, KillJob, SubmitForm, RequestFix
<1>2. QED
    BY <1>1, OcrAlwaysInv, PTL DEF OcrSpec, TypedKept

-----------------------------------------------------------------------------
(* What a late job may still change *)

\* Jobs read the status when they load the document, and keep what they read.
LEMMA SeenKinds ==
    ASSUME OcrInv, OcrNext, NEW j \in OcrJobs, Loaded(ocr'[j])
    PROVE  \/ Loaded(ocr[j]) /\ ocr'[j].seen = ocr[j].seen
           \/ ocr'[j].seen = form.status /\ form' = form
<1> USE DEF OcrInv, JobsOK
<1>0. \A k \in OcrJobs : ocr[k] \in Job
    BY DEF JobOK
<1>1. ASSUME NEW d \in Scans, Enqueue(d)
      PROVE  ocr'[j] = ocr[j]
    BY <1>1, FreeSlotOK DEF Enqueue, Loaded, Job, FreeSlot
<1>2. ASSUME NEW k \in OcrJobs, LoadScan(k)
      PROVE  ocr'[j] = ocr[j] \/ (ocr'[j].seen = form.status /\ form' = form)
    <2>1. CASE Gone(ocr[k].scan)
        BY <1>2, <2>1, FreeSlotOK DEF LoadScan, Loaded
    <2>2. CASE ~Gone(ocr[k].scan)
        <3>1. ocr' = [ocr EXCEPT ![k] = [ocr[k] EXCEPT !.at = "called", !.seen = form.status]]
            BY <1>2, <2>2 DEF LoadScan
        <3>2. [ocr[k] EXCEPT !.at = "called", !.seen = form.status].seen = form.status
            BY <1>0 DEF Job
        <3>3. QED
            BY <1>2, <3>1, <3>2 DEF LoadScan
    <2>3. QED
        BY <2>1, <2>2
<1>3. ASSUME NEW k \in OcrJobs, RaiseIn(k)
      PROVE  ocr'[j] = ocr[j]
    <2>1. \E job : ocr' = [ocr EXCEPT ![k] = job] /\ job.at \in {"free", "queued"}
        <3>1. [FreeSlot EXCEPT !.at = "queued", !.scan = ocr[k].scan,
                               !.attempts = ocr[k].attempts + 1].at = "queued"
            BY DEF FreeSlot
        <3>2. QED
            BY <1>3, <3>1, FreeSlotOK DEF RaiseIn
    <2>2. QED
        BY <2>1 DEF Loaded
<1>4. ASSUME NEW k \in OcrJobs, SaveExtraction(k) \/ MarkCompleted(k)
      PROVE  ocr'[j] = ocr[j] \/ (Loaded(ocr[j]) /\ ocr'[j].seen = ocr[j].seen)
    <2>1. \E pc \in JobPc : ocr' = [ocr EXCEPT ![k] = [ocr[k] EXCEPT !.at = pc]] /\ Loaded(ocr[k])
        BY <1>4 DEF SaveExtraction, MarkCompleted, Loaded, JobPc
    <2>2. \A pc \in JobPc : [ocr[k] EXCEPT !.at = pc].seen = ocr[k].seen
        BY <1>0 DEF Job
    <2>3. QED
        BY <2>1, <2>2
<1>5. ASSUME NEW k \in OcrJobs, ApplySources(k) \/ KillJob(k)
      PROVE  ocr'[j] = ocr[j]
    <2>1. \E job : ocr' = [ocr EXCEPT ![k] = job] /\ job.at \in {"free", "queued"}
        <3>1. CASE ApplySources(k)
            BY <3>1, FreeSlotOK DEF ApplySources
        <3>2. CASE KillJob(k)
            <4>1. [FreeSlot EXCEPT !.at = "queued", !.scan = ocr[k].scan,
                                   !.attempts = ocr[k].attempts].at = "queued"
                BY DEF FreeSlot
            <4>2. QED
                BY <3>2, <4>1 DEF KillJob
        <3>3. QED
            BY <1>5, <3>1, <3>2
    <2>2. QED
        BY <2>1 DEF Loaded
<1>6. ASSUME NEW k \in OcrJobs, NEW transient \in BOOLEAN, ProviderFails(k, transient)
      PROVE  ocr'[j] = ocr[j]
    <2>1. RaiseIn(k) \/ ocr' = [ocr EXCEPT ![k] = FreeSlot]
        BY <1>6 DEF ProviderFails
    <2>2. QED
        BY <1>3, <2>1, FreeSlotOK DEF Loaded
<1>7. \/ UNCHANGED ocr
      \/ \E d \in Scans : Enqueue(d)
      \/ \E k \in OcrJobs :
            \/ LoadScan(k) \/ RaiseIn(k) \/ SaveExtraction(k) \/ MarkCompleted(k)
            \/ ApplySources(k) \/ KillJob(k)
            \/ \E transient \in BOOLEAN : ProviderFails(k, transient)
    BY DEF OcrNext, OcrJobStep, FileRaises, SaveLost, ExtractionTaken, ReplaceScan, CreateScan, AnswerUpload,
           UploadEnds, ReuseScan, RerunOcr, PurgeScan, PollAnswered, PollGivesUp, TypeField,
           AcceptChip, DismissChip, LoadPage, SubmitForm, RequestFix, UploadingOK
<1>8. QED
    BY <1>1, <1>2, <1>3, <1>4, <1>5, <1>6, <1>7

\* Who writes the application.
LEMMA FormKinds ==
    ASSUME OcrInv, OcrNext
    PROVE  \/ form' = form
           \/ SubmitForm \/ RequestFix
           \/ form.status \in {"draft", "fix_requested"} /\ form'.status = form.status
           \/ /\ form'.status = form.status
              /\ \E j \in OcrJobs : Late(ocr[j]) /\ ocr'[j].at = "free"
<1> USE DEF OcrInv
<1>1. ASSUME NEW status \in OcrStatus, NEW extracted \in BOOLEAN, ReuseScan(status, extracted)
      PROVE  form.status \in {"draft", "fix_requested"} /\ form'.status = form.status
    BY <1>1 DEF ReuseScan, Form
<1>2. ASSUME NEW j \in OcrJobs, ApplySources(j), form' # form
      PROVE  form'.status = form.status /\ Late(ocr[j]) /\ ocr'[j].at = "free"
    BY <1>2, FreeSlotOK DEF ApplySources, Form, Late, Loaded, JobsOK
<1>3. \/ UNCHANGED form
      \/ SubmitForm \/ RequestFix
      \/ \E status \in OcrStatus, extracted \in BOOLEAN : ReuseScan(status, extracted)
      \/ \E j \in OcrJobs : ApplySources(j)
    BY DEF OcrNext, OcrJobStep, LoadScan, FileRaises, ProviderFails, SaveLost, SaveExtraction, ExtractionTaken,
           MarkCompleted, KillJob, ReplaceScan, CreateScan, AnswerUpload, UploadEnds, RerunOcr,
           PurgeScan, PollAnswered, PollGivesUp, TypeField, AcceptChip, DismissChip, LoadPage
<1>4. QED
    BY <1>1, <1>2, <1>3

\* What is captured of a submitted application is changed only by a job that had
\* it loaded when it was submitted, and no job comes to believe in a draft
\* afterwards: the guard of the job (integrations/tasks.py:162-169) is on its own
\* old copy, and those jobs are the only ones it lets through.
THEOREM OnlyLateJobsThaw == OcrSpec => LateJobsOnly
<1>1. OcrInv /\ [OcrNext]_ocrVars =>
        [/\ (form.status = "submitted" /\ form'.status = "submitted" /\ form'.read # form.read)
                => \E j \in OcrJobs : Late(ocr[j]) /\ ocr'[j].at = "free"
         /\ form.status # "draft" => \A j \in OcrJobs : Late(ocr'[j]) => Late(ocr[j])]_ocrVars
    <2> SUFFICES ASSUME OcrInv, OcrNext
                 PROVE  /\ (/\ form.status = "submitted" /\ form'.status = "submitted"
                            /\ form'.read # form.read)
                               => \E j \in OcrJobs : Late(ocr[j]) /\ ocr'[j].at = "free"
                        /\ form.status # "draft" => \A j \in OcrJobs : Late(ocr'[j]) => Late(ocr[j])
        OBVIOUS
    <2>1. ASSUME form.status = "submitted", form'.status = "submitted", form'.read # form.read
          PROVE  \E j \in OcrJobs : Late(ocr[j]) /\ ocr'[j].at = "free"
        BY <2>1, FormKinds DEF SubmitForm, RequestFix, OcrInv, Form
    <2>2. ASSUME form.status # "draft", NEW j \in OcrJobs, Late(ocr'[j])
          PROVE  Late(ocr[j])
        BY <2>2, SeenKinds DEF Late
    <2>3. QED
        BY <2>1, <2>2
<1>2. QED
    BY <1>1, OcrAlwaysInv, PTL DEF OcrSpec, LateJobsOnly

-----------------------------------------------------------------------------
(* How many steps an OCR job can take *)

\* Four steps a delivery: the load, the call, and two saves.
OcrStage(job) ==
    IF job.at = "queued" THEN 4
    ELSE IF job.at = "called" THEN 3
    ELSE IF job.at = "extracted" THEN 2
    ELSE 1

OcrRank(job) ==
    IF job.at = "free" THEN 0 ELSE 4 * (OcrAttempts - 1 - job.attempts) + OcrStage(job)

\* A killed worker gives its job one more delivery.
OcrWork(j) == OcrRank(ocr[j]) + 4 * (MaxKills - kills)

OcrInBudget == \A j \in OcrJobs : OcrWork(j) \in 0 .. (4 * OcrAttempts + 4 * MaxKills)

LEMMA OcrRankType ==
    \A job \in Job : /\ OcrRank(job) \in 0 .. (4 * OcrAttempts)
                     /\ job.at # "free" => OcrRank(job) > 0
<1> TAKE job \in Job
<1>1. PICK a \in 0 .. (OcrAttempts - 1) : a = job.attempts
    BY DEF Job
<1>2. OcrAttempts \in Nat /\ OcrStage(job) \in 1 .. 4
    BY DEF OcrStage
<1>3. QED
    BY <1>1, <1>2 DEF OcrRank

LEMMA RaiseLowersOcrRank ==
    ASSUME OcrInv, NEW j \in OcrJobs, ocr[j].at # "free",
           RaiseIn(j) \/ ocr' = [ocr EXCEPT ![j] = FreeSlot]
    PROVE  OcrRank(ocr'[j]) < OcrRank(ocr[j])
<1>1. ocr[j] \in Job /\ ocr \in [OcrJobs -> Job]
    BY DEF OcrInv, JobsOK
<1>2. CASE ocr'[j] = FreeSlot
    <2>1. OcrRank(ocr'[j]) = 0
        BY <1>2, FreeSlotOK DEF OcrRank
    <2>2. OcrRank(ocr[j]) \in Nat /\ OcrRank(ocr[j]) > 0
        BY <1>1, OcrRankType
    <2>3. QED
        BY <2>1, <2>2
<1>3. CASE ocr'[j] # FreeSlot
    <2>1. PICK a \in 0 .. (OcrAttempts - 1) : a = ocr[j].attempts
        BY <1>1 DEF Job
    <2>2. ocr'[j] = [FreeSlot EXCEPT !.at = "queued", !.scan = ocr[j].scan, !.attempts = a + 1]
        BY <1>1, <1>3, <2>1 DEF RaiseIn
    <2>3. ocr'[j].at = "queued" /\ ocr'[j].attempts = a + 1
        BY <2>2 DEF FreeSlot
    <2>4. OcrRank(ocr'[j]) = 4 * (OcrAttempts - 1 - (a + 1)) + 4
        BY <2>3 DEF OcrRank, OcrStage
    <2>5. PICK s \in 1 .. 4 : s = OcrStage(ocr[j])
        BY DEF OcrStage
    <2>6. OcrRank(ocr[j]) = 4 * (OcrAttempts - 1 - a) + s
        BY <2>1, <2>5 DEF OcrRank
    <2>7. QED
        BY <2>4, <2>6, OcrAssumption
<1>4. QED
    BY <1>2, <1>3

LEMMA StepLowersOcrRank ==
    ASSUME OcrInv, NEW j \in OcrJobs, OcrJobStep(j)
    PROVE  OcrRank(ocr'[j]) < OcrRank(ocr[j]) /\ kills' = kills
<1>1. ocr[j] \in Job /\ ocr \in [OcrJobs -> Job]
    BY DEF OcrInv, JobsOK
<1>2. kills' = kills
    BY DEF OcrJobStep, LoadScan, FileRaises, ProviderFails, SaveLost, SaveExtraction, ExtractionTaken,
           MarkCompleted, ApplySources
<1>3. PICK a \in 0 .. (OcrAttempts - 1) : a = ocr[j].attempts
    BY <1>1 DEF Job
<1>4. ASSUME NEW pc \in JobPc, ocr' = [ocr EXCEPT ![j].at = pc]
      PROVE  ocr'[j].at = pc /\ ocr'[j].attempts = a
    BY <1>1, <1>3, <1>4 DEF Job
<1>5. CASE LoadScan(j)
    <2>1. CASE Gone(ocr[j].scan)
        BY <1>2, <1>5, <2>1, RaiseLowersOcrRank DEF LoadScan
    <2>2. CASE ~Gone(ocr[j].scan)
        <3>1. ocr'[j] = [ocr[j] EXCEPT !.at = "called", !.seen = form.status]
            BY <1>1, <1>5, <2>2 DEF LoadScan
        <3>2. ocr'[j].at = "called" /\ ocr'[j].attempts = a /\ ocr[j].at = "queued"
            BY <1>1, <1>3, <1>5, <3>1 DEF LoadScan, Job
        <3>3. QED
            BY <1>2, <1>3, <3>2 DEF OcrRank, OcrStage
    <2>3. QED
        BY <2>1, <2>2
<1>6. CASE SaveExtraction(j)
    <2>1. ocr'[j].at = "extracted" /\ ocr'[j].attempts = a /\ ocr[j].at = "called"
        BY <1>4, <1>6 DEF SaveExtraction, JobPc
    <2>2. QED
        BY <1>2, <1>3, <2>1 DEF OcrRank, OcrStage
<1>7. CASE MarkCompleted(j)
    <2>1. ocr'[j].at = "marked" /\ ocr'[j].attempts = a /\ ocr[j].at = "extracted"
        BY <1>4, <1>7 DEF MarkCompleted, JobPc
    <2>2. QED
        BY <1>2, <1>3, <2>1 DEF OcrRank, OcrStage
<1>8. CASE \/ FileRaises(j) \/ SaveLost(j) \/ ExtractionTaken(j) \/ ApplySources(j)
           \/ \E transient \in BOOLEAN : ProviderFails(j, transient)
    <2>1. ocr[j].at # "free" /\ (RaiseIn(j) \/ ocr' = [ocr EXCEPT ![j] = FreeSlot])
        BY <1>8 DEF FileRaises, SaveLost, ExtractionTaken, ApplySources, ProviderFails
    <2>2. QED
        BY <1>2, <2>1, RaiseLowersOcrRank
<1>9. OcrRank(ocr'[j]) < OcrRank(ocr[j])
    BY <1>5, <1>6, <1>7, <1>8 DEF OcrJobStep
<1>10. QED
    BY <1>2, <1>9

LEMMA KillLowersWork ==
    ASSUME OcrInv, NEW j \in OcrJobs, KillJob(j)
    PROVE  OcrWork(j)' < OcrWork(j)
<1>1. ocr[j] \in Job /\ ocr \in [OcrJobs -> Job] /\ kills \in 0 .. MaxKills
    BY DEF OcrInv, JobsOK
<1>2. PICK a \in 0 .. (OcrAttempts - 1) : a = ocr[j].attempts
    BY <1>1 DEF Job
<1>3. ocr'[j] = [FreeSlot EXCEPT !.at = "queued", !.scan = ocr[j].scan, !.attempts = a]
    BY <1>1, <1>2 DEF KillJob
<1>4. ocr'[j].at = "queued" /\ ocr'[j].attempts = a
    BY <1>3 DEF FreeSlot
<1>5. OcrRank(ocr'[j]) = 4 * (OcrAttempts - 1 - a) + 4
    BY <1>4 DEF OcrRank, OcrStage
<1>6. PICK s \in 1 .. 4 : s = OcrStage(ocr[j])
    BY DEF OcrStage
<1>7. OcrRank(ocr[j]) = 4 * (OcrAttempts - 1 - a) + s
    BY <1>2, <1>6 DEF OcrRank, KillJob
<1>8. kills' = kills + 1
    BY DEF KillJob
<1>9. PICK f \in Nat : f = OcrAttempts - 1 - a
    BY <1>2
<1>10. PICK g \in Nat : g = MaxKills - kills
    BY <1>1
<1>11. OcrWork(j) = 4 * f + s + 4 * g
    BY <1>7, <1>9, <1>10 DEF OcrWork
<1>12. MaxKills - kills' = g - 1
    BY <1>1, <1>8, <1>10
<1>13. OcrWork(j)' = 4 * f + 4 + 4 * (g - 1)
    BY <1>5, <1>9, <1>12 DEF OcrWork
<1>14. QED
    BY <1>11, <1>13

\* What a job in the queue still has to do shrinks with every step it takes and
\* with every kill, and nothing else touches it.
OcrWorkFalls ==
    [][\A j \in OcrJobs :
         /\ (OcrJobStep(j) \/ KillJob(j)) => OcrWork(j)' < OcrWork(j)
         /\ \/ ocr'[j] = ocr[j]
            \/ ocr[j].at = "free"
            \/ OcrJobStep(j) \/ KillJob(j)]_ocrVars

\* Why a scan settles (PendingScanSettles): whatever the provider answers and
\* staff do to the document, a job takes at most four steps a delivery, in
\* OcrAttempts deliveries and one more for each time its worker was killed.
THEOREM OcrJobsTerminate == OcrSpec => []OcrInBudget /\ OcrWorkFalls
<1>1. OcrInv => OcrInBudget
    <2> SUFFICES ASSUME OcrInv, NEW j \in OcrJobs
                 PROVE  OcrWork(j) \in 0 .. (4 * OcrAttempts + 4 * MaxKills)
        BY DEF OcrInBudget
    <2>1. ocr[j] \in Job /\ kills \in 0 .. MaxKills
        BY DEF OcrInv, JobsOK
    <2>2. PICK r \in 0 .. (4 * OcrAttempts) : r = OcrRank(ocr[j])
        BY <2>1, OcrRankType
    <2>3. QED
        BY <2>1, <2>2 DEF OcrWork
<1>2. OcrInv /\ [OcrNext]_ocrVars =>
        [\A j \in OcrJobs :
           /\ (OcrJobStep(j) \/ KillJob(j)) => OcrWork(j)' < OcrWork(j)
           /\ \/ ocr'[j] = ocr[j]
              \/ ocr[j].at = "free"
              \/ OcrJobStep(j) \/ KillJob(j)]_ocrVars
    <2> SUFFICES ASSUME OcrInv, OcrNext, NEW j \in OcrJobs
                 PROVE  /\ (OcrJobStep(j) \/ KillJob(j)) => OcrWork(j)' < OcrWork(j)
                        /\ \/ ocr'[j] = ocr[j]
                           \/ ocr[j].at = "free"
                           \/ OcrJobStep(j) \/ KillJob(j)
        OBVIOUS
    <2>1. ASSUME OcrJobStep(j)
          PROVE  OcrWork(j)' < OcrWork(j)
        <3>1. OcrInv'
            BY StepKeepsOcrInv
        <3>2. ocr[j] \in Job /\ ocr'[j] \in Job /\ kills \in 0 .. MaxKills
            BY <3>1 DEF OcrInv, JobsOK
        <3>3. PICK r \in 0 .. (4 * OcrAttempts) : r = OcrRank(ocr[j])
            BY <3>2, OcrRankType
        <3>4. PICK s \in 0 .. (4 * OcrAttempts) : s = OcrRank(ocr'[j])
            BY <3>2, OcrRankType
        <3>5. s < r /\ kills' = kills
            BY <2>1, <3>3, <3>4, StepLowersOcrRank
        <3>6. OcrWork(j) = r + 4 * (MaxKills - kills) /\ OcrWork(j)' = s + 4 * (MaxKills - kills)
            BY <3>3, <3>4, <3>5 DEF OcrWork
        <3>7. QED
            BY <3>2, <3>5, <3>6
    <2>2. ASSUME NEW k \in OcrJobs, k # j, OcrJobStep(k) \/ KillJob(k)
          PROVE  ocr'[j] = ocr[j]
        BY <2>2 DEF OcrJobStep, KillJob, LoadScan, FileRaises, ProviderFails, SaveLost, SaveExtraction,
           ExtractionTaken, MarkCompleted, ApplySources, RaiseIn, OcrInv, JobsOK
    <2>3. ASSUME NEW d, Enqueue(d)
          PROVE  ocr'[j] = ocr[j] \/ ocr[j].at = "free"
        BY <2>3 DEF Enqueue, OcrInv, JobsOK
    <2>4. \/ UNCHANGED ocr
          \/ \E d : Enqueue(d)
          \/ \E k \in OcrJobs : OcrJobStep(k) \/ KillJob(k)
        BY DEF OcrNext, ReplaceScan, CreateScan, AnswerUpload, UploadEnds, ReuseScan, RerunOcr,
           PurgeScan, PollAnswered, PollGivesUp, TypeField, AcceptChip, DismissChip, LoadPage,
           SubmitForm, RequestFix
    <2>5. QED
        BY <2>1, <2>2, <2>3, <2>4, KillLowersWork
<1>3. QED
    BY <1>1, <1>2, OcrAlwaysInv, PTL DEF OcrSpec, OcrWorkFalls
=============================================================================

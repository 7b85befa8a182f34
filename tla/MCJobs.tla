------------------------------- MODULE MCJobs -------------------------------
(***************************************************************************)
(* A small instance of what happens in the background: DocuSeal submissions,*)
(* the OCR of a document and the daily digest of submissions. The modules   *)
(* share no variable, so TLC explores them one at a time.                   *)
(***************************************************************************)
EXTENDS AgreementLifecycle, DocumentOcr, ApplicationReview

VARIABLE focus

JobsInit ==
    /\ focus \in {"agreement", "ocr", "review"}
    /\ Init
    /\ OcrInit
    /\ ReviewInit

JobsNext ==
    /\ UNCHANGED focus
    /\ \/ focus = "agreement" /\ Next /\ UNCHANGED <<ocrVars, reviewVars>>
       \/ focus = "ocr" /\ OcrNext /\ UNCHANGED <<vars, reviewVars>>
       \/ focus = "review" /\ ReviewNext /\ UNCHANGED <<vars, ocrVars>>

jobsVars == <<focus, vars, ocrVars, reviewVars>>

\* What is out of focus never starts, so the fairness of each module is asked
\* of the one in focus only.
JobsSpec ==
    /\ JobsInit
    /\ [][JobsNext]_jobsVars
    /\ \A h \in Handlers : WF_vars(Step(h))
    /\ OcrFairness
    /\ WF_reviewVars(DigestSends)

-----------------------------------------------------------------------------

\* Every row and job keeps its type, whatever a worker writes late.
JobsTypeOK ==
    /\ TypeOK
    /\ OcrTypeOK
    /\ ReviewTypeOK
=============================================================================

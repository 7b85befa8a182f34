------------------------------ MODULE MCIntake ------------------------------
(***************************************************************************)
(* A small instance of what stands between a parent's e-mail and an approved *)
(* application: sign-in, the verification page, the review, and the documents *)
(* whose OCR fills the form. The modules share no variable, so TLC explores  *)
(* them one at a time: focus says which one moves.                           *)
(***************************************************************************)
EXTENDS SignIn, VerifyPage, ApplicationReview, DocumentOcr
LOCAL INSTANCE TLC

VARIABLE focus

\* The modules out of focus stay in one initial state; every e-mail has drafts to
\* attach, which no step asks about.
IntakeInit ==
    /\ focus \in {"sign_in", "verify_page", "review", "documents"}
    /\ SignInInit
    /\ focus # "sign_in" => accounts = {} /\ codes = [c \in Codes |-> NoCode]
    /\ claims = Emails
    /\ VerifyPageInit
    /\ ReviewInit
    /\ OcrInit

\* Bound: the documents are those of a draft. The page does not look at the
\* application's status; MCJobs submits it and sends it back.
DraftOnly == form.status = "draft"

IntakeNext ==
    /\ UNCHANGED focus
    /\ \/ focus = "sign_in" /\ SignInNext
          /\ UNCHANGED <<verifyVars, reviewVars, ocrVars>>
       \/ focus = "verify_page" /\ VerifyPageNext
          /\ UNCHANGED <<signInVars, reviewVars, ocrVars>>
       \/ focus = "review" /\ ReviewNext
          /\ UNCHANGED <<signInVars, verifyVars, ocrVars>>
       \/ focus = "documents" /\ OcrNext /\ DraftOnly'
          /\ UNCHANGED <<signInVars, verifyVars, reviewVars>>

intakeVars == <<focus, signInVars, verifyVars, reviewVars, ocrVars>>

IntakeSpec == IntakeInit /\ [][IntakeNext]_intakeVars

-----------------------------------------------------------------------------

\* Every component's rows and requests keep their types, whatever their
\* interleaving writes.
IntakeTypeOK ==
    /\ SignInTypeOK
    /\ VerifyPageTypeOK
    /\ ReviewTypeOK
    /\ OcrTypeOK

\* One document row is as good as another.
ScanSymmetry == Permutations(Scans)
=============================================================================

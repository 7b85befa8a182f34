----------------------------- MODULE PermitStore -----------------------------
(***************************************************************************)
(* The medical permit of one application: the row, the private files it may *)
(* name, and the requests of the parent and of staff that replace them. A   *)
(* row and a file cannot be written together, and every request works on    *)
(* the row it read at its start (documents/medical_permits.py).             *)
(***************************************************************************)
EXTENDS Naturals

CONSTANTS
    PermitRequests,   \* HTTP requests that may be under way
    PermitFiles,      \* opaque names medical_permit_upload_to draws, each once
    NoFile            \* a blank file column

ASSUME NoFileAssumption == NoFile \notin PermitFiles

VARIABLES
    intake,      \* status of the application: open (draft, fix_requested,
                 \* submitted), approved (it has its member), rejected
    permit,      \* the MedicalPermit row
    stored,      \* files present in private storage
    drawn,       \* names drawn so far
    upload       \* the requests

permitVars == <<intake, permit, stored, drawn, upload>>

-----------------------------------------------------------------------------
(* Types *)

PermitRow == [exists : BOOLEAN, linked : BOOLEAN, file : PermitFiles \cup {NoFile},
              source : {"parent_upload", "staff_upload", "staff_confirmation"},
              confirmed : BOOLEAN]

UploadPc == {"idle", "permit", "attach", "create", "write", "save", "sweep",
             "confirm", "clear"}

\* row is the request's copy of the permit, approved its copy of the status.
Upload == [at : UploadPc, staff : BOOLEAN, approved : BOOLEAN, row : PermitRow,
           new : PermitFiles \cup {NoFile}]

PermitTypeOK ==
    /\ intake \in {"open", "approved", "rejected"}
    /\ permit \in PermitRow
    /\ stored \in SUBSET PermitFiles
    /\ drawn \in SUBSET PermitFiles
    /\ upload \in [PermitRequests -> Upload]

NoPermit == [exists |-> FALSE, linked |-> FALSE, file |-> NoFile,
             source |-> "parent_upload", confirmed |-> FALSE]

IdleUpload == [at |-> "idle", staff |-> FALSE, approved |-> FALSE, row |-> NoPermit,
               new |-> NoFile]

PermitInit ==
    /\ intake = "open"
    /\ permit = NoPermit
    /\ stored = {}
    /\ drawn = {}
    /\ upload = [q \in PermitRequests |-> IdleUpload]

-----------------------------------------------------------------------------
(* Starting a request *)

Goes(q, pc) == upload' = [upload EXCEPT ![q].at = pc]

Ends(q) == upload' = [upload EXCEPT ![q] = IdleUpload]

\* Saved: all that is left is to delete the file the request read.
Saved(q) == upload' = [upload EXCEPT ![q] =
                [IdleUpload EXCEPT !.at = "sweep", !.row.file = upload[q].row.file]]

Opens(q, request) ==
    /\ upload[q].at = "idle"
    /\ upload' = [upload EXCEPT ![q] = request]
    /\ UNCHANGED <<intake, permit, stored, drawn>>

\* The parent's stage policy; staff have none.
CanParentUpload == intake # "rejected"

\* application_medical_permit_upload, the parent's endpoint.
OpenApplication(q) ==
    /\ CanParentUpload
    /\ Opens(q, [IdleUpload EXCEPT !.at = "permit", !.approved = (intake = "approved")])

\* The cockpit's upload button.
OpenByStaff(q) ==
    Opens(q, [IdleUpload EXCEPT !.at = "permit", !.staff = TRUE,
                                !.approved = (intake = "approved")])

\* upload_application_medical_permit: the permit is read after the application.
ReadPermit(q) ==
    /\ upload[q].at = "permit"
    /\ upload' = [upload EXCEPT ![q].row = permit,
                    ![q].at = IF ~permit.exists THEN "create"
                              ELSE IF upload[q].approved /\ ~permit.linked THEN "attach"
                              ELSE "write"]
    /\ UNCHANGED <<intake, permit, stored, drawn>>

PermitOfMember == permit.exists /\ permit.linked

\* upload_member_medical_permit finds the permit by its member only.
ReadByMember(staff) ==
    [IdleUpload EXCEPT !.staff = staff, !.approved = TRUE,
                       !.row = IF PermitOfMember THEN permit ELSE NoPermit,
                       !.at = IF PermitOfMember THEN "write" ELSE "create"]

\* member_medical_permit_upload, and the button of the family hub.
OpenMember(q) == intake = "approved" /\ Opens(q, ReadByMember(FALSE))

OpenMemberByStaff(q) == intake = "approved" /\ Opens(q, ReadByMember(TRUE))

\* The confirmation buttons of the cockpit, on a permit that exists, and of
\* the family hub, on one the member has.
OpenConfirmation(q, pc) ==
    permit.exists /\ Opens(q, [IdleUpload EXCEPT !.at = pc, !.staff = TRUE, !.row = permit])

OpenMemberConfirmation(q, pc) ==
    PermitOfMember /\ Opens(q, [IdleUpload EXCEPT !.at = pc, !.staff = TRUE, !.row = permit])

-----------------------------------------------------------------------------
(* Uploading *)

UploadSource(q) == IF upload[q].staff THEN "staff_upload" ELSE "parent_upload"

\* attach_application_medical_permit from within an upload.
Attach(q) ==
    /\ upload[q].at = "attach"
    /\ permit' = [permit EXCEPT !.linked = TRUE]
    /\ Goes(q, "write")
    /\ UNCHANGED <<intake, stored, drawn>>

\* The INSERT. A second row for the application breaks the one-to-one and the
\* request ends in an error.
Create(q) ==
    /\ upload[q].at = "create"
    /\ IF permit.exists
       THEN Ends(q) /\ UNCHANGED permit
       ELSE /\ permit' = [exists |-> TRUE, linked |-> upload[q].approved, file |-> NoFile,
                          source |-> UploadSource(q), confirmed |-> FALSE]
            /\ Goes(q, "write")
    /\ UNCHANGED <<intake, stored, drawn>>

\* The candidate is stored under a name never used before.
WriteFile(q) ==
    /\ upload[q].at = "write"
    /\ \E f \in PermitFiles \ drawn :
          /\ stored' = stored \cup {f}
          /\ drawn' = drawn \cup {f}
          /\ upload' = [upload EXCEPT ![q].at = "save", ![q].new = f]
    /\ UNCHANGED <<intake, permit>>

\* permit.save: file, source and confirmation in one UPDATE.
SaveFile(q) ==
    /\ upload[q].at = "save"
    /\ permit' = [permit EXCEPT !.file = upload[q].new, !.source = UploadSource(q),
                                !.confirmed = FALSE]
    /\ Saved(q)
    /\ UNCHANGED <<intake, stored, drawn>>

\* The UPDATE raises: the candidate is removed, best effort.
SaveFails(q) ==
    /\ upload[q].at = "save"
    /\ stored' \in {stored, stored \ {upload[q].new}}
    /\ Ends(q)
    /\ UNCHANGED <<intake, permit, drawn>>

\* Variant: what the row names now is deleted, not what the request read.
SweepCurrent(q) ==
    /\ upload[q].at = "sweep"
    /\ stored' \in {stored, stored \ {permit.file}}
    /\ Ends(q)
    /\ UNCHANGED <<intake, permit, drawn>>

\* The file the request read is deleted, best effort.
Sweep(q) ==
    /\ upload[q].at = "sweep"
    /\ stored' \in {stored, stored \ {upload[q].row.file}}
    /\ Ends(q)
    /\ UNCHANGED <<intake, permit, drawn>>

-----------------------------------------------------------------------------
(* Staff confirmation *)

SaveConfirmation(q) ==
    /\ upload[q].at = "confirm"
    /\ permit' = [permit EXCEPT !.file = NoFile, !.source = "staff_confirmation",
                                !.confirmed = TRUE]
    /\ Saved(q)
    /\ UNCHANGED <<intake, stored, drawn>>

\* The source is written as read, unless the copy has a file.
SaveClearing(q) ==
    /\ upload[q].at = "clear"
    /\ permit' = [permit EXCEPT !.confirmed = FALSE,
                    !.source = IF upload[q].row.file # NoFile THEN "parent_upload"
                               ELSE upload[q].row.source]
    /\ Ends(q)
    /\ UNCHANGED <<intake, stored, drawn>>

-----------------------------------------------------------------------------
(* Review of the application *)

\* approve_application: one transaction, the permit linked within it.
ApproveIntake ==
    /\ intake = "open"
    /\ intake' = "approved"
    /\ permit' = [permit EXCEPT !.linked = permit.exists]
    /\ UNCHANGED <<stored, drawn, upload>>

RejectIntake ==
    /\ intake = "open"
    /\ intake' = "rejected"
    /\ UNCHANGED <<permit, stored, drawn, upload>>

\* A process dies, or something no handler catches is raised.
UploadDies(q) ==
    /\ upload[q].at # "idle"
    /\ Ends(q)
    /\ UNCHANGED <<intake, permit, stored, drawn>>

-----------------------------------------------------------------------------

PermitStep(q) ==
    \/ OpenApplication(q)
    \/ OpenByStaff(q)
    \/ ReadPermit(q)
    \/ OpenMember(q)
    \/ OpenMemberByStaff(q)
    \/ \E pc \in {"confirm", "clear"} : OpenConfirmation(q, pc) \/ OpenMemberConfirmation(q, pc)
    \/ Attach(q)
    \/ Create(q)
    \/ WriteFile(q)
    \/ SaveFile(q)
    \/ SaveFails(q)
    \/ Sweep(q)
    \/ SaveConfirmation(q)
    \/ SaveClearing(q)
    \/ UploadDies(q)

PermitNext ==
    \/ \E q \in PermitRequests : PermitStep(q)
    \/ ApproveIntake
    \/ RejectIntake

PermitSpec == PermitInit /\ [][PermitNext]_permitVars

\* What _medical_permit_response can open; a blank column is a 404 as well.
Previewable == permit.file \in stored

-----------------------------------------------------------------------------
(* Properties *)

\* Whatever two uploads, a confirmation and a crash leave behind, a row never
\* names a file that has been deleted: each request deletes only the file it
\* replaced, by its name as read (medical_permits.py:111-160).
FileStored == permit.file # NoFile => Previewable

\* Once nobody is uploading, the permit of an approved application carries
\* the member, or the member's upload page could not find it
\* (medical_permits.py:208-211).
ApprovedPermitLinked ==
    (intake = "approved" /\ permit.exists /\ \A q \in PermitRequests : upload[q].at = "idle")
        => permit.linked
=============================================================================

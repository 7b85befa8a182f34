------------------------- MODULE PrivateFiles_proofs -------------------------
(***************************************************************************)
(* Rows and the private files they name: a permit row never names a file    *)
(* that was deleted, whatever the requests in progress, and neither does an  *)
(* agreement as long as its signed copies are uploaded one after the other.  *)
(***************************************************************************)
EXTENDS PermitStore, SignedArtifact, TLAPS

USE NoFileAssumption

-----------------------------------------------------------------------------
(* The inductive invariant *)

\* A file being saved is stored and named by nobody else; a file being deleted
\* is not the one the row names; a request that found or made the row keeps it.
UploadOK(u) ==
    /\ u \in Upload
    /\ u.row.file \in drawn \cup {NoFile}
    /\ u.at \in {"attach", "write", "save"} => permit.exists
    /\ u.at = "save" => u.new \in stored \cap drawn /\ u.new # permit.file
    /\ u.at = "sweep" => u.row.file = NoFile \/ u.row.file # permit.file

\* A name is drawn for one request, and read by none before it is saved.
Apart ==
    \A q, r \in PermitRequests :
        upload[q].at = "save" =>
            /\ upload[q].new # upload[r].row.file
            /\ (q # r /\ upload[r].at = "save") => upload[q].new # upload[r].new

FilesOK ==
    /\ stored \in SUBSET PermitFiles
    /\ drawn \in SUBSET PermitFiles
    /\ permit.file \in drawn \cup {NoFile}
    /\ permit.file # NoFile => permit.exists
    /\ FileStored

UploadsOK ==
    /\ upload \in [PermitRequests -> Upload]
    /\ \A q \in PermitRequests : UploadOK(upload[q])
    /\ Apart

PermitInv ==
    /\ intake \in {"open", "approved", "rejected"}
    /\ permit \in PermitRow
    /\ FilesOK
    /\ UploadsOK

LEMMA PermitInvType == PermitInv => PermitTypeOK /\ FileStored
BY DEF PermitInv, FilesOK, UploadsOK, PermitTypeOK

LEMMA IdleUploadOK ==
    /\ NoPermit \in PermitRow /\ NoPermit.file = NoFile
    /\ IdleUpload \in Upload /\ IdleUpload.at = "idle" /\ IdleUpload.row = NoPermit
BY DEF NoPermit, PermitRow, IdleUpload, Upload, UploadPc

LEMMA PermitInvInit == PermitInit => PermitInv
BY IdleUploadOK
   DEF PermitInit, PermitInv, FilesOK, FileStored, UploadsOK, UploadOK, Apart

-----------------------------------------------------------------------------
(* What a request may do *)

\* A request that neither saves nor deletes moves, with a row it has read.
LEMMA MovePart ==
    ASSUME PermitInv, NEW q \in PermitRequests, NEW u \in Upload,
           u.at \notin {"save", "sweep"},
           u.at \in {"attach", "write"} => permit'.exists,
           u.row.file \in {NoFile, permit.file, upload[q].row.file},
           upload' = [upload EXCEPT ![q] = u],
           UNCHANGED <<stored, drawn>>, permit'.file = permit.file,
           permit.exists => permit'.exists
    PROVE  FilesOK' /\ UploadsOK'
<1>1. FilesOK'
    BY DEF PermitInv, FilesOK, FileStored, Previewable
<1>2. UploadOK(u)'
    BY DEF PermitInv, FilesOK, UploadsOK, UploadOK
<1>3. ASSUME NEW r \in PermitRequests
      PROVE  UploadOK(upload[r])'
    <2>1. CASE r = q
        BY <2>1, <1>2 DEF PermitInv, UploadsOK
    <2>2. CASE r # q
        <3>1. upload'[r] = upload[r] /\ UploadOK(upload[r])
            BY <2>2 DEF PermitInv, UploadsOK
        <3>2. QED
            BY <3>1 DEF UploadOK
    <2>3. QED
        BY <2>1, <2>2
<1>4. upload' \in [PermitRequests -> Upload]
    BY DEF PermitInv, UploadsOK
<1>5. Apart'
    <2>1. SUFFICES ASSUME NEW r \in PermitRequests, NEW s \in PermitRequests, upload'[r].at = "save"
                   PROVE  /\ upload'[r].new # upload'[s].row.file
                          /\ (r # s /\ upload'[s].at = "save") => upload'[r].new # upload'[s].new
        BY DEF Apart
    <2>2. r # q /\ upload'[r] = upload[r] /\ upload[r].new # permit.file /\ upload[r].new # NoFile
        BY <2>1 DEF PermitInv, UploadsOK, UploadOK, FilesOK
    <2>3. CASE s = q
        BY <2>1, <2>2, <2>3 DEF PermitInv, UploadsOK, Apart
    <2>4. CASE s # q
        BY <2>1, <2>2, <2>4 DEF PermitInv, UploadsOK, Apart
    <2>5. QED
        BY <2>3, <2>4
<1>6. QED
    BY <1>1, <1>3, <1>4, <1>5 DEF UploadsOK

\* A request ends without deleting anything.
LEMMA EndPart ==
    ASSUME PermitInv, NEW q \in PermitRequests, Ends(q),
           UNCHANGED <<stored, drawn>>, permit'.file = permit.file,
           permit.exists => permit'.exists
    PROVE  FilesOK' /\ UploadsOK'
<1>1. IdleUpload \in Upload /\ IdleUpload.at \notin {"attach", "write", "save", "sweep"} /\ IdleUpload.row.file = NoFile
    BY IdleUploadOK
<1>2. upload' = [upload EXCEPT ![q] = IdleUpload]
    BY DEF Ends
<1>3. QED
    BY <1>1, <1>2, MovePart

\* A request starts.
LEMMA OpenPart ==
    ASSUME PermitInv, NEW q \in PermitRequests, NEW u \in Upload, Opens(q, u),
           u.at \notin {"attach", "save", "sweep"}, u.at = "write" => permit.exists,
           u.row.file \in {NoFile, permit.file}
    PROVE  PermitInv'
<1>1. FilesOK' /\ UploadsOK'
    BY MovePart DEF Opens
<1>2. QED
    BY <1>1 DEF PermitInv, Opens

\* A request ends after it deleted one file, or tried to: one it alone knew, or
\* one the row does not name and nobody is saving.
LEMMA DeletePart ==
    ASSUME PermitInv, NEW q \in PermitRequests, NEW f,
           f # permit.file \/ f = NoFile,
           \A r \in PermitRequests \ {q} : upload[r].at = "save" => upload[r].new # f,
           stored' \in {stored, stored \ {f}}, Ends(q), UNCHANGED <<intake, permit, drawn>>
    PROVE  PermitInv'
<1>1. FilesOK'
    BY DEF PermitInv, FilesOK, FileStored, Previewable
<1>2. ASSUME NEW r \in PermitRequests
      PROVE  UploadOK(upload[r])'
    <2>1. CASE r = q
        BY <2>1, IdleUploadOK DEF PermitInv, UploadsOK, UploadOK, Ends
    <2>2. CASE r # q
        <3>1. upload'[r] = upload[r] /\ UploadOK(upload[r])
            BY <2>2 DEF PermitInv, UploadsOK, Ends
        <3>2. upload[r].at = "save" => upload[r].new # f
            BY <2>2
        <3>3. QED
            BY <3>1, <3>2 DEF UploadOK
    <2>3. QED
        BY <2>1, <2>2
<1>3. Apart'
    <2>1. SUFFICES ASSUME NEW r \in PermitRequests, NEW s \in PermitRequests, upload'[r].at = "save"
                   PROVE  /\ upload'[r].new # upload'[s].row.file
                          /\ (r # s /\ upload'[s].at = "save") => upload'[r].new # upload'[s].new
        BY DEF Apart
    <2>2. r # q /\ upload'[r] = upload[r] /\ upload[r].new # NoFile
        BY <2>1, IdleUploadOK DEF PermitInv, UploadsOK, UploadOK, FilesOK, Ends
    <2>3. CASE s = q
        BY <2>1, <2>2, <2>3, IdleUploadOK DEF PermitInv, UploadsOK, Ends
    <2>4. CASE s # q
        BY <2>1, <2>2, <2>4 DEF PermitInv, UploadsOK, Apart, Ends
    <2>5. QED
        BY <2>3, <2>4
<1>4. upload' \in [PermitRequests -> Upload]
    BY IdleUploadOK DEF PermitInv, UploadsOK, Ends
<1>5. QED
    BY <1>1, <1>2, <1>3, <1>4 DEF PermitInv, UploadsOK

\* The row is saved with another file, or none, and the one read is to go.
LEMMA SavePart ==
    ASSUME PermitInv, NEW q \in PermitRequests, NEW f \in stored \cup {NoFile}, f \in drawn \cup {NoFile},
           permit' \in PermitRow, permit'.file = f, permit.exists => permit'.exists, Saved(q), UNCHANGED <<intake, stored, drawn>>,
           f # NoFile => upload[q].at = "save" /\ f = upload[q].new
    PROVE  PermitInv'
<1>. PICK u : u = [IdleUpload EXCEPT !.at = "sweep", !.row.file = upload[q].row.file]
    OBVIOUS
<1>1. upload[q] \in Upload /\ UploadOK(upload[q]) /\ upload[q].row.file \in PermitFiles \cup {NoFile}
    BY DEF PermitInv, FilesOK, UploadsOK, UploadOK
<1>2. u \in Upload /\ u.at = "sweep" /\ u.row.file = upload[q].row.file
    <2>. PICK old : old = upload[q].row.file
        OBVIOUS
    <2>1. old \in PermitFiles \cup {NoFile}
        BY <1>1
    <2>. PICK row : row = [NoPermit EXCEPT !.file = old]
        OBVIOUS
    <2>2. row \in PermitRow /\ row.file = old
        BY <2>1 DEF NoPermit, PermitRow
    <2>3. u = [IdleUpload EXCEPT !.at = "sweep", !.row = row]
        BY IdleUploadOK
    <2>5. u.at = "sweep" /\ u.row = row /\ u \in Upload
        BY <2>2, <2>3, IdleUploadOK DEF Upload, UploadPc
    <2>6. QED
        BY <2>2, <2>5
<1>3. upload' = [upload EXCEPT ![q] = u]
    BY DEF Saved
<1>4. FilesOK'
    BY <1>1 DEF UploadOK, PermitInv, FilesOK, FileStored, Previewable
<1>5. \A r \in PermitRequests : f # NoFile => f # upload[r].row.file
    BY DEF PermitInv, UploadsOK, Apart
<1>6. ASSUME NEW r \in PermitRequests
      PROVE  UploadOK(upload[r])'
    <2>1. CASE r = q
        <3>1. upload'[r] = u
            BY <2>1, <1>3 DEF PermitInv, UploadsOK
        <3>2. UploadOK(u)'
            BY <1>1, <1>2, <1>5 DEF UploadOK
        <3>3. QED
            BY <3>1, <3>2
    <2>2. CASE r # q
        <3>1. upload'[r] = upload[r] /\ UploadOK(upload[r])
            BY <2>2, <1>3 DEF PermitInv, UploadsOK
        <3>2. upload[r].at = "save" => upload[r].new # f
            BY <3>1, <2>2 DEF PermitInv, FilesOK, UploadsOK, UploadOK, Apart
        <3>3. QED
            BY <3>1, <3>2, <1>5 DEF UploadOK
    <2>3. QED
        BY <2>1, <2>2
<1>7. Apart'
    <2>1. SUFFICES ASSUME NEW r \in PermitRequests, NEW s \in PermitRequests, upload'[r].at = "save"
                   PROVE  /\ upload'[r].new # upload'[s].row.file
                          /\ (r # s /\ upload'[s].at = "save") => upload'[r].new # upload'[s].new
        BY DEF Apart
    <2>2. r # q /\ upload'[r] = upload[r]
        BY <2>1, <1>2, <1>3 DEF PermitInv, UploadsOK
    <2>3. CASE s = q
        BY <2>1, <2>2, <2>3, <1>2, <1>3 DEF PermitInv, UploadsOK, Apart
    <2>4. CASE s # q
        BY <2>1, <2>2, <2>4, <1>3 DEF PermitInv, UploadsOK, Apart
    <2>5. QED
        BY <2>3, <2>4
<1>8. upload' \in [PermitRequests -> Upload]
    BY <1>2, <1>3 DEF PermitInv, UploadsOK
<1>9. QED
    BY <1>4, <1>6, <1>7, <1>8 DEF PermitInv, UploadsOK

-----------------------------------------------------------------------------
(* Every step keeps the invariant *)

LEMMA StepKeepsPermitInv == PermitInv /\ [PermitNext]_permitVars => PermitInv'
<1> SUFFICES ASSUME PermitInv, [PermitNext]_permitVars
             PROVE  PermitInv'
    OBVIOUS
<1>0. permit \in PermitRow /\ permit.file \in PermitFiles \cup {NoFile}
    BY DEF PermitInv, PermitRow
<1>1. ASSUME NEW q \in PermitRequests, NEW staff \in BOOLEAN, NEW approved \in BOOLEAN,
             Opens(q, [IdleUpload EXCEPT !.at = "permit", !.staff = staff, !.approved = approved])
      PROVE  PermitInv'
    <2>. PICK u : u = [IdleUpload EXCEPT !.at = "permit", !.staff = staff, !.approved = approved]
        OBVIOUS
    <2>1. u \in Upload /\ u.at = "permit" /\ u.row.file = NoFile
        BY IdleUploadOK DEF Upload, UploadPc
    <2>2. QED
        BY <1>1, <2>1, OpenPart
<1>2. ASSUME NEW q \in PermitRequests, OpenApplication(q) \/ OpenByStaff(q)
      PROVE  PermitInv'
    <2>1. (intake = "approved") \in BOOLEAN
        OBVIOUS
    <2>. PICK approved \in BOOLEAN : approved = (intake = "approved")
        BY <2>1, Zenon
    <2>2. CASE OpenByStaff(q)
        <3>1. Opens(q, [IdleUpload EXCEPT !.at = "permit", !.staff = TRUE, !.approved = approved])
            BY <2>2, Zenon DEF OpenByStaff
        <3>2. QED
            BY <3>1, <1>1
    <2>3. CASE OpenApplication(q)
        <3>. PICK u : u = [IdleUpload EXCEPT !.at = "permit", !.approved = approved]
            OBVIOUS
        <3>1. u \in Upload /\ u.at = "permit" /\ u.row.file = NoFile
            BY IdleUploadOK DEF Upload, UploadPc
        <3>2. Opens(q, u)
            BY <2>3, Zenon DEF OpenApplication
        <3>3. QED
            BY <3>1, <3>2, OpenPart
    <2>4. QED
        BY <1>2, <2>2, <2>3
<1>3. ASSUME NEW q \in PermitRequests, ReadPermit(q)
      PROVE  PermitInv'
    <2>. PICK pc : pc = IF ~permit.exists THEN "create"
                        ELSE IF upload[q].approved /\ ~permit.linked THEN "attach" ELSE "write"
        OBVIOUS
    <2>0. /\ upload' = [upload EXCEPT ![q].row = permit, ![q].at = pc]
          /\ pc \in {"create", "attach", "write"}
          /\ pc \in {"attach", "write"} => permit.exists
        BY <1>3 DEF ReadPermit
    <2>. PICK u : u = [upload[q] EXCEPT !.row = permit, !.at = pc]
        OBVIOUS
    <2>1. u \in Upload /\ u.at = pc /\ u.row = permit
        BY <1>0, <2>0 DEF PermitInv, UploadsOK, Upload, UploadPc
    <2>2. upload' = [upload EXCEPT ![q] = u]
        BY <2>0 DEF PermitInv, UploadsOK
    <2>3. FilesOK' /\ UploadsOK'
        BY <1>3, <2>0, <2>1, <2>2, MovePart DEF ReadPermit
    <2>4. QED
        BY <1>3, <2>3 DEF ReadPermit, PermitInv
<1>4. ASSUME NEW q \in PermitRequests, NEW staff \in BOOLEAN, Opens(q, ReadByMember(staff))
      PROVE  PermitInv'
    <2>. PICK row \in {permit, NoPermit}, pc \in {"write", "create"} :
            /\ ReadByMember(staff) = [IdleUpload EXCEPT !.staff = staff, !.approved = TRUE,
                                                        !.row = row, !.at = pc]
            /\ pc = "write" => permit.exists
        BY Zenon DEF ReadByMember, PermitOfMember
    <2>. PICK u : u = [IdleUpload EXCEPT !.staff = staff, !.approved = TRUE, !.row = row, !.at = pc]
        OBVIOUS
    <2>1. u \in Upload /\ u.at = pc /\ u.row = row
        BY <1>0, IdleUploadOK DEF Upload, UploadPc
    <2>2. QED
        BY <1>4, <2>1, IdleUploadOK, OpenPart
<1>5. ASSUME NEW q \in PermitRequests, NEW pc \in {"confirm", "clear"},
             OpenConfirmation(q, pc) \/ OpenMemberConfirmation(q, pc)
      PROVE  PermitInv'
    <2>. PICK u : u = [IdleUpload EXCEPT !.at = pc, !.staff = TRUE, !.row = permit]
        OBVIOUS
    <2>1. u \in Upload /\ u.at = pc /\ u.row = permit
        BY <1>0, IdleUploadOK DEF Upload, UploadPc
    <2>2. Opens(q, u)
        BY <1>5 DEF OpenConfirmation, OpenMemberConfirmation
    <2>3. QED
        BY <2>1, <2>2, OpenPart
<1>6. ASSUME NEW q \in PermitRequests, NEW p \in PermitRow, p.file = permit.file, p.exists, permit' = p,
             Goes(q, "write"), UNCHANGED <<intake, stored, drawn>>
      PROVE  PermitInv'
    <2>. PICK u : u = [upload[q] EXCEPT !.at = "write"]
        OBVIOUS
    <2>1. u \in Upload /\ u.at = "write" /\ u.row = upload[q].row
        BY DEF PermitInv, UploadsOK, Upload, UploadPc
    <2>2. upload' = [upload EXCEPT ![q] = u]
        BY <1>6 DEF Goes, PermitInv, UploadsOK
    <2>3. FilesOK' /\ UploadsOK'
        BY <1>6, <2>1, <2>2, MovePart
    <2>4. QED
        BY <1>6, <2>3 DEF PermitInv
<1>7. ASSUME NEW q \in PermitRequests, Attach(q)
      PROVE  PermitInv'
    <2>. PICK p : p = [permit EXCEPT !.linked = TRUE]
        OBVIOUS
    <2>1. permit.exists
        BY <1>7 DEF Attach, PermitInv, UploadsOK, UploadOK
    <2>2. p \in PermitRow /\ p.file = permit.file /\ p.exists
        BY <1>0, <2>1 DEF PermitRow
    <2>3. QED
        BY <1>7, <2>2, <1>6 DEF Attach
<1>8. ASSUME NEW q \in PermitRequests, Create(q)
      PROVE  PermitInv'
    <2>1. CASE permit.exists
        <3>1. FilesOK' /\ UploadsOK'
            BY <1>8, <2>1, EndPart DEF Create
        <3>2. QED
            BY <1>8, <2>1, <3>1 DEF Create, PermitInv
    <2>2. CASE ~permit.exists
        <3>. PICK p : p = [exists |-> TRUE, linked |-> upload[q].approved, file |-> NoFile,
                           source |-> UploadSource(q), confirmed |-> FALSE]
            OBVIOUS
        <3>1. p \in PermitRow /\ p.file = NoFile /\ p.exists
            BY DEF PermitInv, UploadsOK, Upload, UploadSource, PermitRow
        <3>2. permit.file = NoFile
            BY <2>2 DEF PermitInv, FilesOK
        <3>3. QED
            BY <1>8, <2>2, <3>1, <3>2, <1>6 DEF Create
    <2>3. QED
        BY <2>1, <2>2
<1>9. ASSUME NEW q \in PermitRequests, WriteFile(q)
      PROVE  PermitInv'
    <2>. PICK f \in PermitFiles \ drawn :
            /\ stored' = stored \cup {f}
            /\ drawn' = drawn \cup {f}
            /\ upload' = [upload EXCEPT ![q].at = "save", ![q].new = f]
        BY <1>9 DEF WriteFile
    <2>. PICK u : u = [upload[q] EXCEPT !.at = "save", !.new = f]
        OBVIOUS
    <2>1. u \in Upload /\ u.at = "save" /\ u.new = f /\ u.row = upload[q].row
        BY DEF PermitInv, UploadsOK, Upload, UploadPc
    <2>2. upload' = [upload EXCEPT ![q] = u]
        BY DEF PermitInv, UploadsOK
    <2>3. UNCHANGED <<intake, permit>>
        BY <1>9 DEF WriteFile
    <2>4. FilesOK'
        BY <2>3 DEF PermitInv, FilesOK, FileStored, Previewable
    <2>5. UploadOK(u)'
        BY <1>9, <2>1, <2>3 DEF WriteFile, PermitInv, FilesOK, UploadsOK, UploadOK
    <2>6. ASSUME NEW r \in PermitRequests
          PROVE  UploadOK(upload[r])'
        <3>1. CASE r = q
            BY <2>2, <2>5, <3>1 DEF PermitInv, UploadsOK
        <3>2. CASE r # q
            BY <2>2, <2>3, <3>2 DEF PermitInv, UploadsOK, UploadOK
        <3>3. QED
            BY <3>1, <3>2
    <2>7. \A r \in PermitRequests : f # upload[r].row.file /\ (upload[r].at = "save" => f # upload[r].new)
        BY DEF PermitInv, UploadsOK, UploadOK
    <2>8. Apart'
        <3>1. SUFFICES ASSUME NEW r \in PermitRequests, NEW s \in PermitRequests, upload'[r].at = "save"
                       PROVE  /\ upload'[r].new # upload'[s].row.file
                              /\ (r # s /\ upload'[s].at = "save") => upload'[r].new # upload'[s].new
            BY DEF Apart
        <3>2. upload'[s].row.file = upload[s].row.file /\ upload'[r].row.file = upload[r].row.file
            BY <2>1, <2>2 DEF PermitInv, UploadsOK
        <3>3. CASE r = q
            BY <2>1, <2>2, <2>7, <3>2, <3>3 DEF PermitInv, UploadsOK
        <3>4. CASE r # q
            BY <2>1, <2>2, <2>7, <3>1, <3>2, <3>4 DEF PermitInv, UploadsOK, Apart
        <3>5. QED
            BY <3>3, <3>4
    <2>9. QED
        BY <2>1, <2>2, <2>3, <2>4, <2>6, <2>8 DEF PermitInv, UploadsOK
<1>10. ASSUME NEW q \in PermitRequests, SaveFile(q)
      PROVE  PermitInv'
    <2>. PICK f : f = upload[q].new
        OBVIOUS
    <2>1. upload[q].at = "save" /\ f \in stored \cap drawn /\ f \in PermitFiles
        BY <1>10 DEF SaveFile, PermitInv, FilesOK, UploadsOK, UploadOK
    <2>2. UploadSource(q) \in {"parent_upload", "staff_upload"}
        BY DEF UploadSource
    <2>3. permit' = [permit EXCEPT !.file = f, !.source = UploadSource(q), !.confirmed = FALSE]
        BY <1>10 DEF SaveFile
    <2>4. permit' \in PermitRow /\ permit'.file = f /\ permit'.exists = permit.exists
        BY <1>0, <2>1, <2>2, <2>3 DEF PermitRow
    <2>5. QED
        BY <1>10, <2>1, <2>4, SavePart DEF SaveFile
<1>11. ASSUME NEW q \in PermitRequests, SaveFails(q)
      PROVE  PermitInv'
    <2>1. upload[q].new # permit.file
        BY <1>11 DEF SaveFails, PermitInv, UploadsOK, UploadOK
    <2>2. \A r \in PermitRequests \ {q} : upload[r].at = "save" => upload[r].new # upload[q].new
        BY <1>11 DEF SaveFails, PermitInv, UploadsOK, Apart
    <2>3. QED
        BY <1>11, <2>1, <2>2, DeletePart DEF SaveFails
<1>12. ASSUME NEW q \in PermitRequests, Sweep(q)
      PROVE  PermitInv'
    <2>1. upload[q].row.file # permit.file \/ upload[q].row.file = NoFile
        BY <1>12 DEF Sweep, PermitInv, UploadsOK, UploadOK
    <2>2. \A r \in PermitRequests \ {q} : upload[r].at = "save" => upload[r].new # upload[q].row.file
        BY DEF PermitInv, UploadsOK, Apart
    <2>3. QED
        BY <1>12, <2>1, <2>2, DeletePart DEF Sweep
<1>13. ASSUME NEW q \in PermitRequests, SaveConfirmation(q)
      PROVE  PermitInv'
    <2>1. permit' \in PermitRow /\ permit'.file = NoFile /\ permit'.exists = permit.exists
        BY <1>0, <1>13 DEF SaveConfirmation, PermitRow
    <2>2. QED
        BY <1>13, <2>1, SavePart DEF SaveConfirmation
<1>14. ASSUME NEW q \in PermitRequests, SaveClearing(q)
      PROVE  PermitInv'
    <2>. PICK source : source = IF upload[q].row.file # NoFile THEN "parent_upload" ELSE upload[q].row.source
        OBVIOUS
    <2>1. source \in {"parent_upload", "staff_upload", "staff_confirmation"}
        BY DEF PermitInv, UploadsOK, Upload, PermitRow
    <2>2. permit' = [permit EXCEPT !.confirmed = FALSE, !.source = source]
        BY <1>14 DEF SaveClearing
    <2>3. permit' \in PermitRow /\ permit'.file = permit.file /\ permit'.exists = permit.exists
        BY <1>0, <2>1, <2>2 DEF PermitRow
    <2>4. FilesOK' /\ UploadsOK'
        BY <1>14, <2>3, EndPart DEF SaveClearing
    <2>5. QED
        BY <1>14, <2>3, <2>4 DEF SaveClearing, PermitInv
<1>15. ASSUME NEW q \in PermitRequests, UploadDies(q)
      PROVE  PermitInv'
    <2>1. FilesOK' /\ UploadsOK'
        BY <1>15, EndPart DEF UploadDies
    <2>2. QED
        BY <1>15, <2>1 DEF UploadDies, PermitInv
<1>16. ASSUME ApproveIntake
      PROVE  PermitInv'
    <2>1. permit' \in PermitRow /\ permit'.file = permit.file /\ permit'.exists = permit.exists
        BY <1>0, <1>16 DEF ApproveIntake, PermitRow
    <2>2. FilesOK'
        BY <1>16, <2>1 DEF ApproveIntake, PermitInv, FilesOK, FileStored, Previewable
    <2>3. UploadsOK'
        BY <1>16, <2>1 DEF ApproveIntake, PermitInv, UploadsOK, UploadOK, Apart
    <2>4. QED
        BY <1>16, <2>1, <2>2, <2>3 DEF ApproveIntake, PermitInv
<1>17. ASSUME RejectIntake
      PROVE  PermitInv'
    BY <1>17 DEF RejectIntake, PermitInv, FilesOK, FileStored, Previewable, UploadsOK, UploadOK, Apart
<1>18. CASE UNCHANGED permitVars
    BY <1>18 DEF permitVars, PermitInv, FilesOK, FileStored, Previewable, UploadsOK, UploadOK, Apart
<1>19. ASSUME NEW q \in PermitRequests, OpenMember(q) \/ OpenMemberByStaff(q)
      PROVE  PermitInv'
    BY <1>4, <1>19 DEF OpenMember, OpenMemberByStaff
<1>20. QED
    BY <1>2, <1>3, <1>5, <1>7, <1>8, <1>9, <1>10, <1>11, <1>12, <1>13, <1>14, <1>15, <1>16,
       <1>17, <1>18, <1>19 DEF PermitNext, PermitStep

-----------------------------------------------------------------------------

LEMMA PermitAlwaysInv == PermitSpec => []PermitInv
BY PermitInvInit, StepKeepsPermitInv, PTL DEF PermitSpec

\* Every variable keeps its type.
THEOREM PermitTypeCorrect == PermitSpec => []PermitTypeOK
BY PermitAlwaysInv, PermitInvType, PTL

\* Whatever uploads, confirmations and crashes leave behind, the row never
\* names a file that was deleted (documents/medical_permits.py:166-210).
THEOREM NamedFileStays == PermitSpec => []FileStored
BY PermitAlwaysInv, PermitInvType, PTL

-----------------------------------------------------------------------------
(* Signed copies *)

\* What one upload knows as long as no other is under way: it read the name the
\* agreement holds, the file it writes is a new one, and what it deletes is not
\* the one it has made the agreement's.
SendingOK(s) ==
    /\ s.at \in {"read", "written", "failing"} => s.old = artifact
    /\ s.at \in {"written", "failing"} => s.new \in vault /\ s.new # artifact
    /\ s.at = "committed" => s.new = artifact /\ s.old # artifact

\* Uploads that follow each other: at most one is under way.
Alone ==
    \A q, r \in ArtifactRequests :
        sending[q].at # "idle" /\ sending[r].at # "idle" => q = r

ArtifactInv ==
    /\ ArtifactTypeOK
    /\ ~overlapped =>
          /\ Alone
          /\ \A q \in ArtifactRequests : SendingOK(sending[q])
          /\ artifact # NoName => artifact \in vault

LEMMA NotSendingType == NotSending \in Sending /\ NotSending.at = "idle"
BY DEF NotSending, Sending, Names

LEMMA ArtifactInvInit == ArtifactInit => ArtifactInv
BY NotSendingType DEF ArtifactInit, ArtifactInv, ArtifactTypeOK, Alone, SendingOK, Names

\* A request's edit of its own entry.
LEMMA SendingEdits ==
    ASSUME NEW s \in Sending
    PROVE  /\ \A at \in {"idle", "read", "written", "failing", "committed"} :
                 /\ [s EXCEPT !.at = at] \in Sending
                 /\ \A f \in Names : /\ [s EXCEPT !.at = at, !.old = f] \in Sending
                                     /\ [s EXCEPT !.at = at, !.new = f] \in Sending
BY DEF Sending

LEMMA ArtifactStepKinds ==
    ASSUME ArtifactTypeOK, NEW q \in ArtifactRequests, ArtifactStep(q)
    PROVE  /\ ReadAgreement(q) \/ (sending[q].at # "idle" /\ overlapped' = overlapped)
           /\ \A r \in ArtifactRequests \ {q} : sending'[r] = sending[r]
<1> USE DEF ArtifactTypeOK, Done
<1>1. CASE ReadAgreement(q)
  <2>1. \A r \in ArtifactRequests \ {q} : sending'[r] = sending[r]
    BY <1>1 DEF ReadAgreement
  <2> QED BY <1>1, <2>1
<1>2. CASE WriteArtifact(q)
  <2>1. PICK f \in ArtifactNames :
          sending' = [sending EXCEPT ![q].at = "written", ![q].new = f]
    BY <1>2 DEF WriteArtifact
  <2>2. sending[q].at # "idle" /\ overlapped' = overlapped
    BY <1>2 DEF WriteArtifact
  <2> QED BY <2>1, <2>2
<1>3. CASE CommitArtifact(q)
  BY <1>3 DEF CommitArtifact
<1>4. CASE RollBack(q) \/ RemoveNew(q)
  BY <1>4 DEF RollBack, RemoveNew
<1>5. CASE DeleteOld(q) \/ SendingDies(q)
  BY <1>5 DEF DeleteOld, SendingDies
<1> QED BY <1>1, <1>2, <1>3, <1>4, <1>5 DEF ArtifactStep

LEMMA ArtifactTypeStep == ArtifactTypeOK /\ ArtifactNext => ArtifactTypeOK'
<1> SUFFICES ASSUME ArtifactTypeOK, NEW q \in ArtifactRequests, ArtifactStep(q)
             PROVE  ArtifactTypeOK'
  BY DEF ArtifactNext
<1> USE NamesAssumption, NotSendingType DEF ArtifactTypeOK, Names
<1>0. sending[q] \in Sending /\ sending[q].old \in Names /\ sending[q].new \in Names
  BY DEF Sending
<1>1. CASE ReadAgreement(q)
  BY <1>0, <1>1, SendingEdits DEF ReadAgreement
<1>2. CASE WriteArtifact(q)
  <2>1. PICK f \in ArtifactNames :
          /\ vault' = vault \cup {f}
          /\ sending' = [sending EXCEPT ![q].at = "written", ![q].new = f]
    BY <1>2 DEF WriteArtifact
  <2> QED BY <1>0, <1>2, <2>1, SendingEdits DEF WriteArtifact
<1>3. CASE CommitArtifact(q)
  <2>1. sending[q].new \in Names
    BY <1>0
  <2> QED BY <1>0, <1>3, <2>1, SendingEdits DEF CommitArtifact
<1>4. CASE RollBack(q)
  BY <1>0, <1>4, SendingEdits DEF RollBack
<1>5. CASE RemoveNew(q)
  BY <1>5 DEF RemoveNew, Done
<1>6. CASE DeleteOld(q)
  BY <1>6 DEF DeleteOld, Done
<1>7. CASE SendingDies(q)
  BY <1>7 DEF SendingDies, Done
<1> QED BY <1>1, <1>2, <1>3, <1>4, <1>5, <1>6, <1>7 DEF ArtifactStep

LEMMA ArtifactInvStep == ArtifactInv /\ [ArtifactNext]_artifactVars => ArtifactInv'
<1> SUFFICES ASSUME ArtifactInv, [ArtifactNext]_artifactVars PROVE ArtifactInv'
  OBVIOUS
<1>1. ASSUME NEW q \in ArtifactRequests, ArtifactStep(q) PROVE ArtifactInv'
  <2>0. ArtifactTypeOK /\ ArtifactTypeOK' /\ sending[q] \in Sending
    BY <1>1, ArtifactTypeStep DEF ArtifactInv, ArtifactNext, ArtifactTypeOK
  <2>1. SUFFICES ASSUME ~overlapped'
                 PROVE  /\ Alone'
                        /\ \A r \in ArtifactRequests : SendingOK(sending[r])'
                        /\ (artifact # NoName => artifact \in vault)'
    BY <2>0 DEF ArtifactInv
  <2>2. /\ ~overlapped
        /\ sending[q].at = "idle" => \A r \in ArtifactRequests : sending[r].at = "idle"
    BY <1>1, <2>0, <2>1, ArtifactStepKinds DEF ReadAgreement
  <2>3. /\ Alone /\ SendingOK(sending[q])
        /\ artifact # NoName => artifact \in vault
    BY <2>2 DEF ArtifactInv
  <2>4. \A r \in ArtifactRequests \ {q} : sending[r].at = "idle" /\ sending'[r] = sending[r]
    BY <1>1, <2>0, <2>2, <2>3, ArtifactStepKinds DEF Alone
  <2>5. \A r \in ArtifactRequests \ {q} : SendingOK(sending[r])'
    BY <2>4 DEF SendingOK
  <2>6. Alone'
    BY <2>4 DEF Alone
  <2>7. SendingOK(sending[q])' /\ (artifact # NoName => artifact \in vault)'
    <3> USE <2>0, <2>3 DEF SendingOK, ArtifactTypeOK
    <3>1. CASE ReadAgreement(q)
      BY <3>1 DEF ReadAgreement, Sending
    <3>2. CASE WriteArtifact(q)
      <4>1. PICK f \in ArtifactNames :
              /\ f \notin vault /\ vault' = vault \cup {f}
              /\ sending' = [sending EXCEPT ![q].at = "written", ![q].new = f]
        BY <3>2 DEF WriteArtifact, Available
      <4>2. /\ sending'[q].at = "written" /\ sending'[q].new = f
            /\ sending'[q].old = sending[q].old
        BY <4>1 DEF Sending
      <4>3. f # artifact
        BY <4>1, NamesAssumption
      <4> QED BY <3>2, <4>1, <4>2, <4>3 DEF WriteArtifact
    <3>3. CASE CommitArtifact(q)
      <4>1. /\ sending'[q].at = "committed" /\ sending'[q].new = sending[q].new
            /\ sending'[q].old = sending[q].old
        BY <3>3 DEF CommitArtifact, Sending
      <4> QED BY <3>3, <4>1 DEF CommitArtifact
    <3>4. CASE RollBack(q)
      <4>1. /\ sending'[q].at = "failing" /\ sending'[q].new = sending[q].new
            /\ sending'[q].old = sending[q].old
        BY <3>4 DEF RollBack, Sending
      <4> QED BY <3>4, <4>1 DEF RollBack
    <3>5. CASE RemoveNew(q)
      BY <3>5, NotSendingType DEF RemoveNew, Done
    <3>6. CASE DeleteOld(q)
      BY <3>6, NotSendingType DEF DeleteOld, Done
    <3>7. CASE SendingDies(q)
      BY <3>7, NotSendingType DEF SendingDies, Done
    <3> QED BY <1>1, <3>1, <3>2, <3>3, <3>4, <3>5, <3>6, <3>7 DEF ArtifactStep
  <2> QED BY <2>5, <2>6, <2>7
<1>2. CASE UNCHANGED artifactVars
  BY <1>2 DEF artifactVars, ArtifactInv, ArtifactTypeOK, Alone, SendingOK
<1> QED BY <1>1, <1>2 DEF ArtifactNext

\* For any number of uploads and names: while uploads follow each other, the
\* signed copy an agreement names is in the store, whatever breaks off and
\* although names are handed out again.
THEOREM SignedCopyStays == ArtifactSpec => []ArtifactStored
<1>1. ArtifactInv => ArtifactStored
  BY DEF ArtifactInv, ArtifactStored
<1> QED BY <1>1, ArtifactInvInit, ArtifactInvStep, PTL DEF ArtifactSpec
=============================================================================

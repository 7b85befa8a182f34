----------------------- MODULE ApplicationReview_proofs -----------------------
(***************************************************************************)
(* The digest never passes a submission over, and a resolved correction     *)
(* stays resolved: proofs for any number of requests, messages and members.  *)
(***************************************************************************)
EXTENDS ApplicationReview, TLAPS

USE ReviewAssumption

-----------------------------------------------------------------------------
(* The inductive invariant *)

\* A copy of the row that says the digest has been mailed names a submission it
\* did list: a draft save may put that copy back at any time.
CopiesReported ==
    \A h \in DeskSlots : desk[h].seen.told => desk[h].seen.event \in reported

\* Only messages that exist are resolved.
ResolvedMade == \A m \in MessageIds : messages[m].resolved # "no" => messages[m].made

ReviewInv == ReviewTypeOK /\ ToldWasReported /\ CopiesReported /\ ResolvedMade

\* The rows of the type invariant, so that a step can name the part it disturbs.
RowsOK ==
    /\ app \in AppRow
    /\ members \in [MemberIds -> Data \cup {NotApproved}]
    /\ messages \in [MessageIds -> MessageRow]
    /\ reported \in SUBSET (1 .. MaxEvents)

DeskOK == desk \in [DeskSlots -> Request]

LEMMA TypesSplit == ReviewTypeOK <=> RowsOK /\ DeskOK
BY DEF ReviewTypeOK, RowsOK, DeskOK

LEMMA BlankIsRow == Blank \in AppRow
BY DEF Blank, AppRow, AppStatus, Editable, Data

LEMMA IdleIsRequest == IdleRequest \in Request
<1>1. (CHOOSE m \in MessageIds : TRUE) \in MessageIds
    OBVIOUS
<1>2. QED
    BY <1>1, BlankIsRow DEF IdleRequest, Request, DeskPc, Data

LEMMA NoMessageIsRow == NoMessage \in MessageRow
BY DEF NoMessage, MessageRow

LEMMA ReviewInvInit == ReviewInit => ReviewInv
<1> SUFFICES ASSUME ReviewInit
             PROVE  ReviewInv
    OBVIOUS
<1>1. RowsOK
    BY BlankIsRow, NoMessageIsRow DEF ReviewInit, RowsOK
<1>2. DeskOK
    BY IdleIsRequest DEF ReviewInit, DeskOK
<1>3. ToldWasReported
    BY DEF ReviewInit, ToldWasReported, Blank
<1>4. CopiesReported
    BY DEF ReviewInit, CopiesReported, IdleRequest, Blank
<1>5. ResolvedMade
    BY DEF ReviewInit, ResolvedMade, NoMessage
<1>6. QED
    BY <1>1, <1>2, <1>3, <1>4, <1>5, TypesSplit DEF ReviewInv

-----------------------------------------------------------------------------
(* What the helpers do to the invariant *)

\* A request that changes keeps the invariant of the copies if its own copy does.
LEMMA DeskPart ==
    ASSUME DeskOK, CopiesReported, reported \subseteq reported',
           NEW h \in DeskSlots, NEW r \in Request,
           desk' = [desk EXCEPT ![h] = r],
           r.seen.told => r.seen.event \in reported'
    PROVE  DeskOK' /\ CopiesReported'
BY DEF DeskOK, CopiesReported

LEMMA BeginRequestPart ==
    ASSUME ReviewInv, reported \subseteq reported',
           NEW h \in DeskSlots, NEW pc \in DeskPc, NEW typed \in Data, NEW submit \in BOOLEAN,
           desk' = [desk EXCEPT ![h] = [IdleRequest EXCEPT
                        !.at = pc, !.seen = app, !.typed = typed, !.submit = submit]]
    PROVE  DeskOK' /\ CopiesReported'
<1> DEFINE r == [IdleRequest EXCEPT !.at = pc, !.seen = app, !.typed = typed, !.submit = submit]
<1>1. app \in AppRow
    BY DEF ReviewInv, ReviewTypeOK
<1>2. r \in Request /\ r.seen = app
    BY <1>1, IdleIsRequest DEF Request
<1>3. app.told => app.event \in reported'
    BY DEF ReviewInv, ToldWasReported
<1> HIDE DEF r
<1>4. desk' = [desk EXCEPT ![h] = r]
    BY DEF r
<1>5. DeskOK /\ CopiesReported
    BY TypesSplit DEF ReviewInv
<1>6. QED
    BY <1>2, <1>3, <1>4, <1>5, DeskPart

LEMMA BeginReviewPart ==
    ASSUME ReviewInv, reported \subseteq reported',
           NEW h \in DeskSlots, NEW pc \in DeskPc, BeginReview(h, pc)
    PROVE  DeskOK' /\ CopiesReported'
<1> DEFINE r == [IdleRequest EXCEPT !.at = pc, !.seen = app]
<1>1. app \in AppRow
    BY DEF ReviewInv, ReviewTypeOK
<1>2. r \in Request /\ r.seen = app
    BY <1>1, IdleIsRequest DEF Request
<1>3. app.told => app.event \in reported'
    BY DEF ReviewInv, ToldWasReported
<1>4. desk' = [desk EXCEPT ![h] = r]
    BY DEF BeginReview
<1> HIDE DEF r
<1>5. DeskOK /\ CopiesReported
    BY TypesSplit DEF ReviewInv
<1>6. QED
    BY <1>2, <1>3, <1>4, <1>5, DeskPart

LEMMA FinishPart ==
    ASSUME ReviewInv, reported \subseteq reported', NEW h \in DeskSlots, Finish(h)
    PROVE  DeskOK' /\ CopiesReported'
<1>1. ~IdleRequest.seen.told
    BY DEF IdleRequest, Blank
<1>2. DeskOK /\ CopiesReported
    BY TypesSplit DEF ReviewInv
<1>3. desk' = [desk EXCEPT ![h] = IdleRequest]
    BY DEF Finish
<1>4. QED
    BY <1>1, <1>2, <1>3, DeskPart, IdleIsRequest

\* A request goes on with the copy it has.
LEMMA GoOnPart ==
    ASSUME ReviewInv, reported \subseteq reported', NEW h \in DeskSlots,
           NEW pc \in DeskPc, NEW m \in MessageIds, NEW result \in {"sent", "failed"},
           desk' = [desk EXCEPT ![h] = [desk[h] EXCEPT !.at = pc, !.message = m, !.result = result]]
    PROVE  DeskOK' /\ CopiesReported'
<1> DEFINE r == [desk[h] EXCEPT !.at = pc, !.message = m, !.result = result]
<1>1. DeskOK /\ CopiesReported
    BY TypesSplit DEF ReviewInv
<1>2. r \in Request /\ r.seen = desk[h].seen
    BY <1>1 DEF DeskOK, Request
<1>3. desk[h].seen.told => desk[h].seen.event \in reported'
    BY <1>1 DEF CopiesReported
<1> HIDE DEF r
<1>4. desk' = [desk EXCEPT ![h] = r]
    BY DEF r
<1>5. QED
    BY <1>1, <1>2, <1>3, <1>4, DeskPart

LEMMA SubmittedRow ==
    ASSUME NEW row \in AppRow, row.event < MaxEvents
    PROVE  Submitted(row) \in AppRow /\ ~Submitted(row).told
<1>1. row.event + 1 \in 0 .. MaxEvents
    BY DEF AppRow
<1>2. QED
    BY <1>1 DEF Submitted, AppRow, AppStatus

LEMMA ResolvePart ==
    ASSUME RowsOK, ResolvedMade, NEW source \in {"parent", "staff"}, ResolveAll(source)
    PROVE  /\ messages' \in [MessageIds -> MessageRow]
           /\ ResolvedMade'
           /\ \A m \in MessageIds : messages[m].resolved # "no"
                    => messages'[m].resolved = messages[m].resolved
BY DEF RowsOK, ResolvedMade, ResolveAll, Unresolved, MessageRow

-----------------------------------------------------------------------------
(* Every step keeps the invariant, and resolved corrections *)

Stays ==
    \A m \in MessageIds : messages[m].resolved # "no"
        => messages'[m].resolved = messages[m].resolved

RowsPart == RowsOK' /\ ToldWasReported' /\ ResolvedMade' /\ Stays

\* A step that leaves the rows alone.
LEMMA RowsKept ==
    ASSUME ReviewInv, UNCHANGED <<app, members, messages, reported>>
    PROVE  RowsPart
BY TypesSplit DEF ReviewInv, RowsPart, RowsOK, ToldWasReported, ResolvedMade, Stays

\* A step that writes the application, and maybe members, only.
LEMMA AppWritten ==
    ASSUME ReviewInv, app' \in AppRow, app'.told => app'.event \in reported,
           members' \in [MemberIds -> Data \cup {NotApproved}],
           UNCHANGED <<messages, reported>>
    PROVE  RowsPart
BY TypesSplit DEF ReviewInv, RowsPart, RowsOK, ToldWasReported, ResolvedMade, Stays

LEMMA ParentPart ==
    ASSUME ReviewInv, NEW p \in ParentTabs, ParentStep(p)
    PROVE  RowsPart /\ DeskOK' /\ CopiesReported'
<1> USE DEF DeskSlots
<1>1. /\ RowsOK /\ DeskOK /\ ToldWasReported /\ CopiesReported /\ ResolvedMade
      /\ desk[p] \in Request
    BY TypesSplit DEF ReviewInv, DeskOK
<1>2. ASSUME NEW typed \in Data, NEW submit \in BOOLEAN, OpenWorkspace(p, typed, submit)
      PROVE  RowsPart /\ DeskOK' /\ CopiesReported'
    <2>1. RowsPart
        BY <1>2, RowsKept DEF OpenWorkspace
    <2>2. reported \subseteq reported' /\ "saving" \in DeskPc
        BY <1>2 DEF OpenWorkspace, DeskPc
    <2>3. desk' = [desk EXCEPT ![p] = [IdleRequest EXCEPT
                      !.at = "saving", !.seen = app, !.typed = typed, !.submit = submit]]
        BY <1>2 DEF OpenWorkspace
    <2>4. DeskOK' /\ CopiesReported'
        BY <2>2, <2>3, BeginRequestPart
    <2>5. QED
        BY <2>1, <2>4
<1>3. CASE SaveDraft(p)
    <2> DEFINE row == DraftOf(desk[p].seen, desk[p].typed)
    <2>1. /\ row \in AppRow
          /\ row.told = desk[p].seen.told
          /\ row.event = desk[p].seen.event
        BY <1>1 DEF DraftOf, Request, AppRow, AppStatus, Editable
    <2>2. /\ app' = row
          /\ UNCHANGED <<members, messages, reported>>
          /\ \/ desk' = [desk EXCEPT ![p] = [desk[p] EXCEPT !.at = "submitting", !.seen = row]]
             \/ Finish(p)
        BY <1>3, <1>1 DEF SaveDraft, DeskOK
    <2>3. row.told => row.event \in reported
        BY <2>1, <1>1 DEF CopiesReported
    <2>4. RowsPart
        BY <2>1, <2>2, <2>3, <1>1, AppWritten DEF RowsOK
    <2>5. CASE desk' = [desk EXCEPT ![p] = [desk[p] EXCEPT !.at = "submitting", !.seen = row]]
        <3> DEFINE r == [desk[p] EXCEPT !.at = "submitting", !.seen = row]
        <3>1. r \in Request /\ r.seen = row
            BY <1>1, <2>1 DEF Request, DeskPc
        <3> HIDE DEF row
        <3>2. desk' = [desk EXCEPT ![p] = r]
            BY <2>5
        <3> HIDE DEF r
        <3>3. reported \subseteq reported'
            BY <2>2
        <3>4. r.seen.told => r.seen.event \in reported'
            BY <3>1, <2>3, <2>2
        <3>5. QED
            BY <1>1, <3>1, <3>2, <3>3, <3>4, DeskPart, <2>4
    <2>6. CASE Finish(p)
        BY <2>6, <2>2, <2>4, FinishPart
    <2>7. QED
        BY <2>2, <2>5, <2>6
<1>4. CASE SubmitApplication(p)
    <2>1. app' \in AppRow /\ ~app'.told
        BY <1>1, <1>4, SubmittedRow DEF SubmitApplication, RowsOK
    <2>2. /\ messages' \in [MessageIds -> MessageRow]
          /\ ResolvedMade'
          /\ Stays
        BY <1>1, <1>4, ResolvePart DEF SubmitApplication, Stays
    <2>3. RowsPart
        BY <2>1, <2>2, <1>1, <1>4
        DEF SubmitApplication, RowsPart, RowsOK, ToldWasReported
    <2>4. QED
        BY <2>3, <1>4, FinishPart DEF SubmitApplication
<1>5. CASE SubmitRefused(p)
    BY <1>5, RowsKept, FinishPart DEF SubmitRefused
<1>6. QED
    BY <1>2, <1>3, <1>4, <1>5 DEF ParentStep, OpenSubmission

LEMMA StaffPart ==
    ASSUME ReviewInv, NEW s \in Reviewers, StaffStep(s)
    PROVE  RowsPart /\ DeskOK' /\ CopiesReported'
<1> USE DEF DeskSlots
<1>1. /\ RowsOK /\ DeskOK /\ ToldWasReported /\ CopiesReported /\ ResolvedMade
      /\ desk[s] \in Request
    BY TypesSplit DEF ReviewInv, DeskOK
<1>2. ASSUME NEW pc \in {"fixing", "rejecting", "approving"}, OpenReview(s, pc)
      PROVE  RowsPart /\ DeskOK' /\ CopiesReported'
    <2>1. pc \in DeskPc
        BY DEF DeskPc
    <2>2. QED
        BY <1>2, <2>1, RowsKept, BeginReviewPart DEF OpenReview
<1>3. ASSUME NEW pc \in DeskPc, Move(s, pc), reported \subseteq reported'
      PROVE  DeskOK' /\ CopiesReported'
    <2>1. desk' = [desk EXCEPT ![s] = [desk[s] EXCEPT
                      !.at = pc, !.message = desk[s].message, !.result = desk[s].result]]
        BY <1>1, <1>3 DEF Move, DeskOK, Request
    <2>2. desk[s].message \in MessageIds /\ desk[s].result \in {"sent", "failed"}
        BY <1>1 DEF Request
    <2>3. QED
        BY <1>3, <2>1, <2>2, GoOnPart
<1>4. CASE SaveFix(s)
    <2>1. app' \in AppRow /\ app'.told = app.told /\ app'.event = app.event
        BY <1>1, <1>4 DEF SaveFix, RowsOK, AppRow, AppStatus, Editable
    <2>2. RowsPart
        BY <2>1, <1>1, <1>4, AppWritten DEF SaveFix, ToldWasReported, RowsOK
    <2>3. QED
        BY <2>2, <1>3, <1>4 DEF SaveFix, DeskPc
<1>5. CASE CreateMessage(s)
    <2>1. PICK m \in MessageIds :
              /\ ~messages[m].made
              /\ messages' = [messages EXCEPT ![m] = [NoMessage EXCEPT !.made = TRUE]]
              /\ desk' = [desk EXCEPT ![s].at = "mail", ![s].message = m]
        BY <1>5 DEF CreateMessage
    <2>2. [NoMessage EXCEPT !.made = TRUE] \in MessageRow
        BY NoMessageIsRow DEF MessageRow
    <2>3. RowsPart
        BY <2>1, <2>2, <1>1, <1>5
        DEF CreateMessage, RowsPart, RowsOK, ToldWasReported, ResolvedMade, Stays
    <2>4. desk' = [desk EXCEPT ![s] = [desk[s] EXCEPT
                      !.at = "mail", !.message = m, !.result = desk[s].result]]
        BY <2>1, <1>1 DEF DeskOK, Request
    <2>5. desk[s].result \in {"sent", "failed"} /\ "mail" \in DeskPc
        BY <1>1 DEF Request, DeskPc
    <2>6. QED
        BY <2>3, <2>4, <2>5, <1>5, GoOnPart DEF CreateMessage
<1>6. CASE MailFix(s)
    <2>1. PICK r \in {"sent", "failed"} :
              desk' = [desk EXCEPT ![s].at = "outcome", ![s].result = r]
        BY <1>6 DEF MailFix
    <2>2. desk' = [desk EXCEPT ![s] = [desk[s] EXCEPT
                      !.at = "outcome", !.message = desk[s].message, !.result = r]]
        BY <2>1, <1>1 DEF DeskOK, Request
    <2>3. desk[s].message \in MessageIds /\ "outcome" \in DeskPc
        BY <1>1 DEF Request, DeskPc
    <2>4. QED
        BY <2>2, <2>3, <1>6, RowsKept, GoOnPart DEF MailFix
<1>7. CASE SaveOutcome(s)
    <2>1. /\ messages' \in [MessageIds -> MessageRow]
          /\ ResolvedMade'
          /\ Stays
        BY <1>1, <1>7 DEF SaveOutcome, RowsOK, Request, MessageRow, ResolvedMade, Stays
    <2>2. RowsPart
        BY <2>1, <1>1, <1>7 DEF SaveOutcome, RowsPart, RowsOK, ToldWasReported
    <2>3. QED
        BY <2>2, <1>7, FinishPart DEF SaveOutcome
<1>8. CASE SaveReject(s)
    <2>1. app' \in AppRow /\ app'.told = app.told /\ app'.event = app.event
        BY <1>1, <1>8 DEF SaveReject, RowsOK, AppRow, AppStatus
    <2>2. RowsPart
        BY <2>1, <1>1, <1>8, AppWritten DEF SaveReject, ToldWasReported, RowsOK
    <2>3. QED
        BY <2>2, <1>8, FinishPart DEF SaveReject
<1>9. CASE ApproveApplication(s)
    <2>1. PICK m \in MemberIds :
              /\ members' = [members EXCEPT ![m] = desk[s].seen.child]
              /\ app' = [app EXCEPT !.status = "approved", !.member = m]
        BY <1>9 DEF ApproveApplication
    <2>2. app' \in AppRow /\ app'.told = app.told /\ app'.event = app.event
        BY <1>1, <2>1 DEF RowsOK, AppRow, AppStatus
    <2>3. members' \in [MemberIds -> Data \cup {NotApproved}]
        <3>1. desk[s].seen.child \in Data
            BY <1>1 DEF Request, AppRow
        <3>2. QED
            BY <3>1, <1>1, <2>1 DEF RowsOK
    <2>4. app'.told => app'.event \in reported
        BY <1>1, <2>2 DEF ToldWasReported
    <2>5. UNCHANGED <<messages, reported>>
        BY <1>9 DEF ApproveApplication
    <2>6. RowsPart
        BY <2>2, <2>3, <2>4, <2>5, AppWritten
    <2>7. QED
        BY <2>6, <1>9, FinishPart DEF ApproveApplication
<1>10. CASE ApproveAgain(s)
    BY <1>10, RowsKept, FinishPart DEF ApproveAgain
<1>11. CASE Resolve(s)
    <2>1. app' \in AppRow /\ ~app'.told
        BY <1>1, <1>11, SubmittedRow DEF Resolve, RowsOK
    <2>2. /\ messages' \in [MessageIds -> MessageRow]
          /\ ResolvedMade'
          /\ Stays
        BY <1>1, <1>11, ResolvePart DEF Resolve, Stays
    <2>3. RowsPart
        BY <2>1, <2>2, <1>1, <1>11 DEF Resolve, RowsPart, RowsOK, ToldWasReported
    <2>4. QED
        BY <2>3, <1>1, <1>11 DEF Resolve, DeskOK, CopiesReported
<1>12. ASSUME NEW typed \in Children, OpenEdit(s, typed)
       PROVE  RowsPart /\ DeskOK' /\ CopiesReported'
    <2>1. desk' = [desk EXCEPT ![s] = [IdleRequest EXCEPT
                      !.at = "editing", !.seen = app, !.typed = typed, !.submit = FALSE]]
        <3>1. IdleRequest \in Request /\ IdleRequest.submit = FALSE
            BY IdleIsRequest DEF IdleRequest
        <3>2. QED
            BY <3>1, <1>12 DEF OpenEdit, Request
    <2>2. typed \in Data /\ "editing" \in DeskPc
        BY DEF Data, DeskPc
    <2>3. UNCHANGED <<app, members, messages, reported>>
        BY <1>12 DEF OpenEdit
    <2>4. RowsPart
        BY <2>3, RowsKept
    <2>5. DeskOK' /\ CopiesReported'
        BY <2>1, <2>2, <2>3, BeginRequestPart
    <2>6. QED
        BY <2>4, <2>5
<1>13. CASE SaveEdit(s)
    <2>1. app' \in AppRow /\ app'.told = app.told /\ app'.event = app.event
        BY <1>1, <1>13 DEF SaveEdit, RowsOK, AppRow, Request
    <2>2. members' \in [MemberIds -> Data \cup {NotApproved}]
        BY <1>1, <1>13 DEF SaveEdit, RowsOK, Request
    <2>3. RowsPart
        BY <2>1, <2>2, <1>1, <1>13, AppWritten DEF SaveEdit, ToldWasReported
    <2>4. QED
        BY <2>3, <1>13, FinishPart DEF SaveEdit
<1>14. QED
    BY <1>2, <1>4, <1>5, <1>6, <1>7, <1>8, <1>9, <1>10, <1>11, <1>12, <1>13 DEF StaffStep

LEMMA DigestPart ==
    ASSUME ReviewInv, Digest
    PROVE  RowsPart /\ DeskOK' /\ CopiesReported'
<1>1. /\ RowsOK /\ DeskOK /\ ToldWasReported /\ CopiesReported /\ ResolvedMade
      /\ UNCHANGED <<members, messages, desk>>
      /\ reported' = reported \cup {app.event}
      /\ app' = app \/ app' = [app EXCEPT !.told = TRUE]
    BY TypesSplit DEF ReviewInv, Digest, DigestSends, DigestInterrupted
<1>2. app.event \in 1 .. MaxEvents
    BY <1>1 DEF Digest, DigestSends, DigestInterrupted, PendingDigest, RowsOK, AppRow
<1>3. app' \in AppRow /\ app'.event = app.event
    BY <1>1 DEF RowsOK, AppRow
<1>4. RowsPart
    BY <1>1, <1>2, <1>3 DEF RowsPart, RowsOK, ToldWasReported, ResolvedMade, Stays
<1>5. DeskOK' /\ CopiesReported'
    BY <1>1 DEF DeskOK, CopiesReported
<1>6. QED
    BY <1>4, <1>5

LEMMA ReviewStep ==
    ASSUME ReviewInv, [ReviewNext]_reviewVars
    PROVE  ReviewInv' /\ Stays
<1>1. CASE \E p \in ParentTabs : ParentStep(p)
    BY <1>1, ParentPart, TypesSplit DEF RowsPart, ReviewInv, ReviewTypeOK, RowsOK, DeskOK
<1>2. CASE \E s \in Reviewers : StaffStep(s)
    BY <1>2, StaffPart, TypesSplit DEF RowsPart, ReviewInv, ReviewTypeOK, RowsOK, DeskOK
<1>3. CASE \E h \in DeskSlots : RequestEnds(h)
    <2>1. PICK h \in DeskSlots : RequestEnds(h)
        BY <1>3
    <2>2. RowsPart /\ DeskOK' /\ CopiesReported'
        BY <2>1, RowsKept, FinishPart DEF RequestEnds
    <2>3. QED
        BY <2>2 DEF RowsPart, ReviewInv, ReviewTypeOK, RowsOK, DeskOK
<1>4. CASE Digest
    BY <1>4, DigestPart DEF RowsPart, ReviewInv, ReviewTypeOK, RowsOK, DeskOK
<1>5. CASE UNCHANGED reviewVars
    <2>1. RowsPart /\ DeskOK' /\ CopiesReported'
        BY <1>5, RowsKept, TypesSplit DEF reviewVars, ReviewInv, DeskOK, CopiesReported
    <2>2. QED
        BY <2>1 DEF RowsPart, ReviewInv, ReviewTypeOK, RowsOK, DeskOK
<1>6. QED
    BY <1>1, <1>2, <1>3, <1>4, <1>5 DEF ReviewNext

LEMMA ReviewInvAlways == ReviewSpec => []ReviewInv
<1>1. ReviewInv /\ [ReviewNext]_reviewVars => ReviewInv'
    BY ReviewStep
<1>2. QED
    BY <1>1, ReviewInvInit, PTL DEF ReviewSpec

-----------------------------------------------------------------------------
(* Theorems *)

\* The application, its members, its messages and the requests keep their types.
THEOREM ReviewTypeCorrect == ReviewSpec => []ReviewTypeOK
<1>1. ReviewInv => ReviewTypeOK
    BY DEF ReviewInv
<1>2. QED
    BY <1>1, ReviewInvAlways, PTL

\* The digest flag never claims a mail that was not sent, whatever copies of the
\* row draft saves put back (services.py:690-700, tasks.py:129-137).
THEOREM NoSubmissionPassedOver == ReviewSpec => []ToldWasReported
<1>1. ReviewInv => ToldWasReported
    BY DEF ReviewInv
<1>2. QED
    BY <1>1, ReviewInvAlways, PTL

\* A resolved correction keeps who resolved it (services.py:1052-1058).
THEOREM ResolutionNeverReopens == ReviewSpec => ResolutionStays
<1>1. ReviewInv /\ [ReviewNext]_reviewVars
         => [\A m \in MessageIds : messages[m].resolved # "no"
                 => messages'[m].resolved = messages[m].resolved]_messages
    BY ReviewStep DEF Stays
<1>2. QED
    BY <1>1, ReviewInvAlways, PTL DEF ReviewSpec, ResolutionStays
-----------------------------------------------------------------------------
(* What an overtaken request may do *)

\* The checks the requests passed before they read on (views.py's editable
\* test, the review buttons' status test).
Checked(r) ==
    /\ r.at = "saving" => r.seen.status \in Editable
    /\ r.at = "fixing" => r.seen.status = "submitted"

AllChecked == \A h \in DeskSlots : Checked(desk[h])

LEMMA IdleChecked == Checked(IdleRequest)
BY DEF Checked, IdleRequest

\* One request changes at most.
LEMMA CheckedPart ==
    ASSUME DeskOK, AllChecked, NEW h \in DeskSlots, NEW r, Checked(r),
           desk' = [desk EXCEPT ![h] = r]
    PROVE  AllChecked'
BY DEF DeskOK, AllChecked, Checked

LEMMA FinishChecked ==
    ASSUME DeskOK, AllChecked, NEW h \in DeskSlots, Finish(h)
    PROVE  AllChecked'
BY IdleChecked, CheckedPart DEF Finish

LEMMA MoveChecked ==
    ASSUME DeskOK, AllChecked, NEW h \in DeskSlots, NEW pc \in {"message", "mail", "outcome"},
           NEW r, r.at = pc, desk' = [desk EXCEPT ![h] = r]
    PROVE  AllChecked'
<1>1. Checked(r)
    BY DEF Checked
<1>2. QED
    BY <1>1, CheckedPart

LEMMA StepKeepsChecked ==
    ASSUME ReviewInv, AllChecked, [ReviewNext]_reviewVars
    PROVE  AllChecked'
<1>1. DeskOK /\ RowsOK
    BY TypesSplit DEF ReviewInv
<1>2. ASSUME NEW p \in ParentTabs, NEW typed \in Data, NEW submit \in BOOLEAN,
             OpenWorkspace(p, typed, submit)
      PROVE  AllChecked'
    <2> DEFINE r == [IdleRequest EXCEPT
                        !.at = "saving", !.seen = app, !.typed = typed, !.submit = submit]
    <2>1. Checked(r)
        BY <1>2, IdleIsRequest DEF OpenWorkspace, Checked, Request
    <2>2. desk' = [desk EXCEPT ![p] = r] /\ p \in DeskSlots
        BY <1>2 DEF OpenWorkspace, DeskSlots
    <2> HIDE DEF r
    <2>3. QED
        BY <1>1, <2>1, <2>2, CheckedPart
<1>3. ASSUME NEW p \in ParentTabs, SaveDraft(p)
      PROVE  AllChecked'
    <2>1. p \in DeskSlots /\ desk[p] \in Request
        BY <1>1 DEF DeskOK, DeskSlots
    <2>2. CASE Finish(p)
        BY <1>1, <2>1, <2>2, FinishChecked
    <2>3. CASE desk' = [desk EXCEPT ![p].at = "submitting", ![p].seen = app']
        <3> DEFINE r == [desk[p] EXCEPT !.at = "submitting", !.seen = app']
        <3>1. Checked(r)
            BY <2>1 DEF Checked, Request
        <3>2. desk' = [desk EXCEPT ![p] = r]
            BY <1>1, <2>1, <2>3 DEF DeskOK
        <3> HIDE DEF r
        <3>3. QED
            BY <1>1, <2>1, <3>1, <3>2, CheckedPart
    <2>4. QED
        BY <1>3, <2>2, <2>3 DEF SaveDraft
<1>4. ASSUME NEW s \in Reviewers, NEW pc \in {"fixing", "rejecting", "approving"},
             OpenReview(s, pc)
      PROVE  AllChecked'
    <2> DEFINE r == [IdleRequest EXCEPT !.at = pc, !.seen = app]
    <2>1. Checked(r)
        BY <1>4, IdleIsRequest DEF OpenReview, Checked, Request
    <2>2. desk' = [desk EXCEPT ![s] = r] /\ s \in DeskSlots
        BY <1>4 DEF OpenReview, BeginReview, DeskSlots
    <2> HIDE DEF r
    <2>3. QED
        BY <1>1, <2>1, <2>2, CheckedPart
<1>5. ASSUME NEW s \in Reviewers, SaveFix(s) \/ CreateMessage(s) \/ MailFix(s)
      PROVE  AllChecked'
    <2>1. s \in DeskSlots /\ desk[s] \in Request
        BY <1>1 DEF DeskOK, DeskSlots
    <2>2. CASE SaveFix(s)
        <3> DEFINE r == [desk[s] EXCEPT !.at = "message"]
        <3>1. r.at = "message" /\ desk' = [desk EXCEPT ![s] = r]
            BY <1>1, <2>1, <2>2 DEF SaveFix, Move, DeskOK, Request
        <3> HIDE DEF r
        <3>2. QED
            BY <1>1, <2>1, <3>1, MoveChecked
    <2>3. CASE CreateMessage(s)
        <3>1. PICK m \in MessageIds : desk' = [desk EXCEPT ![s].at = "mail", ![s].message = m]
            BY <2>3 DEF CreateMessage
        <3> DEFINE r == [desk[s] EXCEPT !.at = "mail", !.message = m]
        <3>2. r.at = "mail" /\ desk' = [desk EXCEPT ![s] = r]
            BY <1>1, <2>1, <3>1 DEF DeskOK, Request
        <3> HIDE DEF r
        <3>3. QED
            BY <1>1, <2>1, <3>2, MoveChecked
    <2>4. CASE MailFix(s)
        <3>1. PICK x \in {"sent", "failed"} :
                  desk' = [desk EXCEPT ![s].at = "outcome", ![s].result = x]
            BY <2>4 DEF MailFix
        <3> DEFINE r == [desk[s] EXCEPT !.at = "outcome", !.result = x]
        <3>2. r.at = "outcome" /\ desk' = [desk EXCEPT ![s] = r]
            BY <1>1, <2>1, <3>1 DEF DeskOK, Request
        <3> HIDE DEF r
        <3>3. QED
            BY <1>1, <2>1, <3>2, MoveChecked
    <2>5. QED
        BY <1>5, <2>2, <2>3, <2>4
<1>6. ASSUME NEW s \in Reviewers, NEW typed \in Children, OpenEdit(s, typed)
      PROVE  AllChecked'
    <2> DEFINE r == [IdleRequest EXCEPT !.at = "editing", !.seen = app, !.typed = typed]
    <2>1. Checked(r)
        BY IdleIsRequest DEF Checked, Request
    <2>2. desk' = [desk EXCEPT ![s] = r] /\ s \in DeskSlots
        BY <1>6 DEF OpenEdit, DeskSlots
    <2> HIDE DEF r
    <2>3. QED
        BY <1>1, <2>1, <2>2, CheckedPart
<1>7. ASSUME NEW h \in DeskSlots, Finish(h)
      PROVE  AllChecked'
    BY <1>1, <1>7, FinishChecked
<1>8. ASSUME desk' = desk
      PROVE  AllChecked'
    BY <1>8 DEF AllChecked, Checked
<1>9. ASSUME NEW p \in ParentTabs, ParentStep(p)
      PROVE  AllChecked'
    <2>1. p \in DeskSlots
        BY DEF DeskSlots
    <2>2. QED
        BY <1>2, <1>3, <1>7, <1>9, <2>1
        DEF ParentStep, OpenSubmission, SubmitApplication, SubmitRefused
<1>10. ASSUME NEW s \in Reviewers, StaffStep(s)
       PROVE  AllChecked'
    <2>1. s \in DeskSlots
        BY DEF DeskSlots
    <2>2. CASE \/ SaveOutcome(s) \/ SaveReject(s) \/ ApproveApplication(s)
               \/ ApproveAgain(s) \/ SaveEdit(s) \/ Resolve(s)
        BY <1>7, <1>8, <2>1, <2>2
        DEF SaveOutcome, SaveReject, ApproveApplication, ApproveAgain, SaveEdit, Resolve
    <2>3. QED
        BY <1>4, <1>5, <1>6, <1>10, <2>2 DEF StaffStep
<1>11. QED
    BY <1>7, <1>8, <1>9, <1>10
    DEF ReviewNext, reviewVars, RequestEnds, Digest, DigestSends, DigestInterrupted

\* A step that makes an application editable again is a correction request.
Reopens == app.status \notin Editable /\ app'.status \in Editable

LEMMA OnlyFixReopens ==
    ASSUME ReviewInv, AllChecked, [ReviewNext]_reviewVars, Reopens,
           \A h \in DeskSlots : ~OvertakenBy(h)
    PROVE  /\ app.status = "submitted"
           /\ app' = [app EXCEPT !.status = "fix_requested", !.note = TRUE]
<1>1. DeskOK /\ app \in AppRow
    BY TypesSplit DEF ReviewInv, RowsOK
<1>2. app' # app
    BY DEF Reopens
<1>3. ASSUME app' \in {[app EXCEPT !.child = c] : c \in Data} \/ app' = [app EXCEPT !.told = TRUE]
      PROVE  FALSE
    BY <1>1, <1>3 DEF Reopens, AppRow
<1>4. ASSUME app'.status \in {"submitted", "approved", "rejected"}
      PROVE  FALSE
    BY <1>4 DEF Reopens, Editable
<1>5. ASSUME NEW p \in ParentTabs, ParentStep(p)
      PROVE  FALSE
    <2>1. p \in DeskSlots /\ desk[p] \in Request
        BY <1>1 DEF DeskOK, DeskSlots
    <2>2. CASE SaveDraft(p)
        BY <2>1, <2>2 DEF SaveDraft, AllChecked, Checked, OvertakenBy, Reopens
    <2>3. CASE SubmitApplication(p)
        BY <1>1, <1>4, <2>3 DEF SubmitApplication, Submitted, AppRow
    <2>4. QED
        BY <1>2, <1>5, <2>2, <2>3 DEF ParentStep, OpenSubmission, OpenWorkspace, SubmitRefused
<1>6. ASSUME NEW s \in Reviewers, StaffStep(s)
      PROVE  SaveFix(s)
    <2>1. s \in DeskSlots /\ desk[s] \in Request
        BY <1>1 DEF DeskOK, DeskSlots
    <2>2. CASE SaveReject(s)
        BY <1>1, <1>4, <2>2 DEF SaveReject, AppRow
    <2>3. CASE ApproveApplication(s)
        <3>1. PICK m : app' = [app EXCEPT !.status = "approved", !.member = m]
            BY <2>3 DEF ApproveApplication
        <3>2. QED
            BY <1>1, <1>4, <3>1 DEF AppRow
    <2>4. CASE Resolve(s)
        BY <1>1, <1>4, <2>4 DEF Resolve, Submitted, AppRow
    <2>5. CASE SaveEdit(s)
        BY <1>3, <2>1, <2>5 DEF SaveEdit, Request
    <2>6. CASE \/ \E pc \in {"fixing", "rejecting", "approving"} : OpenReview(s, pc)
               \/ CreateMessage(s) \/ MailFix(s) \/ SaveOutcome(s) \/ ApproveAgain(s)
               \/ \E typed \in Children : OpenEdit(s, typed)
        BY <1>2, <2>6
        DEF OpenReview, CreateMessage, MailFix, SaveOutcome, ApproveAgain, OpenEdit
    <2>7. QED
        BY <1>6, <2>2, <2>3, <2>4, <2>5, <2>6 DEF StaffStep
<1>7. ASSUME NEW s \in Reviewers, SaveFix(s)
      PROVE  /\ app.status = "submitted"
             /\ app' = [app EXCEPT !.status = "fix_requested", !.note = TRUE]
    <2>1. s \in DeskSlots
        BY DEF DeskSlots
    <2>2. QED
        BY <1>7, <2>1 DEF SaveFix, AllChecked, Checked, OvertakenBy
<1>8. ~Digest /\ ~(\E h \in DeskSlots : RequestEnds(h)) /\ ~UNCHANGED reviewVars
    BY <1>2, <1>3 DEF Digest, DigestSends, DigestInterrupted, RequestEnds, reviewVars
<1>9. QED
    BY <1>5, <1>6, <1>7, <1>8 DEF ReviewNext

\* The finding of ApplicationReviewLosingSubmission has one cause, and it is the
\* only one: whoever acts, a submitted, approved or rejected application becomes
\* editable again by the correction of a submission, or by a draft save or a
\* correction of somebody who was overtaken since reading the row.
THEOREM OnlyOvertakenUndo == ReviewSpec => OnlyOvertakenReopens
<1>1. ReviewInit => AllChecked
    BY IdleChecked DEF ReviewInit, AllChecked
<1>2. ReviewInv /\ AllChecked /\ [ReviewNext]_reviewVars => AllChecked'
    BY StepKeepsChecked
<1>3. ReviewInv /\ AllChecked /\ [ReviewNext]_reviewVars
         => [Reopens => \/ /\ app.status = "submitted"
                           /\ app' = [app EXCEPT !.status = "fix_requested", !.note = TRUE]
                        \/ \E h \in DeskSlots : OvertakenBy(h)]_app
    BY OnlyFixReopens
<1>4. QED
    BY <1>1, <1>2, <1>3, ReviewInvAlways, PTL DEF ReviewSpec, OnlyOvertakenReopens, Reopens
=============================================================================

-------------------------- MODULE ApplicationReview --------------------------
(***************************************************************************)
(* One registration application between the parent's workspace and the      *)
(* club's review: drafts, submission, correction requests and their mails,  *)
(* rejection, approval, corrections by staff, and the daily digest of       *)
(* submissions (registrations/services.py, views.py, tasks.py, admin.py).   *)
(*                                                                         *)
(* A draft save writes every column as the request read it; review actions  *)
(* write their own columns; submission and resolution re-read the row under *)
(* a lock.                                                                  *)
(***************************************************************************)
EXTENDS Naturals, FiniteSets

CONSTANTS
    ParentTabs,       \* requests of the parent that may be under way
    Reviewers,        \* requests of staff that may be under way
    Children,         \* what the child's fields may say when complete
    Incomplete,       \* a required field is blank
    MemberIds,        \* ids of Member rows
    NotApproved,
    MessageIds,       \* ids of ApplicationCorrectionMessage rows
    MaxEvents         \* bound: submissions in a behaviour

ASSUME ReviewAssumption ==
    /\ ParentTabs \cap Reviewers = {}
    /\ Incomplete \notin Children
    /\ NotApproved \notin MemberIds
    /\ MessageIds # {}
    /\ MaxEvents \in Nat

VARIABLES
    app,        \* the RegistrationApplication row
    members,    \* Member rows: what each says, or absent
    messages,   \* ApplicationCorrectionMessage rows
    desk,       \* the requests
    reported    \* submissions a digest mail has listed

reviewVars == <<app, members, messages, desk, reported>>

-----------------------------------------------------------------------------
(* Types *)

DeskSlots == ParentTabs \cup Reviewers
Data == Children \cup {Incomplete}

Editable == {"draft", "fix_requested"}
AppStatus == Editable \cup {"submitted", "approved", "rejected"}

\* event stands for submitted_at, told for submission_digest_sent_at, note for
\* review_message.
AppRow == [status : AppStatus, event : 0 .. MaxEvents, told : BOOLEAN, note : BOOLEAN,
           member : MemberIds \cup {NotApproved}, child : Data]

NoMessage == [made |-> FALSE, mail |-> "pending", resolved |-> "no"]

MessageRow == [made : BOOLEAN, mail : {"pending", "sent", "failed"},
               resolved : {"no", "parent", "staff"}]

DeskPc == {"idle", "saving", "submitting", "fixing", "message", "mail", "outcome",
           "rejecting", "approving", "editing"}

\* seen is the request's copy of the row, typed what its form says.
Request == [at : DeskPc, seen : AppRow, typed : Data, submit : BOOLEAN,
            message : MessageIds, result : {"sent", "failed"}]

ReviewTypeOK ==
    /\ app \in AppRow
    /\ members \in [MemberIds -> Data \cup {NotApproved}]
    /\ messages \in [MessageIds -> MessageRow]
    /\ desk \in [DeskSlots -> Request]
    /\ reported \in SUBSET (1 .. MaxEvents)

Blank == [status |-> "draft", event |-> 0, told |-> FALSE, note |-> FALSE,
          member |-> NotApproved, child |-> Incomplete]

IdleRequest == [at |-> "idle", seen |-> Blank, typed |-> Incomplete, submit |-> FALSE,
                message |-> CHOOSE m \in MessageIds : TRUE, result |-> "sent"]

\* new_application has made a blank draft.
ReviewInit ==
    /\ app = Blank
    /\ members = [m \in MemberIds |-> NotApproved]
    /\ messages = [m \in MessageIds |-> NoMessage]
    /\ desk = [h \in DeskSlots |-> IdleRequest]
    /\ reported = {}

-----------------------------------------------------------------------------
(* Helpers *)

BeginReview(h, pc) == desk' = [desk EXCEPT ![h] = [IdleRequest EXCEPT !.at = pc, !.seen = app]]

Move(h, pc) == desk' = [desk EXCEPT ![h].at = pc]

Finish(h) == desk' = [desk EXCEPT ![h] = IdleRequest]

MadeMembers == {m \in MemberIds : members[m] # NotApproved}

Unresolved == {m \in MessageIds : messages[m].made /\ messages[m].resolved = "no"}

ResolveAll(source) ==
    messages' = [m \in MessageIds |->
        IF m \in Unresolved THEN [messages[m] EXCEPT !.resolved = source] ELSE messages[m]]

\* Variant: the digest flag survives a new submission.
SubmittedStillTold(row) ==
    [row EXCEPT !.status = "submitted", !.event = @ + 1, !.note = FALSE]

\* Variant: a submission after a correction request has a status of its own.
SubmittedAgain(row) ==
    [row EXCEPT !.status = IF row.note THEN "resubmitted" ELSE "submitted",
                !.event = @ + 1, !.told = FALSE, !.note = FALSE]

\* The columns a submission writes, by the parent or on the parent's behalf.
Submitted(row) ==
    [row EXCEPT !.status = "submitted", !.event = @ + 1, !.told = FALSE, !.note = FALSE]

-----------------------------------------------------------------------------
(* The parent's workspace *)

\* A POST to the workspace: autosave, or the submit button.
OpenWorkspace(h, typed, submit) ==
    /\ desk[h].at = "idle"
    /\ app.status \in Editable
    /\ desk' = [desk EXCEPT ![h] = [IdleRequest EXCEPT
                    !.at = "saving", !.seen = app, !.typed = typed, !.submit = submit]]
    /\ UNCHANGED <<app, members, messages, reported>>

\* submit_registration, the submit button's endpoint, saves the draft likewise.
OpenSubmission(h, typed) == OpenWorkspace(h, typed, TRUE)

\* create_or_update_draft ends in save() of the whole row as read.
DraftOf(row, typed) ==
    [row EXCEPT !.child = typed,
                !.status = IF row.status = "fix_requested" THEN row.status ELSE "draft"]

SaveDraft(h) ==
    /\ desk[h].at = "saving"
    /\ app' = DraftOf(desk[h].seen, desk[h].typed)
    /\ IF desk[h].submit
       THEN desk' = [desk EXCEPT ![h].at = "submitting", ![h].seen = app']
       ELSE Finish(h)
    /\ UNCHANGED <<members, messages, reported>>

\* submit_application: the checks of the form and the documents, then the
\* locked transaction.
SubmitApplication(h) ==
    /\ desk[h].at = "submitting"
    /\ desk[h].seen.child # Incomplete
    /\ app.status \in Editable
    /\ app.event < MaxEvents
    /\ app' = Submitted(app)
    /\ ResolveAll("parent")
    /\ Finish(h)
    /\ UNCHANGED <<members, reported>>

\* A field, a document or the status found under the lock refuses it.
SubmitRefused(h) ==
    /\ desk[h].at = "submitting"
    /\ Finish(h)
    /\ UNCHANGED <<app, members, messages, reported>>

-----------------------------------------------------------------------------
(* Review *)

\* A review button of the cockpit or the changelist: the row is read and the
\* status checked on that copy.
OpenReview(h, pc) ==
    /\ desk[h].at = "idle"
    /\ app.status = "submitted"
    /\ BeginReview(h, pc)
    /\ UNCHANGED <<app, members, messages, reported>>

\* request_application_fix: the status first,
SaveFix(h) ==
    /\ desk[h].at = "fixing"
    /\ app' = [app EXCEPT !.status = "fix_requested", !.note = TRUE]
    /\ Move(h, "message")
    /\ UNCHANGED <<members, messages, reported>>

\* then the message row,
CreateMessage(h) ==
    /\ desk[h].at = "message"
    /\ \E m \in MessageIds :
          /\ ~messages[m].made
          /\ messages' = [messages EXCEPT ![m] = [NoMessage EXCEPT !.made = TRUE]]
          /\ desk' = [desk EXCEPT ![h].at = "mail", ![h].message = m]
    /\ UNCHANGED <<app, members, reported>>

\* then the mail: accepted, or refused and raised again after the next step.
MailFix(h) ==
    /\ desk[h].at = "mail"
    /\ \E r \in {"sent", "failed"} :
          desk' = [desk EXCEPT ![h].at = "outcome", ![h].result = r]
    /\ UNCHANGED <<app, members, messages, reported>>

\* Variant: the row is saved whole, as it was created.
SaveWholeMessage(h) ==
    /\ desk[h].at = "outcome"
    /\ messages' = [messages EXCEPT ![desk[h].message] =
                        [made |-> TRUE, mail |-> desk[h].result, resolved |-> "no"]]
    /\ Finish(h)
    /\ UNCHANGED <<app, members, reported>>

\* and its outcome, these two columns only.
SaveOutcome(h) ==
    /\ desk[h].at = "outcome"
    /\ messages' = [messages EXCEPT ![desk[h].message].mail = desk[h].result]
    /\ Finish(h)
    /\ UNCHANGED <<app, members, reported>>

\* reject_application; the mail that follows decides nothing.
SaveReject(h) ==
    /\ desk[h].at = "rejecting"
    /\ app' = [app EXCEPT !.status = "rejected", !.note = TRUE]
    /\ Finish(h)
    /\ UNCHANGED <<members, messages, reported>>

\* approve_application commits: the Member from the copy's fields, the link and
\* the status. The transaction rolls back when the mail raises (RequestEnds).
ApproveApplication(h) ==
    /\ desk[h].at = "approving"
    /\ desk[h].seen.member = NotApproved
    /\ \E m \in MemberIds \ MadeMembers :
          /\ members' = [members EXCEPT ![m] = desk[h].seen.child]
          /\ app' = [app EXCEPT !.status = "approved", !.member = m]
    /\ Finish(h)
    /\ UNCHANGED <<messages, reported>>

\* An application that has its member is returned as it is.
ApproveAgain(h) ==
    /\ desk[h].at = "approving"
    /\ desk[h].seen.member # NotApproved
    /\ Finish(h)
    /\ UNCHANGED <<app, members, messages, reported>>

\* resolve_application_corrections, all of it under the row's lock.
Resolve(h) ==
    /\ desk[h].at = "idle"
    /\ app.status = "fix_requested"
    /\ app.event < MaxEvents
    /\ app' = Submitted(app)
    /\ ResolveAll("staff")
    /\ UNCHANGED <<members, desk, reported>>

-----------------------------------------------------------------------------
(* Corrections by staff *)

OpenEdit(h, typed) ==
    /\ desk[h].at = "idle"
    /\ typed # app.child
    /\ desk' = [desk EXCEPT ![h] = [IdleRequest EXCEPT
                    !.at = "editing", !.seen = app, !.typed = typed]]
    /\ UNCHANGED <<app, members, messages, reported>>

\* update_reviewed_fields: the application and, mirrored, the member the copy
\* names, in one transaction.
SaveEdit(h) ==
    /\ desk[h].at = "editing"
    /\ app' = [app EXCEPT !.child = desk[h].typed]
    /\ members' = [m \in MemberIds |->
                      IF m = desk[h].seen.member THEN desk[h].typed ELSE members[m]]
    /\ Finish(h)
    /\ UNCHANGED <<messages, reported>>

-----------------------------------------------------------------------------
(* The digest, and what goes wrong *)

PendingDigest == app.event > 0 /\ ~app.told

\* send_submitted_registration_digest: mailed and stamped under the lock.
DigestSends ==
    /\ PendingDigest
    /\ reported' = reported \cup {app.event}
    /\ app' = [app EXCEPT !.told = TRUE]
    /\ UNCHANGED <<members, messages, desk>>

\* The worker dies after the mail: the stamps are rolled back.
DigestInterrupted ==
    /\ PendingDigest
    /\ reported' = reported \cup {app.event}
    /\ UNCHANGED <<app, members, messages, desk>>

\* A process dies or a mail raises: the request goes no further.
RequestEnds(h) ==
    /\ desk[h].at # "idle"
    /\ Finish(h)
    /\ UNCHANGED <<app, members, messages, reported>>

-----------------------------------------------------------------------------

ParentStep(p) ==
    \/ \E typed \in Data, submit \in BOOLEAN : OpenWorkspace(p, typed, submit)
    \/ \E typed \in Data : OpenSubmission(p, typed)
    \/ SaveDraft(p)
    \/ SubmitApplication(p)
    \/ SubmitRefused(p)

StaffStep(s) ==
    \/ \E pc \in {"fixing", "rejecting", "approving"} : OpenReview(s, pc)
    \/ SaveFix(s)
    \/ CreateMessage(s)
    \/ MailFix(s)
    \/ SaveOutcome(s)
    \/ SaveReject(s)
    \/ ApproveApplication(s)
    \/ ApproveAgain(s)
    \/ Resolve(s)
    \/ \E typed \in Children : OpenEdit(s, typed)
    \/ SaveEdit(s)

Digest == DigestSends \/ DigestInterrupted

ReviewNext ==
    \/ \E p \in ParentTabs : ParentStep(p)
    \/ \E s \in Reviewers : StaffStep(s)
    \/ \E h \in DeskSlots : RequestEnds(h)
    \/ Digest

\* The digest runs every morning and its mail is accepted some day.
ReviewSpec == ReviewInit /\ [][ReviewNext]_reviewVars /\ WF_reviewVars(DigestSends)

-----------------------------------------------------------------------------
(* Properties *)

\* The digest flag never claims a mail that was not sent: whatever requests
\* write the row back, submission and flag go together (services.py:690-700,
\* tasks.py:129-137), so no submission is passed over.
ToldWasReported == app.told => app.event \in reported

\* A resolved correction stays resolved and closed by whom it was closed, also
\* when the outcome of its mail is stored later (services.py:1052-1071).
ResolutionStays ==
    [][\A m \in MessageIds : messages[m].resolved # "no"
            => messages'[m].resolved = messages[m].resolved]_messages

\* Nothing but a correction request makes a submitted application editable
\* again: the request writes over the very submission it answers
\* (services.py:667-668).
SubmissionStands ==
    [][app.status \notin Editable /\ app'.status \in Editable
            => /\ app.status = "submitted"
               /\ app' = [app EXCEPT !.status = "fix_requested", !.note = TRUE]]_app

\* What makes an application editable again without being the correction of a
\* submission is a request that writes over a status another one has changed
\* since it read the row, and nothing else (services.py:514, 667-668).
OvertakenBy(h) ==
    /\ desk[h].seen.status # app.status
    /\ SaveDraft(h) \/ SaveFix(h)

OnlyOvertakenReopens ==
    [][app.status \notin Editable /\ app'.status \in Editable
            => \/ /\ app.status = "submitted"
                  /\ app' = [app EXCEPT !.status = "fix_requested", !.note = TRUE]
               \/ \E h \in DeskSlots : OvertakenBy(h)]_app

\* A submission comes into a digest, unless another one or a draft save
\* replaces it (registrations/tasks.py:66-70).
SubmissionReported ==
    \A n \in 1 .. MaxEvents : app.event = n ~> n \in reported \/ app.event # n
=============================================================================

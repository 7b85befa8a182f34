# FK Cēsis member management: specifications

TLA+ modules, model-checking configurations and machine-checked proofs about
the member-management system in this repository: a Django application in which
parents register children with a football club, staff review the registrations,
agreements are signed through DocuSeal or on paper, membership fees are invoiced
through Invoice Ninja, and scanned documents are read by an OCR service.

All shared state is in one PostgreSQL database. Requests and background jobs
(django-q2: two workers, 60 s timeout, `max_attempts` 2, the database as its
queue) read and write it **in autocommit**, except inside the blocks the code
wraps in `transaction.atomic()`. Three outside services (DocuSeal, Invoice
Ninja, the OCR provider) are called over HTTP, and e-mail is sent inline. Most
of what is hard about this system follows from that: what a handler read may be
stale when it writes, a job may be delivered again after doing half of its work,
and an answer may be lost after the other side acted.

## 1. Inventory

| Component (`src/apps/...`) | State | Operations | Talks to | Hard behaviour |
|---|---|---|---|---|
| **Invoice push** `integrations/tasks.py`, `invoice_ninja.py` | `BillingRecord.external_status`, `BillingInvoice` rows, queued jobs, Invoice Ninja's invoices | enqueue, push job, sending sweep, archive/cancel jobs, payment sync, credit notes | billing rows, Invoice Ninja, django-q | redelivery, crash after the POST, two jobs of one record, stale row lists, discontinuation in between |
| **Billing records** `billing/` | one record per (member, season), amounts snapshotted, installments | draft on signing, confirm, override, recompute, recreate, reassign, renew | agreements (signal), push | guardian lock for the family tier, one record per season, schedule arithmetic at season and year ends |
| **Agreement lifecycle** `agreements/`, `registrations/admin.py` | one current `Agreement` per member: generated, sent, signed, void, superseded, discontinued; signing path; billing setup; DocuSeal id | create, number, send, sign, void, regenerate, amend, discontinue | DocuSeal jobs and webhook, billing signal, e-mail | webhook, sync job and staff all sign from stale copies; submissions created for dead agreements; numbers by max+1 scan |
| **One-time codes and magic links** `accounts/` | `OneTimeCode`/`MagicLink` rows, session | request, verify, replay, consume | e-mail | concurrent verification, attempt limit, supersession, unlocked consumption |
| **Registration review** `registrations/` | application status, correction request, correction messages, digest flag | autosave draft, submit, approve, request correction, resubmit, reject | members, agreements, OCR, e-mail | autosave racing submit, approval twice, message and status in separate commits, digest re-sent after a crash |
| **OCR pipeline** `integrations/ocr.py`, `tasks.py` | document OCR status, extracted fields, field sources | enqueue, extract, apply, parent edits | OCR provider, documents | a redelivered or late extraction over a newer document or an edit by the parent |
| **Documents, medical permits, signed artifacts** `documents/`, `agreements/services.py` | rows that name blobs, blobs in storage | upload, replace, delete | storage | a blob and the row that names it cannot be written together |
| **Members and families** `members/` | guardians, members, external client id | consolidate guardians, edit, export | billing, Invoice Ninja client | choice of the surviving guardian, loss of the loser's client id |
| **Address register** `addresses/` | address rows with a release marker | staged import, search | download | an import that stops half-way, rows missing from the new release |
| **Admin hub, family hub** `admin_hub/`, `members/family_hub.py`, `members/lanes.py` | none of its own (queries), correction messages | buttons that call the services above | all | what a page offers and what the endpoint accepts are decided in two places |
| **Adapters, audit, analytics, exports, settings, templates** | none another component decides on | formatting | outside services | outcomes only: accepted, refused, unknown |

What makes each correct:

- *Push*: whatever is retried, a row takes its own invoice, not another's, and
  keeps it for ever; a record leaves "pending"; a row that is cancelled or has its
  invoice is left alone by what reads it afterwards; a row shown as sent has an
  issued invoice.
- *Billing records*: one record per member and season; the installments add up
  to the amount; a schedule stays in its season or year.
- *Agreements*: one current agreement per member, never resurrected; signed
  agreements have a billing draft; a dead agreement has no live submission.
- *Codes*: a code logs in at most one session, at most so many guesses, and only
  while it is the latest one.
- *Registration*: a submitted application is not rolled back by a late autosave;
  approval produces the members and agreements once.
- *OCR, documents, addresses*: what a job writes belongs to the document it was
  started for; a row never names a missing blob; an import either replaces a
  release or leaves it.
- *Pages for staff*: no control leads to a refusal but the few known ones, and no
  list forgets a family that another list counts.

## 2. Plan

| Module | About | Section |
|---|---|---|
| `InvoiceLedger`, `InvoicePush`, `InvoicePush_proofs`, `InvoicePushRecords_proofs`, `MCInvoicePush` | from a confirmed record to invoices that are sent, paid or cancelled | 3 |
| `AgreementRegister`, `AgreementLifecycle`, `AgreementLifecycle_proofs` (also of `MCJobs`), `MCAgreementLifecycle` | agreements, DocuSeal's jobs and webhook | 4 |
| `SignIn`, `VerifyPage`, `SignIn_proofs` (of both and of `MCIntake`), `ApplicationReview`, `ApplicationReview_proofs`, `MCIntake` | e-mail, code, application, review | 5 |
| `Cockpit`, `FamilyHub`, `FamilyBilling`, `BillingSchedule`, `Office_proofs` (of the four and of `MCOffice`), `PermitStore`, `SignedArtifact`, `PrivateFiles_proofs` (of the two), `MCOffice` | what staff see and do, family discounts, schedules, private files | 6 |
| `DocumentOcr`, `DocumentOcr_proofs`, `MCJobs` | documents and what workers owe | 7 |

`InvoicePush` implements `InvoiceLedger`, `AgreementLifecycle` implements
`AgreementRegister`. The modules of sections 5 to 7 are about different tables
that meet in one place each (a Boolean, a status), so they share no variable;
each models the little it needs of its neighbour as a step that may come at any
time. `MCIntake`, `MCOffice` and `MCJobs` put several of them into one instance:
a variable `focus`, chosen at the start and never changed, says which module
moves, and the others rest in one initial state. TLC so explores the union of
the modules' state graphs, not their product.

The proofs need no instance: a theorem holds for every value of a module's
constants that its named assumptions allow. Each is about one module's own
specification, and `JobsRunParts`, `IntakeRunsParts` and `OfficeRunsParts` carry
it over to the runs: a behaviour of the composing specification is one of each of
its parts (in `JobsRunParts` with the parts' fairness, in `IntakeRunsParts`
without, since that run assumes none). From them follow `JobsTypeCorrect`,
`IntakeTypeCorrect` and `OfficeTypeCorrect`, the type invariants of those runs.
Every safety property of a passing run is proved, two excepted: `SyncedSettled`
and `PendingHasJob` (section 3) hold on their instances and not in general, and
a theorem says by which steps alone the second can be lost.

Where the code breaks a promise, the property proved names what breaks it: every
step of the specification keeps the promise, or is one of the steps listed.
Such a theorem excludes nothing (overlaps, crashes, old forms are all in the
specification) and settles what a repair would have to deal with. One theorem
alone has a hypothesis, `InvoicesAddUp`: about the amounts of plans, section 6.

Liveness under fairness is beyond the prover. What carries it is not: that a job
cannot go on for ever, however often it is retried and whatever others write.
`PushTerminates`, `HandlersTerminate` and `OcrJobsTerminate` give each job a rank,
a natural number bounded by the constants, and prove that every step of the job
lowers it and which events alone can raise it. What stays with TLC is that a
job in the queue can always take a step and, under fairness, takes it.

Left out, in the order in which they would be worth adding: **`SigningPath`**
(the path and its copy on the application, two commits each way);
**`AgreementNumber`** (allocation under a unique index: the index refuses what
would go wrong); **`ClientRegistry`** (product and client caches under row locks,
the stale-client recovery; in `InvoicePush` one step that succeeds or fails);
credit notes and the record's roll-up of payments (`PaymentSync`);
**`GuardianConsolidation`** and the hand-over of the default plan (one-off
commands run by one person). The address import replaces its table in one
transaction and has no step in between.

## 3. Invoice push

### State and actions

`InvoicePush.tla` follows one `push_billing_record` job statement by statement,
cutting it at every point where another process can get in: each `save()`, each
provider call. A job holds in memory what the code holds: the installments still
to push **as first read** (`todo`), whether one was refused (`failed`), the id
just received (`got`). Rows are known by (record, sequence), which is their
unique key in the database and also the number `{prefix}-{record}-{sequence}`
Invoice Ninja refuses to use twice.

| Module part | Code |
|---|---|
| `record`, `rows`, `invoices` | `BillingRecord.status/external_status`, `BillingInvoice`, Invoice Ninja's invoices |
| `Confirm`, `OpenForm`/`SaveForm`, `Enqueue` | `confirm_view`, the admin change form (all columns saved as read), `push_view`/bulk action through `enqueue_push_billing_record` |
| `Load` ... `RollUp` | `push_billing_record`, one action per step and outcome |
| `CreateInvoice`, `RecoverInvoice`, `RefuseInvoice`, `LoseAnswer` | the outcomes of `create_invoice`: made, number taken and adopted, refused for good, unknown |
| `Die`, `Raised`, `Redeliver` | django-q2: a raise counts an attempt, a killed worker does not |
| `StartSweep` ... `EndSweep`, `SweepDies` | `send_due_invoices` |
| `Pay`, `SyncPayment` | a parent pays; `_sync_invoice_payment` |
| `SelectInvoices`, `CancelSelected`, `RunCancel`, `CancelFails` | `create_discontinuation_adjustments` inside `discontinue_agreement`, the on-commit callbacks, the archive and cancel jobs |

`InvoiceLedger.tla` is what the push promises: for each number, an invoice is
issued at most once, then booked on its row once, for ever. `InvoicePush` is
shown to implement it under the mapping *issued = the invoice of that number in
Invoice Ninja*, *booked = the id on the row*.

### Runs

All instances use `max_attempts` 2, as the settings do. Checking for deadlock is
off because the system may rest: staff need not act.

| Run | Instance | Shows |
|---|---|---|
| `InvoicePushTwoWorkers` | 1 record, 2 installments, 2 jobs, 3 possible ids, crashes, change form | two jobs of one record racing: `RowNamesOwnInvoice`, `BookedForever`, `ImplementsLedger` |
| `InvoicePushSending` | 1 record, 2 installments, sweep, payment, discontinuation, crashes | `WithdrawnIsCancelled`, `ParentSeesIssuedOnly`, `SyncedSettled`, `SettledLeftAlone` |
| `InvoicePushLiveness` | 2 records (one free of charge), 2 jobs, fair workers, no crashes, no form | `PendingHasJob`, `PendingSettles`, `JobEnds` |

Two installments are the least that can be half done; two jobs the least that
can race on one record; a third id lets a second invoice for a number be made if
anything allowed it. `InvoiceIds` bounds the invoices Invoice Ninja can hold: a
number is used once, so two installments need two. Which invoices are due on a
given night is left open (any subset of the candidates), so no date is modelled.

Fairness: weak fairness of each worker's step, because the django-q cluster
keeps running jobs. No fairness is assumed of staff, of Invoice Ninja answering
well, or of the sweep. The liveness run has no crashes and no change form: with
either of them the property fails in ways shown below.

### Where the code and its documents part

| Run (violation) | What TLC shows |
|---|---|
| `InvoicePushPartialRows` | `SyncedComplete`: rows are inserted one by one; after a crash the prefix passes for the whole schedule and the record becomes synced without the rest |

Two properties that hold on one instance are false of the code on another;
each is reproduced by adding it to `InvoicePushTwoWorkers`:

- `SyncedSettled`, also with `EditedRecords = {}` and `Crashing = FALSE`: a second
  job reads the rows while the first is still inserting them, pushes those and
  sets the record to synced; the rows inserted afterwards have no invoice yet;
- `PendingHasJob`: the change form, saved around a push, leaves a record pending
  with no job, against `integrations/tasks.py:356`.

The model has these losses as well; no property forbids them, since the code
does not prevent them:

- a push that read its rows before a discontinuation invoices a cancelled
  installment, and the sweep e-mails an invoice cancelled after its query
  (against `billing/services.py:332`): `SettledLeftAlone` says that only what
  was read before the cancellation is written after it;
- a second job's failure overwrites "created" on a row that has its id: the
  sweep never sends that invoice, and the record is synced;
- a payment synced between the check and the write of a discontinuation is
  cancelled (against `agreements/services.py:563`);
- an on-commit callback lost in a crash leaves a cancelled row whose invoice
  stays open (`agreements/services.py:625`).

### Proofs

`InvoicePush_proofs.tla` proves, for any finite or infinite sets of records,
jobs and ids and any numbers of installments and attempts: `TypeCorrect`,
`RowsNameTheirInvoice`, `BookedNeverChanges` and `PushImplementsLedger`, and
about sending `OnlyCancelledWithdrawn` (`WithdrawnIsCancelled`) and
`ParentsSeeIssued` (`ParentSeesIssuedOnly`). The assumptions are those declared in `InvoicePush`:
`NoId` is no invoice id, the two numbers are positive, the switches are Boolean,
the sub-sets are sub-sets.

The inductive invariant `LedgerInv` joins to types and rows that Invoice Ninja
uses a number once (`OneInvoicePerNumber`, its own promise and no property of
this code) and what makes them preserved: a worker about to store an id holds an invoice of exactly the row it
will store it on (`SavingOwnInvoice`: otherwise the save could book another's),
and the sweep only holds rows that have an id (`SweepingBooked`: otherwise
e-mailing would touch an unknown invoice). Every step is shown to be of one of a
few kinds with respect to the ledger: it leaves ids and issued numbers alone, it
issues one invoice for a free number, or it stores the held id; each kind is
dealt with once instead of once per action. `BookedNeverChanges` follows because
a stored id and a held id for the same row are both *the* invoice of its number.

The invariant of the sending, `SendingInv`, adds to `LedgerInv` that a cancel job
is queued only for a row already cancelled (`QueuedIsCancelled`: the row is
written before the on-commit callback), and that an invoice the sweep has mailed
is out on Invoice Ninja's side (`MailedIsOut`), which is what makes the row that
the sweep saves next true.

`InvoicePushRecords_proofs.tla` is about the rows of a record while jobs, forms
and the office write them, with no hypothesis on who overlaps whom.

- `SettledStaysOut` (`SettledLeftAlone`): a row that has its invoice, or that the
  office cancelled, is taken up, invoiced or marked failed only by a push that
  had read it before (`InPush`), and a cancelled one is taken up by no later
  sweep (`InSweep`). `RowsInv` says that every row a job has walked past, every
  row with an id, every cancelled and every selected one exists: a job that has
  rows still to insert could otherwise make one that is cancelled already. A push
  that starts afterwards, or is redelivered, reads the row as it is.
- `PendingIsServed` (`PendingLeftOnlyBy`): a pending record that has a job on its
  way to write another status keeps one, or the step is one of three: a change
  form saved as it was read, a worker that dies, a job whose `INSERT` finds the
  row another job made. The last two lose it only when the attempts are used up
  or the record is no longer confirmed: otherwise the job is delivered again.

`PushTerminates` proves why a job ends: `Rank` counts the steps of the delivery
under way and of those the attempts allow, at most
`MaxAttempts * (3 * NumInstallments + 6)` together. Every step of the job lowers it, a
refusal, a lost answer or an exception included, and no step of another job, of
the sweep, of staff or of Invoice Ninja touches it. Only a killed worker raises
it: django-q2 delivers the job again without counting an attempt.

Only model-checked: `PendingSettles` and `JobEnds`, liveness, for what fairness
adds to that; `SyncedSettled` and `PendingHasJob`, which other instances refute.

### Not modelled

Amounts, dates, wording and audit rows; the product and client caches (one step
that succeeds or fails); invoice URLs; the credit notes; the roll-up of payments
on the record. A second concurrent sweep: the schedule runs it nightly.

## 4. Agreement lifecycle

### State and actions

Every service of `agreements/services.py` works the same way: read the
agreement, check the guards **on that copy**, `save(update_fields=...)`, send an
e-mail, and only then queue a job or emit the signal billing listens to. No row
is locked and the saves are separate commits. `AgreementLifecycle.tla` gives each
request, webhook delivery or job a *handler* that remembers what it read, and
has one action per commit.

| Module part | Code |
|---|---|
| `agr`, `draft`, `subs` | `Agreement` rows; the plan on the season's `BillingRecord` of each member; DocuSeal's submissions |
| `Start` | a staff button of the application's page or the family hub: the read and the guards, `Allowed` |
| `Approve`, `RetireVoid`/`MakeFresh` | `create_agreement_for_member` on approval, and through `regenerate_agreement` (two commits) |
| `SaveSent`/`QueueSubmission` | `mark_agreement_sent` |
| `SaveSigned`/`DraftBilling` | `mark_agreement_signed` from staff, webhook or sync job; the signal's `create_draft_billing_for_member` under the guardian's lock |
| `SaveVoid`/`QueueArchive` | `void_agreement` |
| `SavePlan`, `Supersede`, `Discontinue` | `set_billing_setup`, `start_material_amendment`, `discontinue_agreement` |
| `PostSubmission`, `PostFails`, `SaveSubmission` | `create_agreement_submission`; the submission may exist although its answer was lost |
| `ReadForSync`, `AskSubmission`, `AskFails` | `sync_agreement_submission`; the GET and the save that follows are one step, the state re-read with them |
| `ParentSigns`, `Webhook`, `ArchiveSubmission` | DocuSeal, `docuseal_webhook`, the archive job |
| `BreakOff` | a process dies or an e-mail raises between two commits |

`AgreementRegister.tla` is the promise about the current agreement: a member has
one at most, and a retired one never becomes current again. The lifecycle
implements it under *current = the rows marked `is_current`*, *retired = the rows
no longer marked*.

### Runs

Deadlock is not checked: agreements, submissions and staff's wishes run out.
Agreements, handlers and submissions are interchangeable, which the symmetry of
the first two runs uses.

| Run | Instance | Shows |
|---|---|---|
| `AgreementLifecycleSaves` | 1 member, 2 agreements, 2 plans, 2 handlers that may break off; no DocuSeal | `ImplementsRegister` |
| `AgreementLifecycleSigning` | 1 agreement, 2 submissions, 2 handlers that may break off | `SignedByParentOrStaff`, `UnbilledOnlyByBreakOff` |
| `Jobs` (section 7) | 1 agreement, 1 submission, 2 fair handlers that do not break off | `SentReachesDocuSeal` |

Two handlers are the least that can hold stale copies of one row; two agreements
the least for a renewal or an amendment; two submissions the least for one to be
replaced by another. One member is enough because no operation reads another
member's agreements; the proofs cover the rest, and what
`UnbilledOnlyByBreakOff` says after renewals and amendments.

Fairness: weak fairness of each handler's step, because a request that was begun
runs to its end and the cluster keeps running jobs. None is assumed of staff, of
the parent, or of DocuSeal answering well.

### Where the code and its documents part

| Run (violation) | What TLC shows |
|---|---|
| `AgreementLifecycleStaleCopy` | `FollowsArrows`: a signing or sending that read the row before a void, an amendment or a discontinuation is saved over it |

Five more have no run of their own.

- On the instance of `AgreementLifecycleStaleCopy`, `SignedPlanKept` fails (the
  plan is changed after the draft was made from it, against
  `agreements/services.py:345`) and so does `VoidQueuesArchive` (an agreement
  voided while its submission is being made leaves it open, against
  `agreements/services.py:276`).
- An e-mail that raises after "signed" is saved leaves no billing draft, and
  signing again is refused. `UnbilledOnlyByBreakOff`, checked with handlers that
  break off, says that nothing else does.
- A renewal interrupted between its commits leaves no current agreement, which
  renewing then refuses to repair. `UnreachableOnlyByBreakOff` says that nothing
  else does.
- With `MayFail = TRUE` in `Jobs.cfg`, `SentReachesDocuSeal` fails: an e-mail
  that raises after "sent" is saved leaves no submission and no retry, against
  `agreements/services.py:189`.

### Proofs

`AgreementLifecycle_proofs.tla` proves, for any sets of members, agreements,
submissions, plans and handlers and any number of attempts, from the three named
assumptions of the module: `TypeCorrect`, `OnlyParentOrStaffSign`,
`LifecycleImplementsRegister`, and three theorems about what alone breaks a
promise: `SigningCreatesDraft` (`UnbilledOnlyByBreakOff`), `MemberStaysReachable`
(`UnreachableOnlyByBreakOff`) and `OnlyStaleDecisionsStray` (`OnlyStaleStrays`).

The inductive invariant `Inv` says that what refers to something refers to the
right thing: a row that names a submission names one of its own, so does every
handler (`Sound`), a queued webhook or archive job names a submission that exists,
and who is about to sign without staff holds one the parent signed. Types need
that much: archiving would otherwise write to a submission that was never made.
Each step is looked at from three sides (what it does to the register, to the
moving handler, to the submissions); the lemma `Together` gives `Inv` again from
the three, so each action is examined once. The refinement is read off the first
side.

`SigningCreatesDraft` covers handlers that break off: a signed agreement has its
season's draft or a handler on its way to make it (`Billed`), and the step that
ends this is a break-off of that very handler. Signers hold a plan (`PlansHeld`),
nothing else disturbs a signer between its save and the draft (`SignerGoesOn`),
and a draft once made keeps its plan (`DraftsSame`).
`MemberStaysReachable` is the same about renewals: whatever else stops being
current leaves another current row of the member (`CurrentKinds`), and a renewal
that has retired the old row is disturbed before it makes the new one only by
breaking off (`RenewalGoesOn`).

`OnlyStaleDecisionsStray` is about what `AgreementLifecycleStaleCopy` shows once.
A handler between its guard and its save has decided on a copy; the decision
*stands* as long as the row still passes the guard. The theorem says, of every
step: a decision is taken on the row as it is (`NewDecisions`); one that stands
is made stale only by another handler's decision on the same agreement
(`SpoiltByAnother`); and an agreement leaves the documented arrows, or changes the
plan it was signed with, only by a stale decision (`StandingFollows`). A check of
the state in the `UPDATE` would therefore remove both.

`HandlersTerminate` proves that no request, webhook or job runs for ever: a
handler has at most `4 * MaxAttempts + 4` steps before it (`HandRank`; a request that
sends an agreement counts the job it will queue), every step of its own lowers
that number, and only breaking off raises it. Nobody else writes a busy handler.

Only model-checked: `SentReachesDocuSeal`, liveness, for what fairness adds to
that.

### Not modelled

The agreement's number and signing path, e-mails except that they may raise,
audit and lifecycle-event rows, minor amendments (an event row), the invoices a
discontinuation cancels (section 3). The uploaded signed copy has a module of
its own (section 6). A plan stands for a
valid pair of plan and month of one season; whether a month is valid on a given
date is left to `BillingSchedule`.

## 5. Intake

### State and actions

`SignIn.tla` is a parent's way in. A request loads its session when it starts
and saves it whole when it ends, so two requests of one browser overwrite each
other's session; `verify_one_time_code` is one transaction under the code's row
lock, `consume_magic_link` three commits without one, on the
token as it was read. `VerifyPage.tla` is the
script of the page the code is typed into. `ApplicationReview.tla` follows one
application row from its blank draft to approval: each request keeps the copy of
the row it read, draft saves write that copy back whole, review actions write
their own columns, submission and resolution read the row again under a lock.

| Module part | Code |
|---|---|
| `StartRegistration`, `IssueCode`, `MailCode` | `start_registration`, `issue_one_time_code` bound to the session, the session saved once the mail is out |
| `OpenVerify`, `FirstUse`, `Replay`, `RefuseCode`, `LogIn` | `verify_one_time_code`: `FirstUse` makes the account and attaches the drafts in one transaction |
| `AskLink`, `NoLiveLink`, `IssueLink`, `SendLink` | `request_magic_link`: the account looked up, the test for a live link, the row, the mail |
| `OpenLink`, `EnsureAccount`, `UseLink`, `AttachClaims` | `verify_magic_link` and `consume_magic_link`: the row read, then three commits |
| `Expire`, `SetActive`, `Logout`, `PostEnds` | time passing, staff, `logout_view`; a limit, an error or a death: nothing more is committed |
| `VerifyPage`: `Edit`, `DiscardStale`, `ValidVerdict`, `NoVerdict`, `SubmitByHand` | `onInput`, `runCheck`'s three ways to end, the submit listener of `verify_code.js` |
| `OpenWorkspace`, `SaveDraft`, `SubmitApplication`, `SubmitRefused` | the workspace's POSTs: `create_or_update_draft`, then `submit_application` |
| `SaveFix`, `CreateMessage`, `MailFix`, `SaveOutcome` | `request_application_fix` and the correction message, four commits |
| `SaveReject`, `ApproveApplication`, `Resolve`, `SaveEdit` | `reject_application`, `approve_application`, `resolve_application_corrections`, `update_reviewed_fields` with the member's mirror |
| `DigestSends`, `DigestInterrupted` | `send_submitted_registration_digest` |

### Run `Intake`

| Module | Instance | Shows |
|---|---|---|
| `SignIn` | 1 e-mail, 2 sessions, 1 code (new, or from before codes were bound), 1 link, 2 requests | `DuplicateAccepted`, `CodeKeepsSession` |
| `VerifyPage` | 3 inputs of six digits, 1 of them good | `OnePost`, `LockedWhileBusy` |
| `ApplicationReview` | 1 tab, 1 reviewer, 1 message, 2 submissions, 2 member ids | `ToldWasReported`, `ResolutionStays` |
| `DocumentOcr` (section 7) | 2 documents of a draft, 1 upload request, 1 job, 1 attempt | `TypedKept` |

`IntakeTypeOK` is the type invariant of all four. Two requests are the least that
can send one code twice; the second session is the one the code must not sign
in. Three inputs let the field hold a good one, a bad one and a third one while
a verdict is outstanding. A second submission lets the digest's flag be about an
earlier one; a second member id lets two approvals each make a member. A second
document lets an answer arrive about the one that was replaced; the two are
interchangeable, which the run's symmetry uses. The application stays a draft
here (`DraftOnly`), since nothing the page does with an answer depends on the
application's status; the run `Jobs` submits it and sends it back. The system may
rest, so deadlock is not checked (this holds for the two runs below as well).

### Where the code and its documents part

| Run (violation) | What TLC shows |
|---|---|
| `ApplicationReviewLosingSubmission` | `SubmissionStands`: a POST opened while corrections were asked for saves its copy of the row after staff resolved them; the application is editable again and the resolution's submission and digest flag are gone |

### Proofs

For any sets of e-mails, sessions, codes, links, requests, inputs, messages and
members:

- `SignIn_proofs`: `SignInTypeCorrect`, `OwnCodeAccepted` (`DuplicateAccepted`),
  `CodeStaysWithSession` (`CodeKeepsSession`). The invariant `SignInInv` adds
  that a request knows its session, its e-mail and the code or link it is about,
  that only codes that were made are used, and that only used codes have signed
  anybody in; a code of old is therefore spent by its first use.
- `SignIn_proofs`, second part, about `VerifyPage`: `VerifyPageTypeCorrect`, `PostsOnce` (`OnePost`),
  `LockedOnlyWhileBusy` (`LockedWhileBusy`). `PageInv` adds that a check and a
  submission are never under way together and that the posts are counted by
  `submitting`.
- `ApplicationReview_proofs`: `ReviewTypeCorrect`, `NoSubmissionPassedOver`
  (`ToldWasReported`), `ResolutionNeverReopens` (`ResolutionStays`). A draft save
  may put any copy back, so `ReviewInv` says of every copy what
  `ToldWasReported` says of the row (`CopiesReported`).
  `OnlyOvertakenUndo` (`OnlyOvertakenReopens`) is about the finding of
  `ApplicationReviewLosingSubmission`: a submitted application becomes editable
  again by a correction request, or by a draft save or correction request that
  another request has overtaken (its copy has another status than the row), and
  by nothing else. What a request asked of its copy (`AllChecked`) is then true
  of the row unless it was overtaken (`OnlyFixReopens`).

### Known and not stated

Two clicks on one magic link both log in, to the same account. A link that was
issued but refused by the rate limit keeps the account from getting another
until it expires. `change_parent_email` does not move the e-mail drafts claim.

### Not modelled

The counters of the limits (refusals may come at any time), which fields a form
requires, consent stamps, referral codes, kit sizes, the guardian's side of a
correction. What two approvals at once do is in the module (`ApproveApplication`
checks the copy), but no document says what they should do, so no property does.

## 6. Office

### State and actions

`Cockpit.tla` and `FamilyHub.tla` are about agreement between pages: the rows
change by the services, one request at a time, and operators translate what each
page derives and offers (`Offers`, `FormShown`, the lanes, the three lists) and
what each endpoint accepts (`Accepts`, `HandlerAccepts`). What counts as offered
in `Cockpit` are the controls of the Hub's own pages: the application's page
(`CockpitOffers`), its agreement module (`AgreementOffers`) and its billing module
(`BillingOffers`). Django admin's change pages and `_billing_change_route`, which
no view or template calls, offer nothing here. `FamilyBilling.tla` is
about siblings whose signings overlap. `BillingSchedule.tla` is the arithmetic of
one record, with staff editing the plan between any two of its steps.
`PermitStore.tla` and `SignedArtifact.tla` are about rows that name private
files: each request works on the row it read, and file and row cannot be written
together.

| Module part | Code |
|---|---|
| `Cockpit`: `ShownBook`, `StepDone`, `StepAvailable`, `CockpitOffers`, `AgreementOffers`, `BillingOffers` | `admin_hub/pipeline.py`, `views.py`, `admin_panels.py` and the templates |
| `Cockpit`: `Accepts`, the actions | the endpoints in `registrations/admin.py`, `billing/admin.py` and the services; `CockpitRecordForm` is `BillingRecordAdminForm` |
| `FamilyHub`: `HubReopened` | `BillingRecordAdminForm`: a confirmed record set back to draft, whatever became of its push |
| `FamilyHub`: lanes, `InQueue`, `HubNeedsAction`, `ActionPriority`, `FormShown`, `HandlerAccepts` | `members/lanes.py`, `family_hub.py`, `admin.py`, `family_hub.html` |
| `FamilyBilling`: `StampSigned`, `SaveStamp`, `DraftSigned`, `Rank` | `mark_agreement_signed` and the signal's draft, cut where another signing can get in; `compute_family_tier` |
| `FamilyBilling`: `RecreateDraft`, `RenewDraft`, `MoveDraft` ... | `recreate_missing_billing_record`, `renew_member_billing`, `reassign_draft_billing_record` ...; the record's form sets any record back to draft, so its status is left out |
| `BillingSchedule`: `Normalize`, `Dates`, `Shares`, `YearCount`, `Final` | `normalize_first_billing_month`, `derive_installment_schedule`, `count_calendar_year_billable_installments`, `_tiered_billing_amounts` |
| `BillingSchedule`: `Setup`, `SignBill`, `Draft`, `EditPlan`, `Recompute`, `Reassign`, `SaveRecordForm`, `MaterializeRows`, `PushRows` | billing setup, signing, the draft's snapshots, the plan's admin, recomputation and reassignment (which drops rows that were not pushed) of a draft, the record's form with override and status, `materialize_installments`, the push |
| `PermitStore` | `documents/medical_permits.py`: upload by application or by member, confirmation, clearing, approval |
| `SignedArtifact` | `signed_artifact_upload_view`, `upload_signed_artifact`, storage's choice of a free name |

A month is a number (12 * year + month - 1), money is in cents, a due day is
left out because it is clamped within its month.

### Run `Office`

| Module | Instance | Shows |
|---|---|---|
| `Cockpit` | 2 seasons, 2 agreements | `HubOffersWork`, `FirstAgreementHasItsRecord` |
| `FamilyHub` | one child (no constant) | `ListsAgree`, `NextActionWorks` |
| `FamilyBilling` | 2 siblings, 2 seasons, 2 instants | `FullPricePayer`, `TieMeansCrossing` |
| `BillingSchedule` | skipped months {7, 12} or {1, 9}; 1, 3 or 10 installments; 100.01 a year or an override of 50.00; 0, 75 or 100 % | `RowsSumToFinal`, `RowsKeepYear` |
| `PermitStore` | 2 requests, 3 files | `FileStored` |
| `SignedArtifact` | 2 requests, 3 names | `ArtifactStored` |

`OfficeTypeOK` is the type invariant of all six. Two seasons and two agreements
are the least with a next season and a renewal. Ten installments from July run
into December and are cut there; 100.01 does not divide evenly by 3 or 10, nor
do its discounted quarter and 50.00 by 3; 100 % leaves nothing to bill. Three
files let one request replace what another has just stored; the two requests are
interchangeable, which the run's symmetry uses. Amounts smaller than a few cents
for each installment, where the rounded shares add up to more than the amount,
are outside the instance; no plan is that cheap.

### Where the code and its documents part

| Run (violation) | What TLC shows |
|---|---|
| `FamilyBillingSameRank` | `RanksDistinct`: of two siblings the one stamped first is saved last; each counts as first when its own draft is made, under the lock, and both pay the full price |

Stated in the modules, false of the code, without a run of their own; each is
reproduced by adding it to `Office.cfg` as an invariant:

- `Cockpit.SignedHasItsRecord`: after an amendment the record still names the
  older agreement; reassigning it moves that one, and the season of the signed
  one has no record. `FirstAgreementHasItsRecord` is what is left.
- `FamilyHub.QueuedIsRanked`: a family with a member without a group, or a
  record that is being pushed, is in the queue and sorted with the rest.
- `PermitStore.ApprovedPermitLinked`: an upload that read the application before
  its approval makes the permit after it, without the member.
- `SignedArtifact.ArtifactStored` without its first conjunct: of two uploads that
  overlap, the one that ends last deletes by name what the other stored anew.

Three properties name the rows they leave out, because the code fails there.
Without the exception each is refuted on `Office.cfg`:

- `HubOffersWork`: `Dangling` names four refusals. The signing button is shown by
  the agreement's state and the plan of the record shown, while the endpoint
  asks for the agreement's own plan and wants it on sale: it refuses a plan
  withdrawn since, and a new agreement without a plan beside an older record
  (`admin_hub/views.py:696-700`). The next season is offered by the record alone;
  the endpoint wants the agreement signed and another plan on sale.
- `NextActionWorks`: a record set back to draft after a failed push; its lane asks
  for a retry (`members/lanes.py:239`), the hub has only the form that confirms
  it (`family_hub.html:308-326`). A record being pushed and a season without a
  plan on sale are left out as well: there is nothing to do there.
- `RowsSumToFinal`: a record set back to draft after its rows were made
  (`reopened`): recomputation and override change its amount, and the next push
  takes the old rows as they are (`billing/services.py:649-651`).

### Proofs

`Office_proofs`, for any seasons, siblings, plans and numbers of agreements:

- *`Cockpit`*: `CockpitTypeCorrect`, `FirstAgreementKeepsRecord` and
  `OffersAreAccepted` (`HubOffersWork`). `OneAgreement` says what is special
  about the first agreement: every record is its own, so moving a record moves
  it. What a page offers is decided on the record it shows, and `ShownIsBooked`
  says that record exists: the least season of a non-empty set is one of its
  members. The theorem takes the controls one by one and shows that `Dangling`
  has no fifth case.
- *`FamilyHub`*: `ListsAlwaysAgree` (`ListsAgree`) and `NextActionAlwaysWorks`
  (`NextActionWorks`). `HubInv` adds to the types how far agreement and record
  can be ahead of the application (`RowsInOrder`); without it a lane could ask
  for a form that the hub hides.
- *`FamilyBilling`*: `FamilyTypeCorrect`, `FirstChildPaysInFull`
  (`FullPricePayer`), `TiesCrossed` (`TieMeansCrossing`). `FamilyInv`
  says that as long as every agreement stands as signed and no record was renewed
  (`steady`, the condition of `FullPricePayer`), an agreement is stamped once
  (`SignedOnce`) and a discount has an earlier sibling as its reason
  (`DiscountHasReason`). The sibling who signed first, whom the lemma
  `FirstSigned` finds, therefore has none. `TiesCrossed` is about what
  `FamilyBillingSameRank` shows once: two siblings come to the same paid
  percentage only if the one whose draft is made second had been stamped first,
  while the other's was saved. `RankInv` is its invariant: as long as agreements
  stand ranks only grow, so a draft holds its member's rank or a lower one
  (`RankBelow`). It leaves out the fourth child on, since all of them pay
  nothing.
- *`BillingSchedule`*: `ScheduleTypeCorrect`, `ScheduleKeepsYear`
  (`RowsKeepYear`) and `InvoicesAddUp` (`RowsSumToFinal`). `ScheduleInv` says that
  the month a record starts in is one its plan bills (`MonthKept`) and that its
  count is the plan's for that month (`CountKept`), each as long as the plan was
  not edited. The dates are a recursive function and the sum a fold; `DatesWalk`,
  `DatesFollow`, `CountedInYear` and `SharesSum` give what the steps need in
  closed form. `InvoicesAddUp` adds where a record's amount comes from, the
  override staff typed or a plan as it was when last computed (`MadeFromPlan`),
  and that rows of a record never set back to draft belong to a confirmed one
  (`SumsHold`), which no recomputation or reassignment takes up. It assumes
  `DearPlans`: no plan and no override is for fewer cents than the rounding of
  its shares can use up. For a cheaper one the last row would be negative or
  nothing, which the code does not forbid.

`PrivateFiles_proofs`, for any requests, files and names:

- *`PermitStore`*: `PermitTypeCorrect` and `NamedFileStays` (`FileStored`).
  `PermitInv` says that a file about to be saved is stored, drawn for this
  request alone and named by nobody, that a file about to be deleted is not the
  one the row names, and that a request that found or made the row still has it.
- *`SignedArtifact`*: `SignedCopyStays` (`ArtifactStored`). `ArtifactInv` says
  that while uploads have not overlapped at most one is under way (`Alone`), that
  the name it read is still the row's, that the file it wrote is stored under
  another name, and that the name it deletes in the end is not the row's
  (`SendingOK`).

The prover cannot use an induction principle that takes a predicate, so the
proofs about numbers look for a least counterexample instead: `LeastNatural`
proves, from the library's facts on finite sets, that every non-empty set of
naturals has a least member.

Every safety property of the run is proved; it has no liveness property.

### Not modelled

Records without a first billing month and reassignment to a blank one, the
hub's queues, search, timeline and exports (they read), portraits and back sides
of documents, guardian consolidation, edits of a member's fields.

## 7. Documents and jobs

### State and actions

`DocumentOcr.tla` has the documents of one kind of one application, the upload
requests that replace each other, the OCR jobs and the parent's page. A job loads
document and application once, calls the provider, and then writes in three
commits (extraction, document, field sources), any of which may find the document
purged or the extraction there already. `MCJobs` puts it beside
`AgreementLifecycle` and `ApplicationReview`, because the same cluster owes all
three something.

| Module part | Code |
|---|---|
| `ReplaceScan`, `CreateScan`, `AnswerUpload`, `ReuseScan` | `async_document_upload`, `_handle_document_upload`, `_handle_guardian_doc_reuse` |
| `LoadScan`, `FileRaises`, `ProviderFails`, `SaveExtraction`, `ExtractionTaken`, `MarkCompleted`, `ApplySources`, `SaveLost` | `ocr_extract_job`; `FileRaises` is a file that cannot be opened or a result that cannot be encrypted, outside `safe_extract` (`integrations/tasks.py:99`, `:118`) |
| `RaiseIn`, `KillJob` | django-q2: a raise counts an attempt, a killed worker does not |
| `RerunOcr`, `PurgeScan` | `DocumentAdmin` |
| `TypeField`, `PollAnswered`, `Fill`, `AcceptChip`, `DismissChip`, `LoadPage` | `async_upload.js` |

### Run `Jobs`

| Module | Instance | Shows |
|---|---|---|
| `AgreementLifecycle` | 1 agreement, 1 submission, 2 handlers that do not break off | `SentReachesDocuSeal` |
| `DocumentOcr` | 1 document, 1 upload request, 1 job, 2 attempts, 1 kill | `CompletedHasExtraction`, `PendingScanSettles`, `LateJobsOnly` |
| `ApplicationReview` | 1 tab, 1 reviewer, 2 submissions | `SubmissionReported` |

`JobsTypeOK` is their type invariant. Two attempts are the settings'; one kill
lets a job be delivered again after each of its commits (a kill is not an
attempt, so without a bound a job could be killed for ever). One document is
enough for a job and its redelivery; that an answer about another document does
no harm is checked by `Intake`.

Fairness: weak fairness of each handler and of each job's step, because the
cluster keeps running jobs and a request that was begun runs to its end; and of
`DigestSends`, because the digest is scheduled daily and its mail is accepted
some day (a submission that is never mailed leaves it enabled). None is assumed
of parents, of staff, of kills not happening within the bound, or of providers
answering well.

`FrozenAfterSubmit` is stated in `DocumentOcr` and false of the code: the job
tests the status on the application it loaded before the provider's call, so the
field sources of an application submitted in between are still written (against
`integrations/tasks.py:162`). It is reproduced by adding it to `Jobs.cfg` as a
property; `LateJobsOnly` says which jobs do it.

`PendingScanSettles` has one way out that is no success: a job whose attempts
could not open the file, or encrypt what was read, ends and leaves its document
pending, and only staff's re-run takes it up.

### Proofs

`DocumentOcr_proofs` proves `OcrTypeCorrect`, `CompletedIsExtracted`
(`CompletedHasExtraction`) and `TypedStays` (`TypedKept`), for any documents,
uploads, jobs, attempts and kills. `OcrInv` joins to the types that a job is
about a row that exists and that a job past the insertion finds the extraction
there until the row is purged.

`OnlyLateJobsThaw` (`LateJobsOnly`): what is captured of a submitted application
is changed only by a job that had loaded it as a draft, and after the submission
no job comes to believe in a draft any more. The jobs under way at the
submission are therefore all that can touch it.

`OcrJobsTerminate` proves that no job runs for ever: four steps a delivery
(`OcrStage`), `OcrAttempts` deliveries and one more for each killed worker; with
the kills still to come counted in (`OcrWork`), every step of the job and every
kill lowers the number.

Only model-checked: `PendingScanSettles` and `SentReachesDocuSeal`, for what
fairness adds to these bounds, and `SubmissionReported`, one fair step of the digest.

### Known and not stated

The permit page's script shows whichever answer arrives last. A document reused
while its original is still pending has no job of its own and stays pending. A
job run again on a document that has its extraction raises an integrity error
instead of reading it anew.

### Not modelled

Field values (one value for each document stands for all of them), the back sides
and portraits (no OCR), previews and downloads.

## 8. Other components

Exports, analytics, audit trail, middleware, health checks and the address search
read, format or append; no other component decides on what they write. The
adapters' formatting and parsing is abstracted to the outcomes the jobs branch on.
Settings give the constants of the job cluster. `PROJECT.json` lists each with its
reason.

----------------------------- MODULE InvoicePush -----------------------------
(***************************************************************************)
(* Pushing a confirmed billing record to Invoice Ninja, sending the due     *)
(* invoices and cancelling the invoices of a member who leaves.             *)
(*                                                                         *)
(* The database is PostgreSQL in autocommit: every save() is a step of its  *)
(* own and what a job holds in memory may be stale, except inside the       *)
(* blocks the code wraps in transaction.atomic(). Jobs run in two django-q  *)
(* workers with max_attempts 2, so a job that raises is delivered again.    *)
(***************************************************************************)
EXTENDS Integers, FiniteSets

CONSTANTS
    Records,          \* billing records
    FreeRecords,      \* those whose final_amount is 0.00
    NumInstallments,  \* installments of a record that is not free
    InvoiceIds,       \* ids Invoice Ninja may hand out
    NoId,             \* a blank external_invoice_id
    Jobs,             \* slots for queued or running push jobs
    MaxAttempts,      \* max_attempts of the cluster
    AutosendEnabled,  \* BILLING_AUTOSEND_ENABLED
    EditedRecords,    \* records staff open in the admin's change form
    LeavingRecords,   \* records of members who may be discontinued
    Crashing          \* whether workers and web processes may die

ASSUME NoIdAssumption == NoId \notin InvoiceIds
ASSUME InstallmentsAssumption == NumInstallments \in Nat \ {0}
ASSUME AttemptsAssumption == MaxAttempts \in Nat \ {0}
ASSUME SwitchesAssumption == AutosendEnabled \in BOOLEAN /\ Crashing \in BOOLEAN
ASSUME SubsetsAssumption ==
    FreeRecords \cup EditedRecords \cup LeavingRecords \subseteq Records

Installments == 1 .. NumInstallments

\* An installment is known everywhere by its record and sequence: the row's
\* unique key and the external number {prefix}-{record}-{sequence}.
Numbers == Records \X Installments

VARIABLES
    record,    \* BillingRecord: status and external_status
    rows,      \* BillingInvoice rows by number
    invoices,  \* the invoices held by Invoice Ninja
    jobs,      \* push_billing_record jobs
    sweep,     \* the running send_due_invoices
    leave,     \* the discontinuation's selection per record
    cancels,   \* queued archive_invoice_job and cancel_invoice_job
    form       \* an open change form's copy of its record

vars == <<record, rows, invoices, jobs, sweep, leave, cancels, form>>

-----------------------------------------------------------------------------
(* Types *)

RecordRow == [status : {"draft", "confirmed"},
              ext : {"blank", "pending", "synced", "failed"}]

InvoiceRow == [exists : BOOLEAN,
               ext : InvoiceIds \cup {NoId},
               status : {"blank", "created", "sent", "failed"},
               paid : BOOLEAN,
               cancelled : BOOLEAN,
               cancellation : {"none", "pending", "done", "failed"}]

Invoice == [num : Numbers, state : {"draft", "sent", "archived", "cancelled"},
            paid : BOOLEAN]

Absent == [state |-> "absent"]

Pc == {"free", "queued", "loaded", "ensure", "rows", "create", "push", "save"}

Job == [pc : Pc, rec : Records, attempts : 0 .. (MaxAttempts - 1),
        at : 1 .. (NumInstallments + 1), todo : SUBSET Installments,
        failed : BOOLEAN, got : InvoiceIds \cup {NoId}]

Action == {"local", "archive", "cancel"}

Sweep == [on : BOOLEAN, todo : SUBSET Numbers, mailed : SUBSET Numbers]

Leave == [state : {"open", "read", "closed"}, plan : SUBSET (Installments \X Action)]

TypeOK ==
    /\ record \in [Records -> RecordRow]
    /\ rows \in [Numbers -> InvoiceRow]
    /\ invoices \in [InvoiceIds -> Invoice \cup {Absent}]
    /\ jobs \in [Jobs -> Job]
    /\ sweep \in Sweep
    /\ leave \in [Records -> Leave]
    /\ cancels \in SUBSET (Numbers \X {"archive", "cancel"})
    /\ form \in [Records -> RecordRow \cup {Absent}]

-----------------------------------------------------------------------------
(* Initial states *)

NoRow == [exists |-> FALSE, ext |-> NoId, status |-> "blank", paid |-> FALSE,
          cancelled |-> FALSE, cancellation |-> "none"]

JobAt(r, pc, n) == [pc |-> pc, rec |-> r, attempts |-> n, at |-> 1, todo |-> {},
                    failed |-> FALSE, got |-> NoId]

FreeJob(r) == JobAt(r, "free", 0)

Init ==
    /\ record = [r \in Records |-> [status |-> "draft", ext |-> "blank"]]
    /\ rows = [n \in Numbers |-> NoRow]
    /\ invoices = [i \in InvoiceIds |-> Absent]
    /\ \E r \in Records : jobs = [j \in Jobs |-> FreeJob(r)]
    /\ sweep = [on |-> FALSE, todo |-> {}, mailed |-> {}]
    /\ leave = [r \in Records |-> [state |-> "open", plan |-> {}]]
    /\ cancels = {}
    /\ form = [r \in Records |-> Absent]

-----------------------------------------------------------------------------
(* Invoice Ninja, as the provider adapter uses it *)

Issued(i) == invoices[i] # Absent

\* POST /invoices answers 422 "already been taken" for a number in use.
Taken(n) == \E i \in InvoiceIds : Issued(i) /\ invoices[i].num = n

\* Variant: the fuzzy lookup's first row is taken without comparing numbers.
ActiveForAnyNumber(n) ==
    {i \in InvoiceIds : Issued(i) /\ invoices[i].state # "archived"}

\* The lookup by number passes status=active, which leaves archived ones out.
ActiveFor(n) ==
    {i \in InvoiceIds : Issued(i) /\ invoices[i].num = n /\ invoices[i].state # "archived"}

\* Variant: Invoice Ninja numbers the invoices itself.
IssueUnnumbered(n, i) ==
    /\ ~Issued(i)
    /\ invoices' = [invoices EXCEPT ![i] = [num |-> n, state |-> "draft", paid |-> FALSE]]

\* A new invoice for number n under an id never used before.
IssueInvoice(n, i) ==
    /\ ~Taken(n)
    /\ ~Issued(i)
    /\ invoices' = [invoices EXCEPT ![i] = [num |-> n, state |-> "draft", paid |-> FALSE]]

-----------------------------------------------------------------------------
(* Staff: confirming and enqueueing *)

\* confirm_view.
Confirm(r) ==
    /\ record[r].status = "draft"
    /\ record' = [record EXCEPT ![r].status = "confirmed"]
    /\ UNCHANGED <<rows, invoices, jobs, sweep, leave, cancels, form>>

\* The change form reads the record, and saves all its columns: the external
\* status as read, and whichever status staff picked.
OpenForm(r) ==
    /\ r \in EditedRecords
    /\ form[r] = Absent
    /\ form' = [form EXCEPT ![r] = record[r]]
    /\ UNCHANGED <<record, rows, invoices, jobs, sweep, leave, cancels>>

SaveForm(r) ==
    /\ form[r] # Absent
    /\ \E s \in {"draft", "confirmed"} :
         record' = [record EXCEPT ![r] = [form[r] EXCEPT !.status = s]]
    /\ form' = [form EXCEPT ![r] = Absent]
    /\ UNCHANGED <<rows, invoices, jobs, sweep, leave, cancels>>

\* push_view and the bulk action, through enqueue_push_billing_record: under
\* the record's row lock, with the OrmQ row in the same transaction. A draft
\* is refused, or confirmed in that transaction (confirm_and_push).
Enqueue(r, j) ==
    /\ record[r].ext \notin {"synced", "pending"}
    /\ jobs[j].pc = "free"
    /\ record' = [record EXCEPT ![r].status = "confirmed", ![r].ext = "pending"]
    /\ jobs' = [jobs EXCEPT ![j] = JobAt(r, "queued", 0)]
    /\ UNCHANGED <<rows, invoices, sweep, leave, cancels, form>>

-----------------------------------------------------------------------------
(* push_billing_record *)

Rec(j) == jobs[j].rec
Cur(j) == <<jobs[j].rec, jobs[j].at>>

Finish(j) == FreeJob(Rec(j))

Redeliver(j, n) == JobAt(Rec(j), "queued", n)

\* Variants: one delivery too many, and deliveries nobody counts.
RaisedOnceMore(j) ==
    IF jobs[j].attempts < MaxAttempts THEN Redeliver(j, jobs[j].attempts + 1) ELSE Finish(j)

RaisedUncounted(j) == Redeliver(j, jobs[j].attempts)

\* A raise counts an attempt; the last one leaves the queue for good.
Raised(j) ==
    IF jobs[j].attempts + 1 < MaxAttempts
    THEN Redeliver(j, jobs[j].attempts + 1)
    ELSE Finish(j)

\* The first read and the guards on it; a free record needs no provider.
Load(j) ==
    /\ jobs[j].pc = "queued"
    /\ jobs' = [jobs EXCEPT ![j] =
                  IF record[Rec(j)].status # "confirmed" \/ record[Rec(j)].ext = "synced"
                  THEN Finish(j) ELSE [@ EXCEPT !.pc = "loaded"]]
    /\ UNCHANGED <<record, rows, invoices, sweep, leave, cancels, form>>

MarkSynced(j) ==
    /\ jobs[j].pc = "loaded"
    /\ Rec(j) \in FreeRecords
    /\ record' = [record EXCEPT ![Rec(j)].ext = "synced"]
    /\ jobs' = [jobs EXCEPT ![j] = Finish(j)]
    /\ UNCHANGED <<rows, invoices, sweep, leave, cancels, form>>

MarkPending(j) ==
    /\ jobs[j].pc = "loaded"
    /\ Rec(j) \notin FreeRecords
    /\ record' = [record EXCEPT ![Rec(j)].ext = "pending"]
    /\ jobs' = [jobs EXCEPT ![j].pc = "ensure"]
    /\ UNCHANGED <<rows, invoices, sweep, leave, cancels, form>>

EnsureSucceeds(j) ==
    /\ jobs[j].pc = "ensure"
    /\ jobs' = [jobs EXCEPT ![j].pc = "rows"]
    /\ UNCHANGED <<record, rows, invoices, sweep, leave, cancels, form>>

\* Variant: a permanent error returns without saving the record.
EnsureFailsSilently(j) ==
    /\ jobs[j].pc = "ensure"
    /\ \/ /\ record' = [record EXCEPT ![Rec(j)].ext = "failed"]
          /\ jobs' = [jobs EXCEPT ![j] = Raised(j)]
       \/ /\ jobs' = [jobs EXCEPT ![j] = Finish(j)]
          /\ UNCHANGED record
    /\ UNCHANGED <<rows, invoices, sweep, leave, cancels, form>>

\* Product or client refused: a transient error raises, any other returns.
EnsureFails(j) ==
    /\ jobs[j].pc = "ensure"
    /\ record' = [record EXCEPT ![Rec(j)].ext = "failed"]
    /\ \/ jobs' = [jobs EXCEPT ![j] = Raised(j)]
       \/ jobs' = [jobs EXCEPT ![j] = Finish(j)]
    /\ UNCHANGED <<rows, invoices, sweep, leave, cancels, form>>

\* materialize_installments: any existing row means all of them exist.
RowsOf(r) == {s \in Installments : rows[<<r, s>>].exists}

\* Variant: only the id is looked at.
UnpushedOrCancelled(r) == {s \in RowsOf(r) : rows[<<r, s>>].ext = NoId}

Unpushed(r) ==
    {s \in RowsOf(r) : ~rows[<<r, s>>].cancelled /\ rows[<<r, s>>].ext = NoId}

ReadRows(j) ==
    /\ jobs[j].pc = "rows"
    /\ jobs' = [jobs EXCEPT ![j] =
                  IF RowsOf(Rec(j)) # {}
                  THEN [@ EXCEPT !.pc = "push", !.todo = Unpushed(Rec(j))]
                  ELSE [@ EXCEPT !.pc = "create", !.at = 1]]
    /\ UNCHANGED <<record, rows, invoices, sweep, leave, cancels, form>>

\* One autocommitted INSERT per installment.
CreateRow(j) ==
    /\ jobs[j].pc = "create"
    /\ jobs[j].at \in Installments
    /\ ~rows[Cur(j)].exists
    /\ rows' = [rows EXCEPT ![Cur(j)].exists = TRUE]
    /\ jobs' = [jobs EXCEPT ![j].at = @ + 1]
    /\ UNCHANGED <<record, invoices, sweep, leave, cancels, form>>

\* one_invoice_per_record_sequence: another job inserted the row first, and
\* the IntegrityError leaves the job with the record still pending.
CreateRowCollides(j) ==
    /\ jobs[j].pc = "create"
    /\ jobs[j].at \in Installments
    /\ rows[Cur(j)].exists
    /\ jobs' = [jobs EXCEPT ![j] = Raised(j)]
    /\ UNCHANGED <<record, rows, invoices, sweep, leave, cancels, form>>

RowsCreated(j) ==
    /\ jobs[j].pc = "create"
    /\ jobs[j].at \notin Installments
    /\ jobs' = [jobs EXCEPT ![j].pc = "push", ![j].todo = Installments, ![j].at = 1]
    /\ UNCHANGED <<record, rows, invoices, sweep, leave, cancels, form>>

\* The rows are walked in order of sequence.
Turn(j, s) ==
    /\ jobs[j].pc = "push"
    /\ s \in jobs[j].todo
    /\ \A t \in jobs[j].todo : s <= t

Got(j, s, i) ==
    jobs' = [jobs EXCEPT ![j].pc = "save", ![j].at = s, ![j].got = i,
                         ![j].todo = @ \ {s}]

CreateInvoice(j, s) ==
    /\ Turn(j, s)
    /\ \E i \in InvoiceIds : IssueInvoice(<<Rec(j), s>>, i) /\ Got(j, s, i)
    /\ UNCHANGED <<record, rows, sweep, leave, cancels, form>>

\* The number is taken: an earlier attempt made the invoice, adopt it.
RecoverInvoice(j, s) ==
    /\ Turn(j, s)
    /\ Taken(<<Rec(j), s>>)
    /\ \E i \in ActiveFor(<<Rec(j), s>>) : Got(j, s, i)
    /\ UNCHANGED <<record, rows, invoices, sweep, leave, cancels, form>>

\* Refused for good (or the number belongs to an archived invoice): the row
\* is marked, the loop goes on.
RefuseInvoice(j, s) ==
    /\ Turn(j, s)
    /\ rows' = [rows EXCEPT ![<<Rec(j), s>>].status = "failed"]
    /\ jobs' = [jobs EXCEPT ![j].failed = TRUE, ![j].todo = @ \ {s}]
    /\ UNCHANGED <<record, invoices, sweep, leave, cancels, form>>

\* Variant: the transient error is recorded on the row alone.
LoseAnswerSilently(j, s) ==
    /\ Turn(j, s)
    /\ rows' = [rows EXCEPT ![<<Rec(j), s>>].status = "failed"]
    /\ jobs' = [jobs EXCEPT ![j] = Raised(j)]
    /\ UNCHANGED <<record, invoices, sweep, leave, cancels, form>>

\* A timeout, 429 or 5xx: nobody knows whether Invoice Ninja made the invoice.
LoseAnswer(j, s) ==
    /\ Turn(j, s)
    /\ \/ \E i \in InvoiceIds : IssueInvoice(<<Rec(j), s>>, i)
       \/ UNCHANGED invoices
    /\ rows' = [rows EXCEPT ![<<Rec(j), s>>].status = "failed"]
    /\ record' = [record EXCEPT ![Rec(j)].ext = "failed"]
    /\ jobs' = [jobs EXCEPT ![j] = Raised(j)]
    /\ UNCHANGED <<sweep, leave, cancels, form>>

SaveRow(j) ==
    /\ jobs[j].pc = "save"
    /\ rows' = [rows EXCEPT ![Cur(j)].ext = jobs[j].got, ![Cur(j)].status = "created"]
    /\ jobs' = [jobs EXCEPT ![j].pc = "push", ![j].got = NoId]
    /\ UNCHANGED <<record, invoices, sweep, leave, cancels, form>>

\* Variant: a refused installment does not fail the record.
RollUpSynced(j) ==
    /\ jobs[j].pc = "push"
    /\ jobs[j].todo = {}
    /\ record' = [record EXCEPT ![Rec(j)].ext = "synced"]
    /\ jobs' = [jobs EXCEPT ![j] = Finish(j)]
    /\ UNCHANGED <<rows, invoices, sweep, leave, cancels, form>>

RollUp(j) ==
    /\ jobs[j].pc = "push"
    /\ jobs[j].todo = {}
    /\ record' = [record EXCEPT ![Rec(j)].ext = IF jobs[j].failed THEN "failed" ELSE "synced"]
    /\ jobs' = [jobs EXCEPT ![j] = Finish(j)]
    /\ UNCHANGED <<rows, invoices, sweep, leave, cancels, form>>

\* The worker raises outside the handlers (the 60 s timeout, a lost database
\* connection) or is killed, which counts no attempt.
Die(j) ==
    /\ jobs[j].pc \notin {"free", "queued"}
    /\ Crashing
    /\ \/ jobs' = [jobs EXCEPT ![j] = Raised(j)]
       \/ jobs' = [jobs EXCEPT ![j] = Redeliver(j, jobs[j].attempts)]
    /\ UNCHANGED <<record, rows, invoices, sweep, leave, cancels, form>>

PushStep(j) ==
    \/ Load(j) \/ MarkSynced(j) \/ MarkPending(j)
    \/ EnsureSucceeds(j) \/ EnsureFails(j)
    \/ ReadRows(j) \/ CreateRow(j) \/ CreateRowCollides(j) \/ RowsCreated(j)
    \/ \E s \in Installments :
         CreateInvoice(j, s) \/ RecoverInvoice(j, s) \/ RefuseInvoice(j, s) \/ LoseAnswer(j, s)
    \/ SaveRow(j) \/ RollUp(j)

-----------------------------------------------------------------------------
(* send_due_invoices *)

\* The candidates, as the query and is_invoice_due_to_send see them once, at
\* the start; which of them are due, with an address to send to, is open.
Sendable(n) ==
    /\ rows[n].status = "created"
    /\ rows[n].ext # NoId
    /\ ~rows[n].cancelled

StartSweep ==
    /\ AutosendEnabled
    /\ ~sweep.on
    /\ \E due \in SUBSET {n \in Numbers : Sendable(n)} :
         /\ due # {}
         /\ sweep' = [on |-> TRUE, todo |-> due, mailed |-> {}]
    /\ UNCHANGED <<record, rows, invoices, jobs, leave, cancels, form>>

\* Emailing a draft turns it into a sent invoice.
Mailed(n) == [invoices EXCEPT ![rows[n].ext].state = IF @ = "draft" THEN "sent" ELSE @]

\* Variant: the answer to the call is not looked at.
EmailInvoiceUnchecked(n) ==
    /\ sweep.mailed = {}
    /\ n \in sweep.todo
    /\ invoices' \in {invoices, Mailed(n)}
    /\ sweep' = [sweep EXCEPT !.todo = @ \ {n}, !.mailed = {n}]
    /\ UNCHANGED <<record, rows, jobs, leave, cancels, form>>

EmailInvoice(n) ==
    /\ sweep.mailed = {}
    /\ n \in sweep.todo
    /\ invoices' = Mailed(n)
    /\ sweep' = [sweep EXCEPT !.todo = @ \ {n}, !.mailed = {n}]
    /\ UNCHANGED <<record, rows, jobs, leave, cancels, form>>

\* The call fails, or succeeded and its answer was lost; the row stays created.
EmailFails(n) ==
    /\ sweep.mailed = {}
    /\ n \in sweep.todo
    /\ invoices' \in {invoices, Mailed(n)}
    /\ sweep' = [sweep EXCEPT !.todo = @ \ {n}]
    /\ UNCHANGED <<record, rows, jobs, leave, cancels, form>>

SaveSent(n) ==
    /\ n \in sweep.mailed
    /\ rows' = [rows EXCEPT ![n].status = "sent"]
    /\ sweep' = [sweep EXCEPT !.mailed = {}]
    /\ UNCHANGED <<record, invoices, jobs, leave, cancels, form>>

EndSweep ==
    /\ sweep.on
    /\ sweep.todo = {} /\ sweep.mailed = {}
    /\ sweep' = [sweep EXCEPT !.on = FALSE]
    /\ UNCHANGED <<record, rows, invoices, jobs, leave, cancels, form>>

SweepDies ==
    /\ sweep.on
    /\ Crashing
    /\ sweep' = [on |-> FALSE, todo |-> {}, mailed |-> {}]
    /\ UNCHANGED <<record, rows, invoices, jobs, leave, cancels, form>>

SweepStep ==
    \/ StartSweep \/ EndSweep
    \/ \E n \in Numbers : EmailInvoice(n) \/ EmailFails(n) \/ SaveSent(n)

-----------------------------------------------------------------------------
(* Payments *)

Pay(i) ==
    /\ Issued(i)
    /\ invoices[i].state = "sent"
    /\ ~invoices[i].paid
    /\ invoices' = [invoices EXCEPT ![i].paid = TRUE]
    /\ UNCHANGED <<record, rows, jobs, sweep, leave, cancels, form>>

\* _sync_invoice_payment, from the nightly sweep or the admin action.
SyncPayment(n) ==
    /\ rows[n].ext # NoId
    /\ rows[n].paid # invoices[rows[n].ext].paid
    /\ rows' = [rows EXCEPT ![n].paid = invoices[rows[n].ext].paid]
    /\ UNCHANGED <<record, invoices, jobs, sweep, leave, cancels, form>>

-----------------------------------------------------------------------------
(* create_discontinuation_adjustments and its external jobs *)

\* What will be done with a selected row, or nothing when the row blocks the
\* whole selection.
ActionFor(n) ==
    IF rows[n].paid THEN {}
    ELSE IF rows[n].ext = NoId THEN {"local"}
    ELSE IF rows[n].status = "created" THEN {"archive"}
    ELSE IF rows[n].status = "sent" THEN {"cancel"} ELSE {}

\* Read and validate the selected rows; nothing is locked.
SelectInvoices(r) ==
    /\ r \in LeavingRecords
    /\ leave[r].state = "open"
    /\ \E sel \in SUBSET RowsOf(r) :
         /\ sel # {}
         /\ \A s \in sel : ActionFor(<<r, s>>) # {}
         /\ leave' = [leave EXCEPT ![r] =
                        [state |-> "read",
                         plan |-> {p \in sel \X Action : p[2] \in ActionFor(<<r, p[1]>>)}]]
    /\ UNCHANGED <<record, rows, invoices, jobs, sweep, cancels, form>>

\* Variant: rows with an external invoice are left to their job.
PlannedLocally(r, s) == {a \in {"local"} : <<s, a>> \in leave[r].plan}

Planned(r, s) == {a \in Action : <<s, a>> \in leave[r].plan}

ExternalJobs(r) ==
    {c \in Numbers \X {"archive", "cancel"} :
       c[1][1] = r /\ <<c[1][2], c[2]>> \in leave[r].plan}

\* The transaction's writes commit together; the on_commit callbacks that
\* queue the external jobs run after it, if the process still lives.
CancelSelected(r) ==
    /\ leave[r].state = "read"
    /\ rows' = [n \in Numbers |->
                  IF n[1] = r /\ Planned(r, n[2]) # {}
                  THEN [rows[n] EXCEPT !.cancelled = TRUE,
                          !.cancellation = IF Planned(r, n[2]) = {"local"} THEN @ ELSE "pending"]
                  ELSE rows[n]]
    /\ leave' = [leave EXCEPT ![r] = [state |-> "closed", plan |-> {}]]
    /\ \E queued \in SUBSET ExternalJobs(r) :
         /\ Crashing \/ queued = ExternalJobs(r)
         /\ cancels' = cancels \cup queued
    /\ UNCHANGED <<record, invoices, jobs, sweep, form>>

\* archive_invoice_job / cancel_invoice_job: the call takes effect and is
\* recorded, or takes effect and the job dies, to be delivered again.
RunCancel(c) ==
    /\ c \in cancels
    /\ rows[c[1]].ext # NoId
    /\ invoices' = [invoices EXCEPT ![rows[c[1]].ext].state =
                      IF c[2] = "archive" THEN "archived" ELSE "cancelled"]
    /\ \/ /\ rows' = [rows EXCEPT ![c[1]].cancellation = "done"]
          /\ cancels' = cancels \ {c}
       \/ /\ Crashing
          /\ UNCHANGED <<rows, cancels>>
    /\ UNCHANGED <<record, jobs, sweep, leave, form>>

\* A transient error leaves the job queued, a permanent one drops it.
CancelFails(c) ==
    /\ c \in cancels
    /\ rows[c[1]].ext # NoId
    /\ rows' = [rows EXCEPT ![c[1]].cancellation = "failed"]
    /\ cancels' \in {cancels, cancels \ {c}}
    /\ UNCHANGED <<record, invoices, jobs, sweep, leave, form>>

CancelStep == \E c \in cancels : RunCancel(c) \/ CancelFails(c)

-----------------------------------------------------------------------------
Next ==
    \/ \E r \in Records : Confirm(r) \/ OpenForm(r) \/ SaveForm(r)
    \/ \E r \in Records : SelectInvoices(r) \/ CancelSelected(r)
    \/ \E r \in Records, j \in Jobs : Enqueue(r, j)
    \/ \E j \in Jobs : PushStep(j) \/ Die(j)
    \/ SweepStep \/ SweepDies
    \/ CancelStep
    \/ \E i \in InvoiceIds : Pay(i)
    \/ \E n \in Numbers : SyncPayment(n)

Spec == Init /\ [][Next]_vars

\* The cluster's workers keep running jobs; nobody else has to act.
FairSpec == Spec /\ \A j \in Jobs : WF_vars(PushStep(j))

-----------------------------------------------------------------------------
(* Invariants *)

\* The id on a row is that of an invoice issued for that very installment,
\* never one of another record that the lookup by number came across.
RowNamesOwnInvoice ==
    \A n \in Numbers : rows[n].ext # NoId =>
        Issued(rows[n].ext) /\ invoices[rows[n].ext].num = n

\* Invoice Ninja's own rule about numbers; the lookup by number rests on it.
OneInvoicePerNumber ==
    \A i, k \in InvoiceIds :
        Issued(i) /\ Issued(k) /\ invoices[i].num = invoices[k].num => i = k

\* A worker about to store an id holds the invoice of the row it stores it on.
HoldsOwnInvoice(j) ==
    /\ jobs[j].got \in InvoiceIds
    /\ jobs[j].at \in Installments
    /\ Issued(jobs[j].got) /\ invoices[jobs[j].got].num = Cur(j)

SavingOwnInvoice == \A j \in Jobs : jobs[j].pc = "save" => HoldsOwnInvoice(j)

\* The sweep goes through rows whose invoice is known.
SweepingBooked == \A n \in sweep.todo \cup sweep.mailed : rows[n].ext # NoId

\* What every step of every actor preserves, and the ledger rests on.
LedgerInv ==
    /\ TypeOK
    /\ RowNamesOwnInvoice
    /\ OneInvoicePerNumber
    /\ SavingOwnInvoice
    /\ SweepingBooked

\* Only an invoice whose row the office cancelled is ever withdrawn from
\* Invoice Ninja, whatever is lost between the commit and its job.
WithdrawnIsCancelled ==
    \A i \in InvoiceIds :
        Issued(i) /\ invoices[i].state \in {"archived", "cancelled"} =>
            rows[invoices[i].num].cancelled

\* Parents see a row once it is marked sent: its invoice is no longer a draft
\* in Invoice Ninja, even when the sweep died or lost an answer before.
ParentSeesIssuedOnly ==
    \A n \in Numbers : rows[n].status = "sent" =>
        rows[n].ext # NoId /\ invoices[rows[n].ext].state # "draft"

\* A record shown as synced has an invoice, or a cancellation, on every row it
\* has: one refused installment keeps the whole record failed.
SyncedSettled ==
    \A r \in Records \ FreeRecords : record[r].ext = "synced" =>
        \A s \in RowsOf(r) : rows[<<r, s>>].cancelled \/ rows[<<r, s>>].ext # NoId

\* A synced record has all the installments of its schedule.
SyncedComplete ==
    \A r \in Records \ FreeRecords : record[r].ext = "synced" => RowsOf(r) = Installments

\* A pending record hides the push action, so a job must be there to end it.
PendingHasJob ==
    \A r \in Records : record[r].ext = "pending" =>
        \E j \in Jobs : jobs[j].pc # "free" /\ Rec(j) = r

-----------------------------------------------------------------------------
(* Action properties *)

\* A stored invoice id is never replaced or cleared, by no retry and by no
\* second job working from an older read of the row.
BookedForever ==
    [][\A n \in Numbers : rows[n].ext # NoId => rows'[n].ext = rows[n].ext]_vars

\* The installments a job may still write to, as far as it has read its rows.
Ahead(j) ==
    CASE jobs[j].pc = "create" -> Installments
      [] jobs[j].pc = "push" -> jobs[j].todo
      [] jobs[j].pc = "save" -> jobs[j].todo \cup {jobs[j].at}
      [] OTHER -> {}

InPush == {n \in Numbers : \E j \in Jobs : Rec(j) = n[1] /\ n[2] \in Ahead(j)}

InSweep == sweep.todo \cup sweep.mailed

Settled(n) == rows[n].cancelled \/ rows[n].ext # NoId

\* A row that has its invoice, or that the office cancelled, is over for every
\* push that has not read it by then: redelivered or not, none takes it up,
\* gives it an invoice or marks it failed, and no later sweep takes up a
\* cancelled one. What a push or sweep already holds, it may still write.
SettledLeftAlone ==
    [][\A n \in Numbers :
         /\ Settled(n) /\ n \notin InPush =>
              /\ n \notin InPush'
              /\ rows'[n].ext = rows[n].ext
              /\ rows'[n].status # rows[n].status => rows'[n].status = "sent" /\ n \in InSweep
         /\ rows[n].cancelled /\ n \notin InSweep => n \notin InSweep']_vars

\* A job on its way to write the status of r; a queued one does while r is
\* confirmed.
ServesRecord(j, r) ==
    /\ jobs[j].pc # "free" /\ Rec(j) = r
    /\ jobs[j].pc = "queued" => record[r].status = "confirmed"

Served(r) == record[r].ext = "pending" => \E j \in Jobs : ServesRecord(j, r)

\* A pending record is left without a job to end it by nothing but a stale
\* change form, a worker that dies, or a job whose rows another one inserts.
PendingLeftOnlyBy ==
    [][\A r \in Records : Served(r) /\ ~Served(r)' =>
         \/ SaveForm(r)
         \/ \E j \in Jobs : Rec(j) = r /\ (Die(j) \/ CreateRowCollides(j))]_vars

-----------------------------------------------------------------------------
(* Liveness *)

\* The cluster takes every record out of the lane that offers no retry.
PendingSettles ==
    \A r \in Records : record[r].ext = "pending" ~> record[r].ext # "pending"

\* Every job leaves the queue, however often Invoice Ninja fails.
JobEnds == \A j \in Jobs : jobs[j].pc # "free" ~> jobs[j].pc = "free"

-----------------------------------------------------------------------------
(* The push implements the ledger *)

IssuedFor(n) ==
    IF Taken(n) THEN CHOOSE i \in InvoiceIds : Issued(i) /\ invoices[i].num = n ELSE NoId

Ledger == INSTANCE InvoiceLedger WITH
    issued <- [n \in Numbers |-> IssuedFor(n)],
    booked <- [n \in Numbers |-> rows[n].ext]

\* Whatever the workers, the sweep and the office do, each installment's ledger
\* only moves from nothing to issued to booked.
ImplementsLedger == Ledger!Spec
=============================================================================

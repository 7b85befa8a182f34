------------------------- MODULE InvoicePush_proofs -------------------------
(***************************************************************************)
(* What holds of the push for every number of records, installments, jobs   *)
(* and attempts. LedgerInv is the inductive invariant of the ids: a step is *)
(* classified once, in StepKinds, as leaving the ledger alone, issuing one  *)
(* invoice, or storing the id a worker holds, and every theorem about ids   *)
(* is read off those cases. SendingInv is that of the invoices' states.     *)
(***************************************************************************)
EXTENDS InvoicePush, TLAPS

USE NoIdAssumption, InstallmentsAssumption, AttemptsAssumption,
    SwitchesAssumption, SubsetsAssumption

-----------------------------------------------------------------------------
(* Values the actions build *)

LEMMA JobAtType ==
    ASSUME NEW r \in Records, NEW pc \in {"free", "queued"}, NEW n \in 0 .. (MaxAttempts - 1)
    PROVE  JobAt(r, pc, n) \in Job /\ JobAt(r, pc, n).pc = pc
BY DEF JobAt, Job, Pc, Installments

LEMMA FreeJobType == \A r \in Records : FreeJob(r) \in Job /\ FreeJob(r).pc = "free"
BY JobAtType DEF FreeJob

LEMMA RaisedType ==
    ASSUME TypeOK, NEW j \in Jobs
    PROVE  Raised(j) \in Job /\ Raised(j).pc \in {"free", "queued"}
<1>1. jobs[j].attempts \in 0 .. (MaxAttempts - 1) /\ Rec(j) \in Records
  BY DEF TypeOK, Job, Rec
<1>2. CASE jobs[j].attempts + 1 < MaxAttempts
  <2>1. jobs[j].attempts + 1 \in 0 .. (MaxAttempts - 1)
    BY <1>1, <1>2
  <2> QED BY <1>1, <1>2, <2>1, JobAtType DEF Raised, Redeliver
<1>3. CASE ~(jobs[j].attempts + 1 < MaxAttempts)
  BY <1>1, <1>3, FreeJobType DEF Raised, Finish
<1> QED BY <1>2, <1>3

\* What the actions write into a job and into a row.
LEMMA JobEdits ==
    \A b \in Job :
        /\ \A pc \in Pc : [b EXCEPT !.pc = pc] \in Job
        /\ \A at \in 1 .. (NumInstallments + 1) : [b EXCEPT !.at = at] \in Job
        /\ \A pc \in Pc, at \in 1 .. (NumInstallments + 1) :
             [b EXCEPT !.pc = pc, !.at = at] \in Job
        /\ \A pc \in Pc, todo \in SUBSET Installments :
             [b EXCEPT !.pc = pc, !.todo = todo] \in Job
        /\ \A pc \in Pc : [b EXCEPT !.pc = pc, !.got = NoId] \in Job
        /\ \A pc \in Pc, todo \in SUBSET Installments, at \in 1 .. (NumInstallments + 1) :
             [b EXCEPT !.pc = pc, !.todo = todo, !.at = at] \in Job
        /\ \A todo \in SUBSET Installments : [b EXCEPT !.failed = TRUE, !.todo = todo] \in Job
        /\ \A pc \in Pc, at \in 1 .. (NumInstallments + 1),
              got \in InvoiceIds, todo \in SUBSET Installments :
             [b EXCEPT !.pc = pc, !.at = at, !.got = got, !.todo = todo] \in Job
<1> TAKE b \in Job
<1> QED BY DEF Job

LEMMA RowEdits ==
    \A b \in InvoiceRow :
        /\ [b EXCEPT !.exists = TRUE] \in InvoiceRow
        /\ [b EXCEPT !.status = "failed"] \in InvoiceRow
        /\ [b EXCEPT !.status = "sent"] \in InvoiceRow
        /\ \A paid \in BOOLEAN : [b EXCEPT !.paid = paid] \in InvoiceRow
        /\ \A ext \in InvoiceIds : [b EXCEPT !.ext = ext, !.status = "created"] \in InvoiceRow
        /\ \A c \in {"none", "pending", "done", "failed"} :
             /\ [b EXCEPT !.cancellation = c] \in InvoiceRow
             /\ [b EXCEPT !.cancelled = TRUE, !.cancellation = c] \in InvoiceRow
BY DEF InvoiceRow

LEMMA PcNames == {"free", "queued", "loaded", "ensure", "rows", "create", "push", "save"} \subseteq Pc
BY DEF Pc

LEMMA InitType == Init => TypeOK
<1> SUFFICES ASSUME Init PROVE TypeOK
  OBVIOUS
<1>1. record \in [Records -> RecordRow]
  BY DEF Init, RecordRow
<1>2. rows \in [Numbers -> InvoiceRow]
  BY DEF Init, NoRow, InvoiceRow
<1>3. invoices \in [InvoiceIds -> Invoice \cup {Absent}]
  BY DEF Init
<1>4. jobs \in [Jobs -> Job]
  BY FreeJobType DEF Init
<1>5. sweep \in Sweep /\ leave \in [Records -> Leave] /\ form \in [Records -> RecordRow \cup {Absent}]
  BY DEF Init, Sweep, Leave
<1> QED BY <1>1, <1>2, <1>3, <1>4, <1>5 DEF TypeOK, Init

-----------------------------------------------------------------------------
(* Each step keeps the types *)

LEMMA StaffType ==
    ASSUME LedgerInv, NEW r \in Records,
           Confirm(r) \/ OpenForm(r) \/ SaveForm(r) \/ \E j \in Jobs : Enqueue(r, j)
    PROVE  TypeOK'
<1> USE DEF TypeOK, LedgerInv
<1>1. CASE Confirm(r)
  BY <1>1 DEF Confirm, RecordRow
<1>2. CASE OpenForm(r)
  BY <1>2 DEF OpenForm
<1>3. CASE SaveForm(r)
  <2>1. form[r] \in RecordRow
    BY <1>3 DEF SaveForm
  <2>2. record' \in [Records -> RecordRow]
    BY <1>3, <2>1 DEF SaveForm, RecordRow
  <2>3. form' \in [Records -> RecordRow \cup {Absent}]
    BY <1>3 DEF SaveForm
  <2> QED BY <1>3, <2>2, <2>3 DEF SaveForm
<1>4. ASSUME NEW j \in Jobs, Enqueue(r, j) PROVE TypeOK'
  <2>1. record' \in [Records -> RecordRow]
    BY <1>4 DEF Enqueue, RecordRow
  <2>2. JobAt(r, "queued", 0) \in Job
    BY JobAtType
  <2>3. jobs' \in [Jobs -> Job]
    BY <1>4, <2>2 DEF Enqueue
  <2> QED BY <1>4, <2>1, <2>3 DEF Enqueue
<1> QED BY <1>1, <1>2, <1>3, <1>4

LEMMA PrepareType ==
    ASSUME LedgerInv, NEW j \in Jobs,
           \/ Load(j) \/ MarkSynced(j) \/ MarkPending(j)
           \/ EnsureSucceeds(j) \/ EnsureFails(j) \/ ReadRows(j)
    PROVE  TypeOK'
<1> USE DEF TypeOK, LedgerInv
<1>1. Rec(j) \in Records /\ Finish(j) \in Job /\ Raised(j) \in Job
  BY FreeJobType, RaisedType DEF Finish, Rec, Job
<1>2. CASE Load(j)
  BY <1>1, <1>2 DEF Load, Job, Pc
<1>3. CASE MarkSynced(j)
  BY <1>1, <1>3 DEF MarkSynced, RecordRow
<1>4. CASE MarkPending(j)
  <2>1. record' \in [Records -> RecordRow]
    BY <1>1, <1>4 DEF MarkPending, RecordRow
  <2>2. jobs' \in [Jobs -> Job]
    BY <1>4 DEF MarkPending, Job, Pc
  <2> QED BY <1>4, <2>1, <2>2 DEF MarkPending
<1>5. CASE EnsureSucceeds(j)
  BY <1>5 DEF EnsureSucceeds, Job, Pc
<1>6. CASE EnsureFails(j)
  BY <1>1, <1>6 DEF EnsureFails, RecordRow
<1>7. CASE ReadRows(j)
  <2>1. Unpushed(Rec(j)) \subseteq Installments /\ 1 \in 1 .. (NumInstallments + 1)
    BY DEF Unpushed, RowsOf
  <2>2. /\ [jobs[j] EXCEPT !.pc = "push", !.todo = Unpushed(Rec(j))] \in Job
        /\ [jobs[j] EXCEPT !.pc = "create", !.at = 1] \in Job
    BY <2>1, JobEdits, PcNames
  <2> QED BY <1>7, <2>2 DEF ReadRows
<1> QED BY <1>2, <1>3, <1>4, <1>5, <1>6, <1>7

LEMMA RowsType ==
    ASSUME LedgerInv, NEW j \in Jobs,
           \/ CreateRow(j) \/ CreateRowCollides(j) \/ RowsCreated(j)
           \/ SaveRow(j) \/ RollUp(j) \/ Die(j)
    PROVE  TypeOK'
<1> USE DEF TypeOK, LedgerInv
<1>1. Rec(j) \in Records /\ Finish(j) \in Job /\ Raised(j) \in Job
  BY FreeJobType, RaisedType DEF Finish, Rec, Job
<1>2. CASE CreateRow(j)
  <2>1. Cur(j) \in Numbers
    BY <1>1, <1>2 DEF CreateRow, Cur, Numbers, Rec
  <2>2. rows' \in [Numbers -> InvoiceRow]
    BY <1>2, <2>1, RowEdits DEF CreateRow
  <2>3. jobs[j].at + 1 \in 1 .. (NumInstallments + 1)
    BY <1>2 DEF CreateRow, Installments
  <2>4. jobs' \in [Jobs -> Job]
    BY <1>2, <2>3, JobEdits DEF CreateRow
  <2> QED BY <1>2, <2>2, <2>4 DEF CreateRow
<1>3. CASE CreateRowCollides(j)
  BY <1>1, <1>3 DEF CreateRowCollides
<1>4. CASE RowsCreated(j)
  <2>0. 1 \in 1 .. (NumInstallments + 1)
    OBVIOUS
  <2>1. [jobs[j] EXCEPT !.pc = "push", !.todo = Installments, !.at = 1] \in Job
    BY <2>0, JobEdits, PcNames
  <2>2. jobs' \in [Jobs -> Job]
    BY <1>4, <2>1 DEF RowsCreated
  <2> QED BY <1>4, <2>2 DEF RowsCreated
<1>5. CASE SaveRow(j)
  <2>1. Cur(j) \in Numbers /\ jobs[j].got \in InvoiceIds
    BY <1>1, <1>5 DEF SaveRow, Cur, Numbers, Rec, SavingOwnInvoice, HoldsOwnInvoice
  <2>2. rows' \in [Numbers -> InvoiceRow]
    BY <1>5, <2>1, RowEdits DEF SaveRow
  <2>3. [jobs[j] EXCEPT !.pc = "push", !.got = NoId] \in Job
    BY JobEdits, PcNames
  <2>4. jobs' \in [Jobs -> Job]
    BY <1>5, <2>3 DEF SaveRow
  <2> QED BY <1>5, <2>2, <2>4 DEF SaveRow
<1>6. CASE RollUp(j)
  BY <1>1, <1>6 DEF RollUp, RecordRow
<1>7. CASE Die(j)
  <2>1. Redeliver(j, jobs[j].attempts) \in Job
    BY <1>1, JobAtType DEF Redeliver, Job
  <2> QED BY <1>1, <1>7, <2>1 DEF Die
<1> QED BY <1>2, <1>3, <1>4, <1>5, <1>6, <1>7

LEMMA IssueType ==
    ASSUME LedgerInv, NEW n \in Numbers, NEW i \in InvoiceIds, IssueInvoice(n, i)
    PROVE  invoices' \in [InvoiceIds -> Invoice \cup {Absent}]
BY DEF LedgerInv, TypeOK, IssueInvoice, Invoice

LEMMA PushType ==
    ASSUME LedgerInv, NEW j \in Jobs, NEW s \in Installments,
           CreateInvoice(j, s) \/ RecoverInvoice(j, s) \/ RefuseInvoice(j, s) \/ LoseAnswer(j, s)
    PROVE  TypeOK'
<1> USE DEF TypeOK, LedgerInv
<1>1. Rec(j) \in Records /\ <<Rec(j), s>> \in Numbers /\ Raised(j) \in Job
  BY RaisedType DEF Rec, Job, Numbers
<1>8. s \in 1 .. (NumInstallments + 1) /\ jobs[j].todo \ {s} \in SUBSET Installments
  BY DEF Installments, Job
<1>2. ASSUME NEW i \in InvoiceIds, Got(j, s, i) PROVE jobs' \in [Jobs -> Job]
  <2>1. [jobs[j] EXCEPT !.pc = "save", !.at = s, !.got = i, !.todo = jobs[j].todo \ {s}] \in Job
    BY <1>8, JobEdits, PcNames
  <2> QED BY <1>2, <2>1 DEF Got
<1>3. CASE CreateInvoice(j, s)
  <2>1. PICK i \in InvoiceIds : IssueInvoice(<<Rec(j), s>>, i) /\ Got(j, s, i)
    BY <1>3 DEF CreateInvoice
  <2> QED BY <1>1, <1>2, <1>3, <2>1, IssueType DEF CreateInvoice
<1>4. CASE RecoverInvoice(j, s)
  BY <1>2, <1>4 DEF RecoverInvoice, ActiveFor
<1>5. ASSUME rows' = [rows EXCEPT ![<<Rec(j), s>>].status = "failed"]
      PROVE  rows' \in [Numbers -> InvoiceRow]
  <2>1. [rows[<<Rec(j), s>>] EXCEPT !.status = "failed"] \in InvoiceRow
    BY <1>1, RowEdits
  <2> QED BY <1>1, <1>5, <2>1
<1>6. CASE RefuseInvoice(j, s)
  <2>1. jobs' \in [Jobs -> Job]
    BY <1>8, <1>6, JobEdits DEF RefuseInvoice
  <2> QED BY <1>5, <1>6, <2>1 DEF RefuseInvoice
<1>7. CASE LoseAnswer(j, s)
  <2>1. invoices' \in [InvoiceIds -> Invoice \cup {Absent}]
    BY <1>1, <1>7, IssueType DEF LoseAnswer
  <2>2. record' \in [Records -> RecordRow]
    BY <1>1, <1>7 DEF LoseAnswer, RecordRow
  <2>3. jobs' \in [Jobs -> Job]
    BY <1>1, <1>7 DEF LoseAnswer
  <2> QED BY <1>5, <1>7, <2>1, <2>2, <2>3 DEF LoseAnswer
<1> QED BY <1>3, <1>4, <1>6, <1>7

\* An id on a row is that of an invoice, so looking it up finds one.
LEMMA BookedIsIssued ==
    ASSUME LedgerInv, NEW n \in Numbers, rows[n].ext # NoId
    PROVE  rows[n].ext \in InvoiceIds /\ invoices[rows[n].ext] \in Invoice
BY DEF LedgerInv, TypeOK, RowNamesOwnInvoice, Issued, InvoiceRow

LEMMA InvoiceEdits ==
    \A b \in Invoice :
        /\ \A state \in {"draft", "sent", "archived", "cancelled"} :
             [b EXCEPT !.state = state] \in Invoice
        /\ [b EXCEPT !.paid = TRUE] \in Invoice
        /\ b.paid \in BOOLEAN
        /\ b # Absent
<1> TAKE b \in Invoice
<1>1. b.state # "absent" /\ Absent.state = "absent"
  BY DEF Invoice, Absent
<1>2. [b EXCEPT !.paid = TRUE] \in Invoice /\ b.paid \in BOOLEAN
  BY DEF Invoice
<1>3. \A state \in {"draft", "sent", "archived", "cancelled"} : [b EXCEPT !.state = state] \in Invoice
  BY DEF Invoice
<1> QED BY <1>1, <1>2, <1>3

LEMMA MailedType ==
    ASSUME LedgerInv, NEW n \in sweep.todo
    PROVE  Mailed(n) \in [InvoiceIds -> Invoice \cup {Absent}]
<1>1. n \in Numbers /\ rows[n].ext # NoId
  BY DEF LedgerInv, TypeOK, Sweep, SweepingBooked
<1>2. rows[n].ext \in InvoiceIds /\ invoices[rows[n].ext] \in Invoice
  BY <1>1, BookedIsIssued
<1>3. /\ [invoices[rows[n].ext] EXCEPT !.state = IF @ = "draft" THEN "sent" ELSE @] \in Invoice
  BY <1>2 DEF Invoice
<1> QED BY <1>2, <1>3 DEF Mailed, LedgerInv, TypeOK

LEMMA SweepType ==
    ASSUME LedgerInv, SweepStep \/ SweepDies
    PROVE  TypeOK'
<1> USE DEF TypeOK, LedgerInv
<1>1. CASE StartSweep
  BY <1>1 DEF StartSweep, Sweep
<1>2. CASE EndSweep
  BY <1>2 DEF EndSweep, Sweep
<1>3. CASE SweepDies
  BY <1>3 DEF SweepDies, Sweep
<1>4. ASSUME NEW n \in Numbers, EmailInvoice(n) PROVE TypeOK'
  <2>1. invoices' \in [InvoiceIds -> Invoice \cup {Absent}]
    BY <1>4, MailedType DEF EmailInvoice
  <2>2. sweep' \in Sweep
    BY <1>4 DEF EmailInvoice, Sweep
  <2> QED BY <1>4, <2>1, <2>2 DEF EmailInvoice
<1>5. ASSUME NEW n \in Numbers, EmailFails(n) PROVE TypeOK'
  <2>1. invoices' \in [InvoiceIds -> Invoice \cup {Absent}]
    BY <1>5, MailedType DEF EmailFails
  <2>2. sweep' \in Sweep
    BY <1>5 DEF EmailFails, Sweep
  <2> QED BY <1>5, <2>1, <2>2 DEF EmailFails
<1>6. ASSUME NEW n \in Numbers, SaveSent(n) PROVE TypeOK'
  <2>1. [rows[n] EXCEPT !.status = "sent"] \in InvoiceRow
    BY RowEdits
  <2>2. sweep' \in Sweep
    BY <1>6 DEF SaveSent, Sweep
  <2> QED BY <1>6, <2>1, <2>2 DEF SaveSent
<1> QED BY <1>1, <1>2, <1>3, <1>4, <1>5, <1>6 DEF SweepStep

LEMMA PaymentType ==
    ASSUME LedgerInv,
           (\E i \in InvoiceIds : Pay(i)) \/ (\E n \in Numbers : SyncPayment(n))
    PROVE  TypeOK'
<1> USE DEF TypeOK, LedgerInv
<1>1. ASSUME NEW i \in InvoiceIds, Pay(i) PROVE TypeOK'
  <2>1. [invoices[i] EXCEPT !.paid = TRUE] \in Invoice
    BY <1>1, InvoiceEdits DEF Pay, Issued
  <2> QED BY <1>1, <2>1 DEF Pay
<1>2. ASSUME NEW n \in Numbers, SyncPayment(n) PROVE TypeOK'
  <2>1. invoices[rows[n].ext].paid \in BOOLEAN
    BY <1>2, BookedIsIssued, InvoiceEdits DEF SyncPayment
  <2>2. [rows[n] EXCEPT !.paid = invoices[rows[n].ext].paid] \in InvoiceRow
    BY <2>1, RowEdits
  <2> QED BY <1>2, <2>2 DEF SyncPayment
<1> QED BY <1>1, <1>2

LEMMA LeaveType ==
    ASSUME LedgerInv,
           (\E r \in Records : SelectInvoices(r) \/ CancelSelected(r)) \/ CancelStep
    PROVE  TypeOK'
<1> USE DEF TypeOK, LedgerInv
<1>1. ASSUME NEW r \in Records, SelectInvoices(r) PROVE TypeOK'
  <2>1. PICK sel \in SUBSET RowsOf(r) :
          leave' = [leave EXCEPT ![r] =
                      [state |-> "read",
                       plan |-> {p \in sel \X Action : p[2] \in ActionFor(<<r, p[1]>>)}]]
    BY <1>1 DEF SelectInvoices
  <2>2. sel \subseteq Installments
    BY DEF RowsOf
  <2>3. [state |-> "read",
         plan |-> {p \in sel \X Action : p[2] \in ActionFor(<<r, p[1]>>)}] \in Leave
    BY <2>2 DEF Leave
  <2> QED BY <1>1, <2>1, <2>3 DEF SelectInvoices
<1>2. ASSUME NEW r \in Records, CancelSelected(r) PROVE TypeOK'
  <2>1. \A n \in Numbers : rows'[n] \in InvoiceRow
    <3> TAKE n \in Numbers
    <3>1. /\ rows[n].cancellation \in {"none", "pending", "done", "failed"}
          /\ rows[n] \in InvoiceRow
      BY DEF InvoiceRow
    <3>2. [rows[n] EXCEPT !.cancelled = TRUE,
             !.cancellation = IF Planned(r, n[2]) = {"local"} THEN @ ELSE "pending"] \in InvoiceRow
      BY <3>1 DEF InvoiceRow
    <3> QED BY <1>2, <3>1, <3>2 DEF CancelSelected
  <2>2. rows' \in [Numbers -> InvoiceRow]
    BY <1>2, <2>1 DEF CancelSelected
  <2>3. leave' \in [Records -> Leave]
    BY <1>2 DEF CancelSelected, Leave
  <2>4. cancels' \in SUBSET (Numbers \X {"archive", "cancel"})
    BY <1>2 DEF CancelSelected, ExternalJobs
  <2> QED BY <1>2, <2>2, <2>3, <2>4 DEF CancelSelected
<1>3. ASSUME NEW c \in cancels, RunCancel(c) PROVE TypeOK'
  <2>1. c[1] \in Numbers
    OBVIOUS
  <2>2. rows[c[1]].ext \in InvoiceIds /\ invoices[rows[c[1]].ext] \in Invoice
    BY <1>3, <2>1, BookedIsIssued DEF RunCancel
  <2>3. invoices' \in [InvoiceIds -> Invoice \cup {Absent}]
    BY <1>3, <2>2, InvoiceEdits DEF RunCancel
  <2>4. [rows[c[1]] EXCEPT !.cancellation = "done"] \in InvoiceRow
    BY <2>1, RowEdits
  <2> QED BY <1>3, <2>1, <2>3, <2>4 DEF RunCancel
<1>4. ASSUME NEW c \in cancels, CancelFails(c) PROVE TypeOK'
  <2>1. c[1] \in Numbers
    OBVIOUS
  <2>2. [rows[c[1]] EXCEPT !.cancellation = "failed"] \in InvoiceRow
    BY <2>1, RowEdits
  <2> QED BY <1>4, <2>1, <2>2 DEF CancelFails
<1> QED BY <1>1, <1>2, <1>3, <1>4 DEF CancelStep

-----------------------------------------------------------------------------
(* What a step may do to the ledger: nothing, issue one invoice, or store the *)
(* id a worker holds.                                                        *)

SameIds == \A n \in Numbers : rows'[n].ext = rows[n].ext

SameLedger ==
    /\ \A i \in InvoiceIds : Issued(i)' = Issued(i)
    /\ \A i \in InvoiceIds : Issued(i) => invoices'[i].num = invoices[i].num
    /\ SameIds

Issuing(n, i) == IssueInvoice(n, i) /\ SameIds

LEMMA StaffKind ==
    ASSUME LedgerInv, NEW r \in Records,
           \/ Confirm(r) \/ OpenForm(r) \/ SaveForm(r) \/ \E j \in Jobs : Enqueue(r, j)
           \/ SelectInvoices(r)
    PROVE  SameLedger
BY DEF SameLedger, SameIds, Issued, Confirm, OpenForm, SaveForm, Enqueue, SelectInvoices

LEMMA PrepareKind ==
    ASSUME LedgerInv, NEW j \in Jobs,
           \/ Load(j) \/ MarkSynced(j) \/ MarkPending(j)
           \/ EnsureSucceeds(j) \/ EnsureFails(j) \/ ReadRows(j)
           \/ CreateRowCollides(j) \/ RowsCreated(j) \/ RollUp(j) \/ Die(j)
    PROVE  SameLedger
BY DEF SameLedger, SameIds, Issued, Load, MarkSynced, MarkPending, EnsureSucceeds,
       EnsureFails, ReadRows, CreateRowCollides, RowsCreated, RollUp, Die

LEMMA PushKind ==
    ASSUME LedgerInv, NEW j \in Jobs, NEW s \in Installments,
           \/ CreateRow(j) \/ CreateInvoice(j, s) \/ RecoverInvoice(j, s)
           \/ RefuseInvoice(j, s) \/ LoseAnswer(j, s)
    PROVE  SameLedger \/ \E i \in InvoiceIds : Issuing(<<Rec(j), s>>, i)
<1> USE DEF LedgerInv, TypeOK
<1>1. \A n \in Numbers : rows[n] \in InvoiceRow
  OBVIOUS
<1>2. CASE CreateRow(j)
  BY <1>1, <1>2 DEF CreateRow, SameLedger, SameIds, Issued, InvoiceRow
<1>3. CASE CreateInvoice(j, s)
  BY <1>3 DEF CreateInvoice, Issuing, SameIds
<1>4. CASE RecoverInvoice(j, s)
  BY <1>4 DEF RecoverInvoice, SameLedger, SameIds, Issued
<1>5. CASE RefuseInvoice(j, s)
  BY <1>1, <1>5 DEF RefuseInvoice, SameLedger, SameIds, Issued, InvoiceRow
<1>6. CASE LoseAnswer(j, s)
  <2>1. SameIds
    BY <1>1, <1>6 DEF LoseAnswer, SameIds, InvoiceRow
  <2> QED BY <1>6, <2>1 DEF LoseAnswer, Issuing, SameLedger, Issued
<1> QED BY <1>2, <1>3, <1>4, <1>5, <1>6

\* Moving an invoice to another state keeps its number and its existence.
LEMMA StateChange ==
    ASSUME LedgerInv, NEW i \in InvoiceIds, invoices[i] \in Invoice,
           NEW state \in {"draft", "sent", "archived", "cancelled"}, SameIds,
           invoices' = [invoices EXCEPT ![i].state = state]
    PROVE  SameLedger
<1>1. invoices[i] # Absent /\ [invoices[i] EXCEPT !.state = state] # Absent
  BY InvoiceEdits
<1>2. [invoices[i] EXCEPT !.state = state].num = invoices[i].num
  BY DEF Invoice
<1> QED BY <1>1, <1>2 DEF SameLedger, Issued, LedgerInv, TypeOK

LEMMA MailedKind ==
    ASSUME LedgerInv, NEW n \in sweep.todo, SameIds, invoices' = Mailed(n)
    PROVE  SameLedger
<1>1. n \in Numbers /\ rows[n].ext # NoId
  BY DEF LedgerInv, TypeOK, Sweep, SweepingBooked
<1>2. rows[n].ext \in InvoiceIds /\ invoices[rows[n].ext] \in Invoice
  BY <1>1, BookedIsIssued
<1> DEFINE state == IF invoices[rows[n].ext].state = "draft" THEN "sent" ELSE invoices[rows[n].ext].state
<1>3. state \in {"draft", "sent", "archived", "cancelled"}
  BY <1>2 DEF Invoice
<1>4. invoices' = [invoices EXCEPT ![rows[n].ext].state = state]
  BY DEF Mailed
<1> QED BY <1>2, <1>3, <1>4, StateChange

LEMMA SweepKind ==
    ASSUME LedgerInv, SweepStep \/ SweepDies
    PROVE  SameLedger
<1> USE DEF LedgerInv, TypeOK
<1>1. CASE StartSweep \/ EndSweep \/ SweepDies
  BY <1>1 DEF StartSweep, EndSweep, SweepDies, SameLedger, SameIds, Issued
<1>2. ASSUME NEW n \in Numbers, EmailInvoice(n) PROVE SameLedger
  BY <1>2, MailedKind DEF EmailInvoice, SameIds
<1>3. ASSUME NEW n \in Numbers, EmailFails(n) PROVE SameLedger
  <2>1. CASE invoices' = invoices
    BY <1>3, <2>1 DEF EmailFails, SameLedger, SameIds, Issued
  <2>2. CASE invoices' = Mailed(n)
    BY <1>3, <2>2, MailedKind DEF EmailFails, SameIds
  <2> QED BY <1>3, <2>1, <2>2 DEF EmailFails
<1>4. ASSUME NEW n \in Numbers, SaveSent(n) PROVE SameLedger
  BY <1>4 DEF SaveSent, SameLedger, SameIds, Issued, InvoiceRow
<1> QED BY <1>1, <1>2, <1>3, <1>4 DEF SweepStep

LEMMA PaymentKind ==
    ASSUME LedgerInv,
           (\E i \in InvoiceIds : Pay(i)) \/ (\E n \in Numbers : SyncPayment(n))
    PROVE  SameLedger
<1> USE DEF LedgerInv, TypeOK
<1>1. ASSUME NEW i \in InvoiceIds, Pay(i) PROVE SameLedger
  <2>1. invoices[i] \in Invoice
    BY <1>1 DEF Pay, Issued
  <2>2. [invoices[i] EXCEPT !.paid = TRUE] # Absent
    BY <2>1, InvoiceEdits
  <2>3. [invoices[i] EXCEPT !.paid = TRUE].num = invoices[i].num
    BY <2>1 DEF Invoice
  <2> QED BY <1>1, <2>1, <2>2, <2>3, InvoiceEdits DEF Pay, SameLedger, SameIds, Issued
<1>2. ASSUME NEW n \in Numbers, SyncPayment(n) PROVE SameLedger
  BY <1>2 DEF SyncPayment, SameLedger, SameIds, Issued, InvoiceRow
<1> QED BY <1>1, <1>2

LEMMA CancelKind ==
    ASSUME LedgerInv, (\E r \in Records : CancelSelected(r)) \/ CancelStep
    PROVE  SameLedger
<1> USE DEF LedgerInv, TypeOK
<1>1. ASSUME NEW r \in Records, CancelSelected(r) PROVE SameLedger
  <2>1. \A n \in Numbers : rows'[n].ext = rows[n].ext
    <3> TAKE n \in Numbers
    <3>1. [rows[n] EXCEPT !.cancelled = TRUE,
             !.cancellation = IF Planned(r, n[2]) = {"local"} THEN @ ELSE "pending"].ext = rows[n].ext
      BY DEF InvoiceRow
    <3> QED BY <1>1, <3>1 DEF CancelSelected
  <2> QED BY <1>1, <2>1 DEF SameIds, CancelSelected, SameLedger, Issued
<1>2. ASSUME NEW c \in cancels, RunCancel(c) PROVE SameLedger
  <2>1. c[1] \in Numbers
    OBVIOUS
  <2>2. rows[c[1]].ext \in InvoiceIds /\ invoices[rows[c[1]].ext] \in Invoice
    BY <1>2, <2>1, BookedIsIssued DEF RunCancel
  <2>3. SameIds
    BY <1>2 DEF RunCancel, SameIds, InvoiceRow
  <2> QED BY <1>2, <2>2, <2>3, StateChange DEF RunCancel
<1>3. ASSUME NEW c \in cancels, CancelFails(c) PROVE SameLedger
  BY <1>3 DEF CancelFails, SameLedger, SameIds, Issued, InvoiceRow
<1> QED BY <1>1, <1>2, <1>3 DEF CancelStep

LEMMA StepKinds ==
    ASSUME LedgerInv, Next
    PROVE  /\ TypeOK'
           /\ \/ SameLedger
              \/ \E n \in Numbers, i \in InvoiceIds : Issuing(n, i)
              \/ \E j \in Jobs : SaveRow(j)
<1> DEFINE Kinds == \/ SameLedger
                    \/ \E n \in Numbers, i \in InvoiceIds : Issuing(n, i)
                    \/ \E j \in Jobs : SaveRow(j)
<1>1. ASSUME NEW r \in Records,
             Confirm(r) \/ OpenForm(r) \/ SaveForm(r) \/ \E j \in Jobs : Enqueue(r, j)
      PROVE  TypeOK' /\ Kinds
  BY <1>1, StaffType, StaffKind
<1>2. ASSUME NEW r \in Records, SelectInvoices(r) \/ CancelSelected(r)
      PROVE  TypeOK' /\ Kinds
  BY <1>2, LeaveType, StaffKind, CancelKind
<1>3. ASSUME NEW j \in Jobs, PushStep(j) \/ Die(j)
      PROVE  TypeOK' /\ Kinds
  <2>1. CASE \/ Load(j) \/ MarkSynced(j) \/ MarkPending(j)
             \/ EnsureSucceeds(j) \/ EnsureFails(j) \/ ReadRows(j)
    BY <2>1, PrepareType, PrepareKind
  <2>2. CASE CreateRowCollides(j) \/ RowsCreated(j) \/ RollUp(j) \/ Die(j)
    BY <2>2, RowsType, PrepareKind
  <2>3. Rec(j) \in Records
    BY DEF LedgerInv, TypeOK, Job, Rec
  <2>4. CASE CreateRow(j)
    <3>1. 1 \in Installments
      BY DEF Installments
    <3> QED BY <2>3, <2>4, <3>1, RowsType, PushKind DEF Numbers
  <2>5. CASE \E s \in Installments :
               \/ CreateInvoice(j, s) \/ RecoverInvoice(j, s)
               \/ RefuseInvoice(j, s) \/ LoseAnswer(j, s)
    BY <2>3, <2>5, PushType, PushKind DEF Numbers
  <2>6. CASE SaveRow(j)
    BY <2>6, RowsType
  <2> QED BY <1>3, <2>1, <2>2, <2>4, <2>5, <2>6 DEF PushStep
<1>4. CASE SweepStep \/ SweepDies
  BY <1>4, SweepType, SweepKind
<1>5. CASE CancelStep
  BY <1>5, LeaveType, CancelKind
<1>6. CASE (\E i \in InvoiceIds : Pay(i)) \/ (\E n \in Numbers : SyncPayment(n))
  BY <1>6, PaymentType, PaymentKind
<1> QED BY <1>1, <1>2, <1>3, <1>4, <1>5, <1>6 DEF Next

-----------------------------------------------------------------------------
(* Which jobs can be about to save after a step *)

NoNewSaver == \A k \in Jobs : jobs'[k].pc = "save" => jobs'[k] = jobs[k]

LEMMA QuietSavers ==
    ASSUME LedgerInv, NEW j \in Jobs,
           \/ Load(j) \/ MarkSynced(j) \/ MarkPending(j)
           \/ EnsureSucceeds(j) \/ EnsureFails(j) \/ ReadRows(j)
           \/ CreateRow(j) \/ CreateRowCollides(j) \/ RowsCreated(j)
           \/ SaveRow(j) \/ RollUp(j) \/ Die(j)
    PROVE  NoNewSaver
<1> USE DEF NoNewSaver, LedgerInv, TypeOK
<1>1. /\ Finish(j).pc = "free" /\ Raised(j).pc \in {"free", "queued"}
      /\ Redeliver(j, jobs[j].attempts).pc = "queued"
  BY FreeJobType, RaisedType DEF Finish, Redeliver, JobAt, Rec, Job
<1>2. CASE Load(j) \/ MarkPending(j) \/ EnsureSucceeds(j)
  BY <1>1, <1>2 DEF Load, MarkPending, EnsureSucceeds, Job
<1>3. CASE MarkSynced(j) \/ RollUp(j) \/ CreateRowCollides(j) \/ EnsureFails(j) \/ Die(j)
  BY <1>1, <1>3 DEF MarkSynced, RollUp, CreateRowCollides, EnsureFails, Die
<1>4. CASE ReadRows(j)
  BY <1>4 DEF ReadRows, Job
<1>5. CASE CreateRow(j) \/ RowsCreated(j)
  BY <1>5 DEF CreateRow, RowsCreated, Job
<1>6. CASE SaveRow(j)
  BY <1>6 DEF SaveRow, Job
<1> QED BY <1>2, <1>3, <1>4, <1>5, <1>6

LEMMA PushSavers ==
    ASSUME LedgerInv, TypeOK', NEW j \in Jobs, NEW s \in Installments,
           CreateInvoice(j, s) \/ RecoverInvoice(j, s) \/ RefuseInvoice(j, s) \/ LoseAnswer(j, s)
    PROVE  \A k \in Jobs : jobs'[k].pc = "save" => jobs'[k] = jobs[k] \/ HoldsOwnInvoice(k)'
<1> USE DEF LedgerInv, TypeOK
<1>1. <<Rec(j), s>> \in Numbers
  BY DEF Rec, Job, Numbers
<1>2. ASSUME NEW i \in InvoiceIds, Got(j, s, i)
      PROVE  /\ jobs'[j].got = i /\ jobs'[j].at = s /\ jobs'[j].rec = Rec(j)
             /\ \A k \in Jobs \ {j} : jobs'[k] = jobs[k]
  BY <1>2 DEF Got, Job, Rec
<1>3. ASSUME NEW i \in InvoiceIds, Got(j, s, i), Issued(i)', invoices'[i].num = <<Rec(j), s>>
      PROVE  \A k \in Jobs : jobs'[k].pc = "save" => jobs'[k] = jobs[k] \/ HoldsOwnInvoice(k)'
  BY <1>2, <1>3 DEF HoldsOwnInvoice, Cur
<1>4. CASE CreateInvoice(j, s)
  <2>1. PICK i \in InvoiceIds : IssueInvoice(<<Rec(j), s>>, i) /\ Got(j, s, i)
    BY <1>4 DEF CreateInvoice
  <2>2. invoices'[i] = [num |-> <<Rec(j), s>>, state |-> "draft", paid |-> FALSE]
    BY <2>1 DEF IssueInvoice
  <2>3. invoices'[i] \in Invoice
    BY <1>1, <2>2 DEF Invoice
  <2>4. Issued(i)'
    BY <2>3, InvoiceEdits DEF Issued
  <2>5. invoices'[i].num = <<Rec(j), s>>
    BY <2>2
  <2> QED BY <1>3, <2>1, <2>4, <2>5
<1>5. CASE RecoverInvoice(j, s)
  <2>1. PICK i \in ActiveFor(<<Rec(j), s>>) : Got(j, s, i)
    BY <1>5 DEF RecoverInvoice
  <2>2. i \in InvoiceIds /\ Issued(i)' /\ invoices'[i].num = <<Rec(j), s>>
    BY <1>5, <2>1 DEF RecoverInvoice, ActiveFor, Issued
  <2> QED BY <1>3, <2>1, <2>2
<1>6. CASE RefuseInvoice(j, s)
  BY <1>6 DEF RefuseInvoice, Turn, Job
<1>7. CASE LoseAnswer(j, s)
  <2>1. Raised(j).pc \in {"free", "queued"}
    BY RaisedType
  <2> QED BY <1>7, <2>1 DEF LoseAnswer
<1> QED BY <1>4, <1>5, <1>6, <1>7

LEMMA SaverKinds ==
    ASSUME LedgerInv, TypeOK', Next
    PROVE  \A k \in Jobs : jobs'[k].pc = "save" => jobs'[k] = jobs[k] \/ HoldsOwnInvoice(k)'
<1>1. ASSUME NEW r \in Records, NEW j \in Jobs, Enqueue(r, j) PROVE NoNewSaver
  <2>1. JobAt(r, "queued", 0).pc = "queued"
    BY DEF JobAt
  <2> QED BY <1>1, <2>1 DEF Enqueue, NoNewSaver, LedgerInv, TypeOK
<1>2. ASSUME NEW r \in Records,
             Confirm(r) \/ OpenForm(r) \/ SaveForm(r) \/ SelectInvoices(r) \/ CancelSelected(r)
      PROVE  NoNewSaver
  BY <1>2 DEF Confirm, OpenForm, SaveForm, SelectInvoices, CancelSelected, NoNewSaver
<1>3. CASE SweepStep \/ SweepDies
  BY <1>3 DEF SweepStep, SweepDies, StartSweep, EndSweep, EmailInvoice, EmailFails, SaveSent, NoNewSaver
<1>4. CASE CancelStep
  BY <1>4 DEF CancelStep, RunCancel, CancelFails, NoNewSaver
<1>5. CASE (\E i \in InvoiceIds : Pay(i)) \/ (\E n \in Numbers : SyncPayment(n))
  BY <1>5 DEF Pay, SyncPayment, NoNewSaver
<1>6. ASSUME NEW j \in Jobs, PushStep(j) \/ Die(j)
      PROVE  \A k \in Jobs : jobs'[k].pc = "save" => jobs'[k] = jobs[k] \/ HoldsOwnInvoice(k)'
  BY <1>6, QuietSavers, PushSavers DEF PushStep, NoNewSaver
<1> QED BY <1>1, <1>2, <1>3, <1>4, <1>5, <1>6 DEF Next, NoNewSaver

-----------------------------------------------------------------------------
(* The sweep only ever lists rows with an id *)

LEMMA SweepKeepsBooked ==
    ASSUME LedgerInv, Next, \A n \in Numbers : rows[n].ext # NoId => rows'[n].ext # NoId
    PROVE  SweepingBooked'
<1> USE DEF LedgerInv, TypeOK, SweepingBooked
<1>1. sweep.todo \cup sweep.mailed \subseteq Numbers
  BY DEF Sweep
<1>2. CASE UNCHANGED sweep
  BY <1>1, <1>2
<1>3. CASE StartSweep
  BY <1>3 DEF StartSweep, Sendable
<1>4. CASE EndSweep
  BY <1>1, <1>4 DEF EndSweep, Sweep
<1>5. CASE SweepDies
  BY <1>5 DEF SweepDies
<1>6. CASE \E n \in Numbers : EmailInvoice(n) \/ EmailFails(n) \/ SaveSent(n)
  <2>1. PICK n \in Numbers : EmailInvoice(n) \/ EmailFails(n) \/ SaveSent(n)
    BY <1>6
  <2>2. /\ sweep'.todo \subseteq sweep.todo
        /\ sweep'.mailed \subseteq sweep.todo \cup sweep.mailed
    <3>1. CASE EmailInvoice(n)
      BY <3>1 DEF EmailInvoice, Sweep
    <3>2. CASE EmailFails(n)
      BY <3>2 DEF EmailFails, Sweep
    <3>3. CASE SaveSent(n)
      BY <3>3 DEF SaveSent, Sweep
    <3> QED BY <2>1, <3>1, <3>2, <3>3
  <2> QED BY <1>1, <2>2
<1>7. UNCHANGED sweep \/ SweepStep \/ SweepDies
  BY DEF Next, Confirm, OpenForm, SaveForm, SelectInvoices, CancelSelected, Enqueue, PushStep,
         Load, MarkSynced, MarkPending, EnsureSucceeds, EnsureFails, ReadRows, CreateRow,
         CreateRowCollides, RowsCreated, CreateInvoice, RecoverInvoice, RefuseInvoice,
         LoseAnswer, SaveRow, RollUp, Die, CancelStep, RunCancel, CancelFails, Pay, SyncPayment
<1> QED BY <1>2, <1>3, <1>4, <1>5, <1>6, <1>7 DEF SweepStep

-----------------------------------------------------------------------------
(* The invariant *)

LEMMA InitLedger == Init => LedgerInv
<1> SUFFICES ASSUME Init PROVE LedgerInv
  OBVIOUS
<1>1. TypeOK
  BY InitType
<1>2. RowNamesOwnInvoice /\ OneInvoicePerNumber
  BY DEF Init, NoRow, RowNamesOwnInvoice, OneInvoicePerNumber, Issued
<1>3. SavingOwnInvoice
  BY FreeJobType DEF Init, SavingOwnInvoice
<1>4. SweepingBooked
  BY DEF Init, SweepingBooked
<1> QED BY <1>1, <1>2, <1>3, <1>4 DEF LedgerInv

\* Nothing changes for the ledger: what held of the ids still holds.
LEMMA SameLedgerKeeps ==
    ASSUME LedgerInv, Next, TypeOK', SameLedger
    PROVE  LedgerInv'
<1> USE DEF LedgerInv, TypeOK, SameLedger, SameIds
<1>1. RowNamesOwnInvoice'
  BY DEF RowNamesOwnInvoice, InvoiceRow
<1>2. OneInvoicePerNumber'
  BY DEF OneInvoicePerNumber
<1>3. SavingOwnInvoice'
  BY SaverKinds DEF SavingOwnInvoice, HoldsOwnInvoice, Cur
<1>4. SweepingBooked'
  BY SweepKeepsBooked
<1> QED BY <1>1, <1>2, <1>3, <1>4

LEMMA IssuingKeeps ==
    ASSUME LedgerInv, Next, TypeOK', NEW n \in Numbers, NEW i \in InvoiceIds, Issuing(n, i)
    PROVE  LedgerInv'
<1> USE DEF LedgerInv, TypeOK
<1>1. /\ ~Issued(i)
      /\ invoices' = [invoices EXCEPT ![i] = [num |-> n, state |-> "draft", paid |-> FALSE]]
      /\ \A k \in InvoiceIds : Issued(k) => invoices[k].num # n
      /\ \A m \in Numbers : rows'[m].ext = rows[m].ext
  BY DEF Issuing, IssueInvoice, Taken, SameIds
<1>2. \A k \in InvoiceIds : invoices'[k] = IF k = i THEN [num |-> n, state |-> "draft", paid |-> FALSE]
                                           ELSE invoices[k]
  BY <1>1
<1>3. \A k \in InvoiceIds : Issued(k) => Issued(k)' /\ invoices'[k] = invoices[k]
  BY <1>1, <1>2 DEF Issued
<1>4. \A k \in InvoiceIds : Issued(k)' /\ ~Issued(k) => k = i
  BY <1>2 DEF Issued
<1>5. RowNamesOwnInvoice'
  BY <1>1, <1>3 DEF RowNamesOwnInvoice, InvoiceRow
<1>6. OneInvoicePerNumber'
  BY <1>1, <1>2, <1>3, <1>4 DEF OneInvoicePerNumber
<1>7. SavingOwnInvoice'
  BY <1>3, SaverKinds DEF SavingOwnInvoice, HoldsOwnInvoice, Cur
<1>8. SweepingBooked'
  BY <1>1, SweepKeepsBooked
<1> QED BY <1>5, <1>6, <1>7, <1>8

\* What SaveRow stores, and that it never replaces another id.
LEMMA SaveRowWrites ==
    ASSUME LedgerInv, NEW j \in Jobs, SaveRow(j)
    PROVE  /\ Cur(j) \in Numbers /\ HoldsOwnInvoice(j) /\ jobs[j].got # NoId
           /\ rows[Cur(j)].ext \in {NoId, jobs[j].got}
           /\ \A n \in Numbers : rows'[n].ext = IF n = Cur(j) THEN jobs[j].got ELSE rows[n].ext
<1> USE DEF LedgerInv, TypeOK
<1>1. HoldsOwnInvoice(j)
  BY DEF SavingOwnInvoice, SaveRow
<1>2. Cur(j) \in Numbers /\ jobs[j].got # NoId
  BY <1>1 DEF HoldsOwnInvoice, Cur, Job, Numbers
<1>3. rows[Cur(j)].ext \in {NoId, jobs[j].got}
  BY <1>1, <1>2 DEF HoldsOwnInvoice, RowNamesOwnInvoice, OneInvoicePerNumber, InvoiceRow
<1>4. \A n \in Numbers : rows'[n].ext = IF n = Cur(j) THEN jobs[j].got ELSE rows[n].ext
  BY <1>2 DEF SaveRow, InvoiceRow
<1> QED BY <1>1, <1>2, <1>3, <1>4

LEMMA SaveRowKeeps ==
    ASSUME LedgerInv, Next, TypeOK', NEW j \in Jobs, SaveRow(j)
    PROVE  LedgerInv'
<1> USE DEF LedgerInv
<1>1. invoices' = invoices
  BY DEF SaveRow
<1>2. RowNamesOwnInvoice'
  BY <1>1, SaveRowWrites DEF RowNamesOwnInvoice, HoldsOwnInvoice, Issued
<1>3. OneInvoicePerNumber'
  BY <1>1 DEF OneInvoicePerNumber, Issued
<1>4. SavingOwnInvoice'
  BY <1>1, SaverKinds DEF SavingOwnInvoice, HoldsOwnInvoice, Cur, Issued
<1>5. SweepingBooked'
  BY SaveRowWrites, SweepKeepsBooked
<1> QED BY <1>2, <1>3, <1>4, <1>5

LEMMA StepKeepsLedger == LedgerInv /\ [Next]_vars => LedgerInv'
<1> SUFFICES ASSUME LedgerInv, [Next]_vars PROVE LedgerInv'
  OBVIOUS
<1>1. CASE Next
  BY <1>1, StepKinds, SameLedgerKeeps, IssuingKeeps, SaveRowKeeps
<1>2. CASE UNCHANGED vars
  BY <1>2 DEF vars, LedgerInv, TypeOK, RowNamesOwnInvoice, OneInvoicePerNumber, SavingOwnInvoice,
              HoldsOwnInvoice, SweepingBooked, Issued, Cur
<1> QED BY <1>1, <1>2

\* The ledger invariant holds of any number of records, installments, workers
\* and redeliveries, with or without crashes and stale change forms.
THEOREM LedgerSafe == Spec => []LedgerInv
<1>1. LedgerInv /\ [Next]_vars => LedgerInv'
  BY StepKeepsLedger
<1> QED BY <1>1, InitLedger, PTL DEF Spec

\* Every value the push, the sweep and the discontinuation store is of its type.
THEOREM TypeCorrect == Spec => []TypeOK
<1>1. LedgerInv => TypeOK
  BY DEF LedgerInv
<1> QED BY <1>1, LedgerSafe, PTL

\* A row only ever carries the id of an invoice issued for it.
THEOREM RowsNameTheirInvoice == Spec => []RowNamesOwnInvoice
<1>1. LedgerInv => RowNamesOwnInvoice
  BY DEF LedgerInv
<1> QED BY <1>1, LedgerSafe, PTL

LEMMA StepKeepsBooked ==
    LedgerInv /\ [Next]_vars => \A n \in Numbers : rows[n].ext # NoId => rows'[n].ext = rows[n].ext
<1> SUFFICES ASSUME LedgerInv, [Next]_vars, NEW n \in Numbers, rows[n].ext # NoId
             PROVE  rows'[n].ext = rows[n].ext
  OBVIOUS
<1>1. CASE SameIds
  BY <1>1 DEF SameIds
<1>2. ASSUME NEW j \in Jobs, SaveRow(j) PROVE rows'[n].ext = rows[n].ext
  BY <1>2, SaveRowWrites
<1>3. CASE UNCHANGED vars
  BY <1>3 DEF vars
<1> QED BY <1>1, <1>2, <1>3, StepKinds DEF SameLedger, Issuing

\* No retry, redelivery or concurrent job replaces a stored invoice id.
THEOREM BookedNeverChanges == Spec => BookedForever
<1>1. LedgerInv /\ [Next]_vars
        => [\A n \in Numbers : rows[n].ext # NoId => rows'[n].ext = rows[n].ext]_vars
  BY StepKeepsBooked
<1> QED BY <1>1, LedgerSafe, PTL DEF Spec, BookedForever

-----------------------------------------------------------------------------
(* Sending and withdrawing *)

\* A queued cancellation is of a row whose cancellation has committed.
QueuedIsCancelled == \A c \in cancels : rows[c[1]].cancelled

\* A row the sweep is about to mark as sent has an invoice that is out.
MailedIsOut == \A n \in sweep.mailed : invoices[rows[n].ext].state # "draft"

SendingInv == QueuedIsCancelled /\ WithdrawnIsCancelled /\ MailedIsOut /\ ParentSeesIssuedOnly

Withdrawn(i) == Issued(i) /\ invoices[i].state \in {"archived", "cancelled"}

Out(i) == invoices[i].state # "draft"

\* What a step may do to cancellations and to the invoices' states.
CancelEffects ==
    /\ \A n \in Numbers : rows[n].cancelled => rows'[n].cancelled
    /\ \A c \in cancels' \ cancels : rows'[c[1]].cancelled
    /\ \A i \in InvoiceIds : Withdrawn(i)' /\ ~Withdrawn(i) => \E c \in cancels : i = rows[c[1]].ext

SendEffects ==
    /\ \A i \in InvoiceIds : Issued(i) /\ Out(i) => Out(i)'
    /\ \A n \in Numbers : rows'[n].status = "sent" => rows[n].status = "sent" \/ n \in sweep.mailed
    /\ \A n \in sweep'.mailed \ sweep.mailed : n \in sweep.todo /\ invoices'[rows[n].ext].state # "draft"

LEMMA IdleEffects ==
    ASSUME UNCHANGED <<rows, invoices, cancels>>, sweep'.mailed \subseteq sweep.mailed
    PROVE  CancelEffects /\ SendEffects
BY DEF CancelEffects, SendEffects, Withdrawn, Out, Issued

\* Making out an invoice leaves the others alone; the new one is a draft.
LEMMA IssueEffects ==
    ASSUME LedgerInv, NEW n \in Numbers, NEW i \in InvoiceIds, IssueInvoice(n, i)
    PROVE  /\ \A k \in InvoiceIds : Withdrawn(k)' => Withdrawn(k)
           /\ \A k \in InvoiceIds : Issued(k) /\ Out(k) => Out(k)'
<1>1. \A k \in InvoiceIds : invoices'[k] = IF k = i THEN [num |-> n, state |-> "draft", paid |-> FALSE]
                                           ELSE invoices[k]
  BY DEF IssueInvoice, LedgerInv, TypeOK
<1> QED BY <1>1 DEF Withdrawn, Out, Issued, IssueInvoice

\* Rows change in columns that neither sending nor cancelling reads.
LEMMA RowEffects ==
    ASSUME LedgerInv, NEW n \in Numbers, NEW b \in InvoiceRow,
           rows' = [rows EXCEPT ![n] = b], rows[n].cancelled => b.cancelled,
           b.status = "sent" => rows[n].status = "sent" \/ n \in sweep.mailed
    PROVE  /\ \A m \in Numbers : rows[m].cancelled => rows'[m].cancelled
           /\ \A m \in Numbers : rows'[m].status = "sent" => rows[m].status = "sent" \/ m \in sweep.mailed
BY DEF LedgerInv, TypeOK

LEMMA PushEffects ==
    ASSUME LedgerInv, NEW j \in Jobs, NEW s \in Installments,
           \/ CreateRow(j) \/ SaveRow(j)
           \/ CreateInvoice(j, s) \/ RefuseInvoice(j, s) \/ LoseAnswer(j, s)
    PROVE  CancelEffects /\ SendEffects
<1> USE DEF LedgerInv, TypeOK
<1>1. Rec(j) \in Records /\ <<Rec(j), s>> \in Numbers
  BY DEF Rec, Job, Numbers
<1>2. ASSUME UNCHANGED <<cancels, sweep>>,
             \A m \in Numbers : rows[m].cancelled => rows'[m].cancelled,
             \A m \in Numbers : rows'[m].status = "sent" => rows[m].status = "sent" \/ m \in sweep.mailed,
             \/ UNCHANGED invoices
             \/ \E i \in InvoiceIds : IssueInvoice(<<Rec(j), s>>, i)
      PROVE  CancelEffects /\ SendEffects
  <2>1. /\ \A k \in InvoiceIds : Withdrawn(k)' => Withdrawn(k)
        /\ \A k \in InvoiceIds : Issued(k) /\ Out(k) => Out(k)'
    BY <1>1, <1>2, IssueEffects DEF Withdrawn, Out, Issued
  <2> QED BY <1>2, <2>1 DEF CancelEffects, SendEffects
<1>3. CASE CreateRow(j)
  <2>1. Cur(j) \in Numbers
    BY <1>1, <1>3 DEF CreateRow, Cur, Numbers, Rec
  <2>2. /\ [rows[Cur(j)] EXCEPT !.exists = TRUE].cancelled = rows[Cur(j)].cancelled
        /\ [rows[Cur(j)] EXCEPT !.exists = TRUE].status = rows[Cur(j)].status
    BY <2>1 DEF InvoiceRow
  <2> QED BY <1>2, <1>3, <2>1, <2>2, RowEdits, RowEffects DEF CreateRow
<1>4. CASE SaveRow(j)
  <2>1. Cur(j) \in Numbers
    BY <1>4, SaveRowWrites
  <2> DEFINE b == [rows[Cur(j)] EXCEPT !.ext = jobs[j].got, !.status = "created"]
  <2>5. rows[Cur(j)] \in InvoiceRow /\ jobs[j].got \in InvoiceIds
    BY <1>4, <2>1, SaveRowWrites DEF HoldsOwnInvoice
  <2>6. b \in InvoiceRow
    BY <2>5, RowEdits
  <2>2. b.cancelled = rows[Cur(j)].cancelled /\ b.status = "created"
    BY <2>5 DEF InvoiceRow
  <2>3. rows' = [rows EXCEPT ![Cur(j)] = b]
    BY <1>4 DEF SaveRow
  <2>4. /\ \A m \in Numbers : rows[m].cancelled => rows'[m].cancelled
        /\ \A m \in Numbers : rows'[m].status = "sent" => rows[m].status = "sent" \/ m \in sweep.mailed
    <3> HIDE DEF b
    <3> QED BY <2>1, <2>2, <2>3, <2>6, RowEffects
  <2> QED BY <1>2, <1>4, <2>4 DEF SaveRow
<1>5. CASE CreateInvoice(j, s)
  <2>1. \E i \in InvoiceIds : IssueInvoice(<<Rec(j), s>>, i)
    BY <1>5 DEF CreateInvoice
  <2> QED BY <1>2, <1>5, <2>1 DEF CreateInvoice
<1>6. ASSUME rows' = [rows EXCEPT ![<<Rec(j), s>>].status = "failed"]
      PROVE  /\ \A m \in Numbers : rows[m].cancelled => rows'[m].cancelled
             /\ \A m \in Numbers : rows'[m].status = "sent" => rows[m].status = "sent" \/ m \in sweep.mailed
  <2>1. /\ [rows[<<Rec(j), s>>] EXCEPT !.status = "failed"].cancelled = rows[<<Rec(j), s>>].cancelled
        /\ [rows[<<Rec(j), s>>] EXCEPT !.status = "failed"].status = "failed"
    BY <1>1 DEF InvoiceRow
  <2> QED BY <1>1, <1>6, <2>1, RowEdits, RowEffects
<1>7. CASE RefuseInvoice(j, s)
  BY <1>2, <1>6, <1>7 DEF RefuseInvoice
<1>8. CASE LoseAnswer(j, s)
  BY <1>2, <1>6, <1>8 DEF LoseAnswer
<1> QED BY <1>3, <1>4, <1>5, <1>7, <1>8

\* Only an invoice's state changes, never to draft; to a withdrawn one, in a
\* queued cancellation alone.
LEMMA StateEffects ==
    ASSUME LedgerInv, NEW i \in InvoiceIds, invoices[i] \in Invoice,
           NEW b \in Invoice, invoices' = [invoices EXCEPT ![i] = b],
           b.state = "draft" => invoices[i].state = "draft",
           \/ b.state \in {"archived", "cancelled"} => invoices[i].state \in {"archived", "cancelled"}
           \/ \E c \in cancels : i = rows[c[1]].ext
    PROVE  /\ \A k \in InvoiceIds : Withdrawn(k)' /\ ~Withdrawn(k) => \E c \in cancels : k = rows[c[1]].ext
           /\ \A k \in InvoiceIds : Issued(k) /\ Out(k) => Out(k)'
<1>1. \A k \in InvoiceIds : invoices'[k] = IF k = i THEN b ELSE invoices[k]
  BY DEF LedgerInv, TypeOK
<1>2. invoices[i] # Absent
  BY InvoiceEdits
<1> QED BY <1>1, <1>2 DEF Withdrawn, Out, Issued

LEMMA MailedEffects ==
    ASSUME LedgerInv, NEW n \in sweep.todo, invoices' = Mailed(n)
    PROVE  /\ \A k \in InvoiceIds : Withdrawn(k)' /\ ~Withdrawn(k) => \E c \in cancels : k = rows[c[1]].ext
           /\ \A k \in InvoiceIds : Issued(k) /\ Out(k) => Out(k)'
           /\ invoices'[rows[n].ext].state # "draft"
<1>1. n \in Numbers /\ rows[n].ext # NoId
  BY DEF LedgerInv, TypeOK, Sweep, SweepingBooked
<1>2. rows[n].ext \in InvoiceIds /\ invoices[rows[n].ext] \in Invoice
  BY <1>1, BookedIsIssued
<1> DEFINE i == rows[n].ext
           b == [invoices[i] EXCEPT !.state = IF @ = "draft" THEN "sent" ELSE @]
<1>3. b \in Invoice /\ b.state = IF invoices[i].state = "draft" THEN "sent" ELSE invoices[i].state
  BY <1>2 DEF Invoice
<1>4. invoices' = [invoices EXCEPT ![i] = b]
  BY DEF Mailed
<1>5. invoices'[i] = b
  BY <1>2, <1>4 DEF LedgerInv, TypeOK
<1> HIDE DEF b
<1>10. i \in InvoiceIds /\ invoices[i] \in Invoice /\ b \in Invoice
  BY <1>2, <1>3
<1>6. b.state \in {"archived", "cancelled"} => invoices[i].state \in {"archived", "cancelled"}
  BY <1>3
<1>7. b.state = "draft" => invoices[i].state = "draft"
  BY <1>3
<1>8. invoices'[i].state # "draft"
  BY <1>3, <1>5
<1>9. /\ \A k \in InvoiceIds : Withdrawn(k)' /\ ~Withdrawn(k) => \E c \in cancels : k = rows[c[1]].ext
      /\ \A k \in InvoiceIds : Issued(k) /\ Out(k) => Out(k)'
  BY <1>4, <1>6, <1>7, <1>10, StateEffects
<1> QED BY <1>8, <1>9

LEMMA SweepEffects ==
    ASSUME LedgerInv, SweepStep \/ SweepDies
    PROVE  CancelEffects /\ SendEffects
<1> USE DEF LedgerInv, TypeOK
<1>1. CASE StartSweep \/ EndSweep \/ SweepDies
  BY <1>1, IdleEffects DEF StartSweep, EndSweep, SweepDies, Sweep
<1>2. ASSUME NEW n \in Numbers, EmailInvoice(n) PROVE CancelEffects /\ SendEffects
  <2>1. sweep'.mailed = {n} /\ n \in sweep.todo
    BY <1>2 DEF EmailInvoice, Sweep
  <2> QED BY <1>2, <2>1, MailedEffects DEF EmailInvoice, CancelEffects, SendEffects
<1>3. ASSUME NEW n \in Numbers, EmailFails(n) PROVE CancelEffects /\ SendEffects
  <2>1. sweep'.mailed = sweep.mailed /\ n \in sweep.todo
    BY <1>3 DEF EmailFails, Sweep
  <2>2. CASE invoices' = invoices
    BY <1>3, <2>1, <2>2, IdleEffects DEF EmailFails
  <2>3. CASE invoices' = Mailed(n)
    BY <1>3, <2>1, <2>3, MailedEffects DEF EmailFails, CancelEffects, SendEffects
  <2> QED BY <1>3, <2>2, <2>3 DEF EmailFails
<1>4. ASSUME NEW n \in Numbers, SaveSent(n) PROVE CancelEffects /\ SendEffects
  <2>1. sweep'.mailed = {} /\ n \in sweep.mailed
    BY <1>4 DEF SaveSent, Sweep
  <2>4. [rows[n] EXCEPT !.status = "sent"] \in InvoiceRow
    BY RowEdits
  <2>2. [rows[n] EXCEPT !.status = "sent"].cancelled = rows[n].cancelled
    BY DEF InvoiceRow
  <2>3. /\ \A m \in Numbers : rows[m].cancelled => rows'[m].cancelled
        /\ \A m \in Numbers : rows'[m].status = "sent" => rows[m].status = "sent" \/ m \in sweep.mailed
    BY <1>4, <2>1, <2>2, <2>4, RowEffects DEF SaveSent
  <2> QED BY <1>4, <2>1, <2>3 DEF SaveSent, CancelEffects, SendEffects, Withdrawn, Out, Issued
<1> QED BY <1>1, <1>2, <1>3, <1>4 DEF SweepStep

LEMMA PaymentEffects ==
    ASSUME LedgerInv,
           (\E i \in InvoiceIds : Pay(i)) \/ (\E n \in Numbers : SyncPayment(n))
    PROVE  CancelEffects /\ SendEffects
<1> USE DEF LedgerInv, TypeOK
<1>1. ASSUME NEW i \in InvoiceIds, Pay(i) PROVE CancelEffects /\ SendEffects
  <2>1. invoices[i] \in Invoice
    BY <1>1 DEF Pay, Issued
  <2>2. /\ [invoices[i] EXCEPT !.paid = TRUE] \in Invoice
        /\ [invoices[i] EXCEPT !.paid = TRUE].state = invoices[i].state
    BY <2>1 DEF Invoice
  <2>3. /\ \A k \in InvoiceIds : Withdrawn(k)' /\ ~Withdrawn(k) => \E c \in cancels : k = rows[c[1]].ext
        /\ \A k \in InvoiceIds : Issued(k) /\ Out(k) => Out(k)'
    BY <1>1, <2>1, <2>2, StateEffects DEF Pay
  <2> QED BY <1>1, <2>3 DEF Pay, CancelEffects, SendEffects
<1>2. ASSUME NEW n \in Numbers, SyncPayment(n) PROVE CancelEffects /\ SendEffects
  <2>1. invoices[rows[n].ext].paid \in BOOLEAN
    BY <1>2, BookedIsIssued, InvoiceEdits DEF SyncPayment
  <2> DEFINE b == [rows[n] EXCEPT !.paid = invoices[rows[n].ext].paid]
  <2>2. b \in InvoiceRow
    BY <2>1, RowEdits
  <2>5. b.cancelled = rows[n].cancelled /\ b.status = rows[n].status
    BY DEF InvoiceRow
  <2>3. rows' = [rows EXCEPT ![n] = b]
    BY <1>2 DEF SyncPayment
  <2>4. /\ \A m \in Numbers : rows[m].cancelled => rows'[m].cancelled
        /\ \A m \in Numbers : rows'[m].status = "sent" => rows[m].status = "sent" \/ m \in sweep.mailed
    <3> HIDE DEF b
    <3> QED BY <2>2, <2>3, <2>5, RowEffects
  <2> QED BY <1>2, <2>4 DEF SyncPayment, CancelEffects, SendEffects, Withdrawn, Out, Issued
<1> QED BY <1>1, <1>2

LEMMA LeaveEffects ==
    ASSUME LedgerInv, (\E r \in Records : CancelSelected(r)) \/ CancelStep
    PROVE  CancelEffects /\ SendEffects
<1> USE DEF LedgerInv, TypeOK
<1>1. ASSUME NEW r \in Records, CancelSelected(r) PROVE CancelEffects /\ SendEffects
  <2>1. \A n \in Numbers :
          /\ rows[n].cancelled => rows'[n].cancelled
          /\ rows'[n].status = rows[n].status
          /\ n[1] = r /\ Planned(r, n[2]) # {} => rows'[n].cancelled
    <3> TAKE n \in Numbers
    <3> DEFINE b == [rows[n] EXCEPT !.cancelled = TRUE,
                       !.cancellation = IF Planned(r, n[2]) = {"local"} THEN @ ELSE "pending"]
    <3>1. b.cancelled /\ b.status = rows[n].status
      BY DEF InvoiceRow
    <3>2. rows'[n] = IF n[1] = r /\ Planned(r, n[2]) # {} THEN b ELSE rows[n]
      BY <1>1 DEF CancelSelected
    <3> HIDE DEF b
    <3> QED BY <3>1, <3>2
  <2>2. \A c \in cancels' \ cancels : rows'[c[1]].cancelled
    <3> TAKE c \in cancels' \ cancels
    <3>1. c \in ExternalJobs(r)
      BY <1>1 DEF CancelSelected
    <3>2. c[1] \in Numbers /\ c[1][1] = r /\ c[2] \in Planned(r, c[1][2])
      BY <3>1 DEF ExternalJobs, Planned, Action
    <3> QED BY <2>1, <3>2
  <2> QED BY <1>1, <2>1, <2>2 DEF CancelSelected, CancelEffects, SendEffects, Withdrawn, Out, Issued
<1>2. ASSUME NEW c \in cancels, NEW v \in {"done", "failed"},
             rows' = [rows EXCEPT ![c[1]].cancellation = v]
      PROVE  \A m \in Numbers : rows'[m].cancelled = rows[m].cancelled /\ rows'[m].status = rows[m].status
  BY <1>2 DEF InvoiceRow
<1>3. ASSUME NEW c \in cancels, RunCancel(c) PROVE CancelEffects /\ SendEffects
  <2>1. c[1] \in Numbers
    OBVIOUS
  <2>2. rows[c[1]].ext \in InvoiceIds /\ invoices[rows[c[1]].ext] \in Invoice
    BY <1>3, <2>1, BookedIsIssued DEF RunCancel
  <2> DEFINE b == [invoices[rows[c[1]].ext] EXCEPT !.state = IF c[2] = "archive" THEN "archived" ELSE "cancelled"]
  <2>3. b \in Invoice /\ b.state # "draft"
    BY <2>2 DEF Invoice
  <2>4. invoices' = [invoices EXCEPT ![rows[c[1]].ext] = b]
    BY <1>3 DEF RunCancel
  <2>5. /\ \A k \in InvoiceIds : Withdrawn(k)' /\ ~Withdrawn(k) => \E d \in cancels : k = rows[d[1]].ext
        /\ \A k \in InvoiceIds : Issued(k) /\ Out(k) => Out(k)'
    <3> HIDE DEF b
    <3> QED BY <2>2, <2>3, <2>4, StateEffects
  <2>6. /\ \A m \in Numbers : rows'[m].cancelled = rows[m].cancelled /\ rows'[m].status = rows[m].status
        /\ cancels' \subseteq cancels
    BY <1>2, <1>3 DEF RunCancel
  <2> QED BY <1>3, <2>5, <2>6 DEF RunCancel, CancelEffects, SendEffects
<1>4. ASSUME NEW c \in cancels, CancelFails(c) PROVE CancelEffects /\ SendEffects
  <2>1. /\ \A m \in Numbers : rows'[m].cancelled = rows[m].cancelled /\ rows'[m].status = rows[m].status
        /\ cancels' \subseteq cancels
    BY <1>2, <1>4 DEF CancelFails
  <2> QED BY <1>4, <2>1 DEF CancelFails, CancelEffects, SendEffects, Withdrawn, Out, Issued
<1> QED BY <1>1, <1>3, <1>4 DEF CancelStep

LEMMA StepEffects ==
    ASSUME LedgerInv, Next
    PROVE  CancelEffects /\ SendEffects
<1>1. ASSUME NEW r \in Records,
             \/ Confirm(r) \/ OpenForm(r) \/ SaveForm(r) \/ SelectInvoices(r)
             \/ \E j \in Jobs : Enqueue(r, j)
      PROVE  CancelEffects /\ SendEffects
  BY <1>1, IdleEffects DEF Confirm, OpenForm, SaveForm, SelectInvoices, Enqueue
<1>2. ASSUME NEW j \in Jobs, PushStep(j) \/ Die(j) PROVE CancelEffects /\ SendEffects
  <2>1. CASE \/ Load(j) \/ MarkSynced(j) \/ MarkPending(j)
             \/ EnsureSucceeds(j) \/ EnsureFails(j) \/ ReadRows(j)
             \/ CreateRowCollides(j) \/ RowsCreated(j) \/ RollUp(j) \/ Die(j)
             \/ \E s \in Installments : RecoverInvoice(j, s)
    BY <2>1, IdleEffects DEF Load, MarkSynced, MarkPending, EnsureSucceeds, EnsureFails, ReadRows,
           CreateRowCollides, RowsCreated, RollUp, Die, RecoverInvoice
  <2>2. 1 \in Installments
    BY DEF Installments
  <2>3. CASE CreateRow(j) \/ SaveRow(j)
    BY <2>2, <2>3, PushEffects
  <2>4. ASSUME NEW s \in Installments,
               CreateInvoice(j, s) \/ RefuseInvoice(j, s) \/ LoseAnswer(j, s)
        PROVE  CancelEffects /\ SendEffects
    BY <2>4, PushEffects
  <2> QED BY <1>2, <2>1, <2>3, <2>4 DEF PushStep
<1>3. CASE SweepStep \/ SweepDies
  BY <1>3, SweepEffects
<1>4. CASE (\E r \in Records : CancelSelected(r)) \/ CancelStep
  BY <1>4, LeaveEffects
<1>5. CASE (\E i \in InvoiceIds : Pay(i)) \/ (\E n \in Numbers : SyncPayment(n))
  BY <1>5, PaymentEffects
<1> QED BY <1>1, <1>2, <1>3, <1>4, <1>5 DEF Next

\* An invoice stays, with its number; a number's new invoice is a draft.
LEMMA IssuedStays ==
    ASSUME LedgerInv, Next, NEW i \in InvoiceIds, Issued(i)
    PROVE  Issued(i)' /\ invoices'[i].num = invoices[i].num
<1>1. CASE SameLedger
  BY <1>1 DEF SameLedger
<1>2. ASSUME NEW n \in Numbers, NEW k \in InvoiceIds, Issuing(n, k)
      PROVE  Issued(i)' /\ invoices'[i].num = invoices[i].num
  BY <1>2 DEF Issuing, IssueInvoice, Issued, LedgerInv, TypeOK
<1>3. ASSUME NEW j \in Jobs, SaveRow(j)
      PROVE  Issued(i)' /\ invoices'[i].num = invoices[i].num
  BY <1>3 DEF SaveRow, Issued
<1> QED BY <1>1, <1>2, <1>3, StepKinds

LEMMA StepKeepsSending == LedgerInv /\ SendingInv /\ [Next]_vars => SendingInv'
<1> SUFFICES ASSUME LedgerInv, SendingInv, [Next]_vars PROVE SendingInv'
  OBVIOUS
<1>1. CASE Next
  <2> USE <1>1 DEF SendingInv
  <2>1. CancelEffects /\ SendEffects /\ TypeOK /\ TypeOK'
    BY StepEffects, StepKinds DEF LedgerInv
  <2>2. \A c \in cancels \cup cancels' : c[1] \in Numbers
    BY <2>1 DEF TypeOK
  <2>3. \A n \in Numbers : rows[n].ext # NoId =>
          /\ rows'[n].ext = rows[n].ext /\ rows[n].ext \in InvoiceIds
          /\ Issued(rows[n].ext) /\ invoices[rows[n].ext].num = n
    BY StepKeepsBooked, BookedIsIssued DEF LedgerInv, RowNamesOwnInvoice
  <2>4. QueuedIsCancelled'
    BY <2>1, <2>2 DEF QueuedIsCancelled, CancelEffects
  <2>5. WithdrawnIsCancelled'
    <3> SUFFICES ASSUME NEW i \in InvoiceIds, Withdrawn(i)'
                 PROVE  rows'[invoices'[i].num].cancelled
      BY DEF WithdrawnIsCancelled, Withdrawn
    <3>1. CASE Withdrawn(i)
      <4>1. rows[invoices[i].num].cancelled /\ invoices'[i].num = invoices[i].num
        BY <3>1, IssuedStays DEF WithdrawnIsCancelled, Withdrawn
      <4>2. invoices[i].num \in Numbers
        BY <3>1, <2>1 DEF Withdrawn, Issued, TypeOK, Invoice
      <4> QED BY <2>1, <4>1, <4>2 DEF CancelEffects
    <3>2. CASE ~Withdrawn(i)
      <4>1. PICK c \in cancels : i = rows[c[1]].ext
        BY <2>1, <3>2 DEF CancelEffects
      <4>2. c[1] \in Numbers /\ rows[c[1]].ext # NoId
        BY <2>2, <4>1
      <4>3. Issued(i) /\ invoices[i].num = c[1]
        BY <2>3, <4>1, <4>2
      <4>4. invoices'[i].num = c[1]
        BY <4>3, IssuedStays
      <4> QED BY <2>1, <4>2, <4>4 DEF CancelEffects, QueuedIsCancelled
    <3> QED BY <3>1, <3>2
  <2>6. MailedIsOut'
    <3> SUFFICES ASSUME NEW n \in sweep'.mailed PROVE invoices'[rows'[n].ext].state # "draft"
      BY DEF MailedIsOut
    <3>1. n \in Numbers /\ (n \in sweep.todo \/ n \in sweep.mailed)
      BY <2>1 DEF TypeOK, Sweep, SendEffects
    <3>2. rows[n].ext # NoId
      BY <3>1 DEF LedgerInv, SweepingBooked
    <3> QED BY <2>1, <2>3, <3>1, <3>2 DEF SendEffects, MailedIsOut, Out
  <2>7. ParentSeesIssuedOnly'
    <3> SUFFICES ASSUME NEW n \in Numbers, rows'[n].status = "sent"
                 PROVE  rows'[n].ext # NoId /\ invoices'[rows'[n].ext].state # "draft"
      BY DEF ParentSeesIssuedOnly
    <3>1. rows[n].status = "sent" \/ n \in sweep.mailed
      BY <2>1 DEF SendEffects
    <3>2. rows[n].ext # NoId /\ invoices[rows[n].ext].state # "draft"
      BY <3>1 DEF ParentSeesIssuedOnly, MailedIsOut, LedgerInv, SweepingBooked
    <3> QED BY <2>1, <2>3, <3>2 DEF SendEffects, Out
  <2> QED BY <2>4, <2>5, <2>6, <2>7
<1>2. CASE UNCHANGED vars
  BY <1>2 DEF vars, SendingInv, QueuedIsCancelled, WithdrawnIsCancelled, MailedIsOut,
              ParentSeesIssuedOnly, Issued
<1> QED BY <1>1, <1>2

LEMMA InitSending == Init => SendingInv
BY DEF Init, NoRow, SendingInv, QueuedIsCancelled, WithdrawnIsCancelled, MailedIsOut,
       ParentSeesIssuedOnly, Issued

\* The nightly sweep and the discontinuation keep to their rows, whatever they
\* lose on the way: no draft is shown as sent, no live row's invoice withdrawn.
THEOREM SendingSafe == Spec => []SendingInv
<1>1. LedgerInv /\ SendingInv /\ [Next]_vars => SendingInv'
  BY StepKeepsSending
<1> QED BY <1>1, InitSending, LedgerSafe, PTL DEF Spec

\* Only an invoice whose row the office cancelled is withdrawn.
THEOREM OnlyCancelledWithdrawn == Spec => []WithdrawnIsCancelled
<1>1. SendingInv => WithdrawnIsCancelled
  BY DEF SendingInv
<1> QED BY <1>1, SendingSafe, PTL

\* What a parent is shown as sent is no draft.
THEOREM ParentsSeeIssued == Spec => []ParentSeesIssuedOnly
<1>1. SendingInv => ParentSeesIssuedOnly
  BY DEF SendingInv
<1> QED BY <1>1, SendingSafe, PTL

-----------------------------------------------------------------------------
(* The refinement *)

LEMMA IssuedForFinds ==
    ASSUME OneInvoicePerNumber, NEW i \in InvoiceIds, Issued(i)
    PROVE  IssuedFor(invoices[i].num) = i
<1> DEFINE n == invoices[i].num
<1>1. Taken(n)
  BY DEF Taken
<1>2. \A k \in InvoiceIds : Issued(k) /\ invoices[k].num = n => k = i
  BY DEF OneInvoicePerNumber
<1>3. (CHOOSE k \in InvoiceIds : Issued(k) /\ invoices[k].num = n) = i
  BY <1>2
<1> QED BY <1>1, <1>3 DEF IssuedFor

LEMMA IssuedForNothing ==
    ASSUME NEW n \in Numbers, ~Taken(n)
    PROVE  IssuedFor(n) = NoId
BY DEF IssuedFor

LEMMA SameLedgerStutters ==
    ASSUME LedgerInv, LedgerInv', SameLedger
    PROVE  UNCHANGED Ledger!vars
<1>1. ASSUME NEW n \in Numbers PROVE IssuedFor(n)' = IssuedFor(n)
  <2>1. CASE Taken(n)
    <3>1. PICK i \in InvoiceIds : Issued(i) /\ invoices[i].num = n
      BY <2>1 DEF Taken
    <3>2. Issued(i)' /\ invoices'[i].num = n
      BY <3>1 DEF SameLedger
    <3>3. IssuedFor(n) = i
      BY <3>1, IssuedForFinds DEF LedgerInv
    <3>4. OneInvoicePerNumber'
      BY DEF LedgerInv
    <3>5. \A k \in InvoiceIds : Issued(k)' /\ invoices'[k].num = n => k = i
      BY <3>2, <3>4 DEF OneInvoicePerNumber
    <3>6. IssuedFor(n)' = i
      BY <3>2, <3>5 DEF IssuedFor, Taken
    <3> QED BY <3>3, <3>6
  <2>2. CASE ~Taken(n)
    <3>1. ~Taken(n)'
      BY <2>2 DEF Taken, SameLedger
    <3> QED BY <2>2, <3>1 DEF IssuedFor
  <2> QED BY <2>1, <2>2
<1>2. [n \in Numbers |-> rows'[n].ext] = [n \in Numbers |-> rows[n].ext]
  BY DEF SameLedger, SameIds
<1> QED BY <1>1, <1>2 DEF Ledger!vars, Numbers, Installments

LEMMA IssuingIssues ==
    ASSUME LedgerInv, LedgerInv', NEW n \in Numbers, NEW i \in InvoiceIds, Issuing(n, i)
    PROVE  Ledger!Issue(n, i)
<1>1. /\ ~Taken(n) /\ ~Issued(i)
      /\ invoices' = [invoices EXCEPT ![i] = [num |-> n, state |-> "draft", paid |-> FALSE]]
      /\ SameIds
  BY DEF Issuing, IssueInvoice
<1>2. invoices'[i] = [num |-> n, state |-> "draft", paid |-> FALSE]
  BY <1>1 DEF LedgerInv, TypeOK
<1>3. \A k \in InvoiceIds \ {i} : invoices'[k] = invoices[k]
  BY <1>1 DEF LedgerInv, TypeOK
<1>4. Issued(i)'
  <2>1. invoices'[i] \in Invoice
    BY <1>2 DEF Invoice
  <2> QED BY <2>1, InvoiceEdits DEF Issued
<1>5. IssuedFor(n)' = i
  <2>1. \A k \in InvoiceIds : Issued(k)' /\ invoices'[k].num = n => k = i
    BY <1>2, <1>4 DEF LedgerInv, OneInvoicePerNumber
  <2> QED BY <1>2, <1>4, <2>1 DEF IssuedFor, Taken
<1>6. ASSUME NEW m \in Numbers, m # n PROVE IssuedFor(m)' = IssuedFor(m)
  <2>1. \A k \in InvoiceIds : (Issued(k)' /\ invoices'[k].num = m) <=> (Issued(k) /\ invoices[k].num = m)
    BY <1>1, <1>2, <1>3, <1>6 DEF Issued
  <2>2. Taken(m)' <=> Taken(m)
    BY <2>1 DEF Taken
  <2>3. CASE ~Taken(m)
    BY <2>2, <2>3 DEF IssuedFor
  <2>4. CASE Taken(m)
    <3>1. PICK k \in InvoiceIds : Issued(k) /\ invoices[k].num = m
      BY <2>4 DEF Taken
    <3>2. IssuedFor(m) = k
      BY <3>1, IssuedForFinds DEF LedgerInv
    <3>3. \A l \in InvoiceIds : Issued(l)' /\ invoices'[l].num = m => l = k
      BY <2>1, <3>1 DEF LedgerInv, OneInvoicePerNumber
    <3>4. IssuedFor(m)' = k
      BY <2>1, <2>2, <2>4, <3>1, <3>3 DEF IssuedFor
    <3> QED BY <3>2, <3>4
  <2> QED BY <2>3, <2>4
<1>7. IssuedFor(n) = NoId
  BY <1>1, IssuedForNothing
<1>8. \A m \in Numbers : IssuedFor(m) # i
  <2> TAKE m \in Numbers
  <2>1. CASE ~Taken(m)
    BY <2>1, IssuedForNothing
  <2>2. CASE Taken(m)
    <3>1. PICK k \in InvoiceIds : Issued(k) /\ invoices[k].num = m
      BY <2>2 DEF Taken
    <3>2. IssuedFor(m) = k
      BY <3>1, IssuedForFinds DEF LedgerInv
    <3> QED BY <1>1, <3>1, <3>2
  <2> QED BY <2>1, <2>2
<1>9. [m \in Numbers |-> IssuedFor(m)'] = [[m \in Numbers |-> IssuedFor(m)] EXCEPT ![n] = i]
  BY <1>5, <1>6
<1>10. [m \in Numbers |-> rows'[m].ext] = [m \in Numbers |-> rows[m].ext]
  BY <1>1 DEF SameIds
<1> QED BY <1>7, <1>8, <1>9, <1>10 DEF Ledger!Issue, Numbers, Installments

LEMMA SavingBooks ==
    ASSUME LedgerInv, LedgerInv', NEW j \in Jobs, SaveRow(j)
    PROVE  (\E n \in Numbers : Ledger!Book(n)) \/ UNCHANGED Ledger!vars
<1>1. PICK n \in Numbers : n = Cur(j)
  BY SaveRowWrites
<1>2. PICK i \in InvoiceIds : i = jobs[j].got
  BY SaveRowWrites DEF HoldsOwnInvoice
<1>3. /\ \A m \in Numbers : rows'[m].ext = IF m = n THEN i ELSE rows[m].ext
      /\ rows[n].ext \in {NoId, i}
  BY <1>1, <1>2, SaveRowWrites
<1>4. \A m \in Numbers : IssuedFor(m)' = IssuedFor(m)
  BY DEF SaveRow, IssuedFor, Taken, Issued
<1>5. IssuedFor(n) = i
  BY <1>1, <1>2, SaveRowWrites, IssuedForFinds DEF LedgerInv, HoldsOwnInvoice
<1>6. CASE rows[n].ext = NoId
  <2>1. [m \in Numbers |-> rows'[m].ext] = [[m \in Numbers |-> rows[m].ext] EXCEPT ![n] = IssuedFor(n)]
    BY <1>3, <1>5
  <2>2. Ledger!Book(n)
    BY <1>4, <1>5, <1>6, <2>1 DEF Ledger!Book, Numbers, Installments
  <2> QED BY <2>2
<1>7. CASE rows[n].ext = i
  <2>1. [m \in Numbers |-> rows'[m].ext] = [m \in Numbers |-> rows[m].ext]
    BY <1>3, <1>7
  <2> QED BY <1>4, <2>1 DEF Ledger!vars, Numbers, Installments
<1> QED BY <1>3, <1>6, <1>7

LEMMA InitImplements == Init => Ledger!Init
<1> SUFFICES ASSUME Init PROVE Ledger!Init
  OBVIOUS
<1>1. \A n \in Numbers : ~Taken(n)
  BY DEF Init, Taken, Issued
<1>2. \A n \in Numbers : IssuedFor(n) = NoId
  BY <1>1 DEF IssuedFor
<1>3. \A n \in Numbers : rows[n].ext = NoId
  BY DEF Init, NoRow
<1> QED BY <1>2, <1>3 DEF Ledger!Init, Numbers, Installments

LEMMA StepImplements == LedgerInv /\ LedgerInv' /\ [Next]_vars => [Ledger!Next]_(Ledger!vars)
<1> SUFFICES ASSUME LedgerInv, LedgerInv', [Next]_vars PROVE [Ledger!Next]_(Ledger!vars)
  OBVIOUS
<1>1. CASE SameLedger
  BY <1>1, SameLedgerStutters
<1>2. ASSUME NEW n \in Numbers, NEW i \in InvoiceIds, Issuing(n, i)
      PROVE  [Ledger!Next]_(Ledger!vars)
  BY <1>2, IssuingIssues DEF Ledger!Next
<1>3. ASSUME NEW j \in Jobs, SaveRow(j) PROVE [Ledger!Next]_(Ledger!vars)
  BY <1>3, SavingBooks DEF Ledger!Next
<1>4. CASE UNCHANGED vars
  BY <1>4, SameLedgerStutters DEF vars, SameLedger, SameIds, Issued
<1> QED BY <1>1, <1>2, <1>3, <1>4, StepKinds

\* The whole push, with its retries, its two workers and its crashes, is an
\* implementation of the ledger: a number goes from nothing to issued to booked.
THEOREM PushImplementsLedger == Spec => ImplementsLedger
<1>1. LedgerInv /\ LedgerInv' /\ [Next]_vars => [Ledger!Next]_(Ledger!vars)
  BY StepImplements
<1> QED BY <1>1, InitImplements, LedgerSafe, PTL DEF Spec, ImplementsLedger, Ledger!Spec
=============================================================================

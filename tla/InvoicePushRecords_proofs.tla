--------------------- MODULE InvoicePushRecords_proofs ---------------------
(***************************************************************************)
(* What becomes of the rows of a billing record and of its pending status,  *)
(* whatever else runs. RowsInv follows each job through its record's rows:  *)
(* a row it will write to exists, and so does every row with an id, a       *)
(* cancellation or a place in the office's selection; hence a settled row   *)
(* that no job has read yet is never taken up (SettledLeftAlone). For a     *)
(* pending record, what each step leaves of the job that serves it          *)
(* (PendingLeftOnlyBy). The last part counts the steps a job can take.      *)
(***************************************************************************)
EXTENDS InvoicePush_proofs, FiniteSetTheorems

USE NoIdAssumption, InstallmentsAssumption, AttemptsAssumption,
    SwitchesAssumption, SubsetsAssumption

-----------------------------------------------------------------------------
(* Who changes what *)

\* Rows come from CreateRow alone.
LEMMA RowsAppear ==
    ASSUME LedgerInv, Next, NEW n \in Numbers
    PROVE  rows'[n].exists = rows[n].exists \/ \E j \in Jobs : CreateRow(j) /\ n = Cur(j)
<1> USE DEF LedgerInv, TypeOK
<1>0. \A m \in Numbers : rows[m] \in InvoiceRow
  OBVIOUS
<1>1. ASSUME NEW j \in Jobs, CreateRow(j)
      PROVE  rows'[n].exists = rows[n].exists \/ n = Cur(j)
  BY <1>1 DEF CreateRow
<1>2. ASSUME NEW j \in Jobs, SaveRow(j) PROVE rows'[n].exists = rows[n].exists
  BY <1>0, <1>2 DEF SaveRow, InvoiceRow
<1>3. ASSUME NEW j \in Jobs, NEW s \in Installments, RefuseInvoice(j, s) \/ LoseAnswer(j, s)
      PROVE  rows'[n].exists = rows[n].exists
  BY <1>0, <1>3 DEF RefuseInvoice, LoseAnswer, InvoiceRow
<1>4. ASSUME NEW m \in Numbers, SaveSent(m) \/ SyncPayment(m) PROVE rows'[n].exists = rows[n].exists
  BY <1>0, <1>4 DEF SaveSent, SyncPayment, InvoiceRow
<1>5. ASSUME NEW r \in Records, CancelSelected(r) PROVE rows'[n].exists = rows[n].exists
  <2>1. [rows[n] EXCEPT !.cancelled = TRUE,
           !.cancellation = IF Planned(r, n[2]) = {"local"} THEN @ ELSE "pending"].exists = rows[n].exists
    BY DEF InvoiceRow
  <2> QED BY <1>5, <2>1 DEF CancelSelected
<1>6. CASE CancelStep
  BY <1>0, <1>6 DEF CancelStep, RunCancel, CancelFails, InvoiceRow
<1>7. CASE UNCHANGED rows
  BY <1>7
<1>8. \/ UNCHANGED rows \/ CancelStep
      \/ \E r \in Records : CancelSelected(r)
      \/ \E m \in Numbers : SaveSent(m) \/ SyncPayment(m)
      \/ \E j \in Jobs, s \in Installments : RefuseInvoice(j, s) \/ LoseAnswer(j, s)
      \/ \E j \in Jobs : CreateRow(j) \/ SaveRow(j)
  BY DEF Next, Confirm, OpenForm, SaveForm, SelectInvoices, Enqueue, PushStep,
         Load, MarkSynced, MarkPending, EnsureSucceeds, EnsureFails, ReadRows,
         CreateRowCollides, RowsCreated, CreateInvoice, RecoverInvoice,
         RollUp, Die, SweepStep, SweepDies, StartSweep, EndSweep, EmailInvoice, EmailFails, Pay
<1> QED BY <1>1, <1>2, <1>3, <1>4, <1>5, <1>6, <1>7, <1>8

LEMMA JobKinds ==
    ASSUME LedgerInv, Next, NEW k \in Jobs
    PROVE  \/ jobs'[k] = jobs[k]
           \/ \E r \in Records : Enqueue(r, k)
           \/ PushStep(k) \/ Die(k)
<1> USE DEF LedgerInv, TypeOK
<1>1. ASSUME NEW r \in Records, NEW j \in Jobs, Enqueue(r, j), j # k PROVE jobs'[k] = jobs[k]
  BY <1>1 DEF Enqueue
<1>2. ASSUME NEW j \in Jobs, PushStep(j) \/ Die(j), j # k PROVE jobs'[k] = jobs[k]
  BY <1>2 DEF PushStep, Die, Load, MarkSynced, MarkPending, EnsureSucceeds, EnsureFails, ReadRows,
       CreateRow, CreateRowCollides, RowsCreated, CreateInvoice, RecoverInvoice, Got,
       RefuseInvoice, LoseAnswer, SaveRow, RollUp
<1>3. \/ UNCHANGED jobs
      \/ \E r \in Records, j \in Jobs : Enqueue(r, j)
      \/ \E j \in Jobs : PushStep(j) \/ Die(j)
  BY DEF Next, Confirm, OpenForm, SaveForm, SelectInvoices, CancelSelected, SweepStep, SweepDies,
         StartSweep, EndSweep, EmailInvoice, EmailFails, SaveSent, CancelStep, RunCancel,
         CancelFails, Pay, SyncPayment
<1> QED BY <1>1, <1>2, <1>3

\* Ids come from SaveRow alone, and rows with an id lose "created" or "sent"
\* only to a job that fails on them.
LEMMA ExtKinds ==
    ASSUME LedgerInv, Next, NEW n \in Numbers
    PROVE  rows'[n].ext = rows[n].ext \/ \E j \in Jobs : SaveRow(j) /\ n = Cur(j)
<1>1. ASSUME NEW j \in Jobs, SaveRow(j), n # Cur(j) PROVE rows'[n].ext = rows[n].ext
  BY <1>1, SaveRowWrites
<1> QED BY <1>1, StepKinds DEF SameLedger, Issuing, SameIds

Failing(j, s) == RefuseInvoice(j, s) \/ LoseAnswer(j, s)

LEMMA StatusKinds ==
    ASSUME LedgerInv, Next, NEW n \in Numbers
    PROVE  \/ rows'[n].status = rows[n].status
           \/ rows'[n].status = "sent" /\ n \in sweep.mailed
           \/ \E j \in Jobs : SaveRow(j) /\ n = Cur(j)
           \/ \E j \in Jobs, s \in Installments : Failing(j, s) /\ n = <<Rec(j), s>>
<1> USE DEF LedgerInv, TypeOK
<1>0. \A m \in Numbers : rows[m] \in InvoiceRow
  OBVIOUS
<1>1. ASSUME NEW j \in Jobs, CreateRow(j) PROVE rows'[n].status = rows[n].status
  BY <1>0, <1>1 DEF CreateRow, InvoiceRow
<1>2. ASSUME NEW j \in Jobs, SaveRow(j), n # Cur(j) PROVE rows'[n].status = rows[n].status
  BY <1>2 DEF SaveRow
<1>3. ASSUME NEW j \in Jobs, NEW s \in Installments, Failing(j, s), n # <<Rec(j), s>>
      PROVE  rows'[n].status = rows[n].status
  BY <1>3 DEF Failing, RefuseInvoice, LoseAnswer
<1>4. ASSUME NEW m \in Numbers, SaveSent(m) \/ SyncPayment(m)
      PROVE  rows'[n].status = rows[n].status \/ (rows'[n].status = "sent" /\ n \in sweep.mailed)
  <2>1. CASE SaveSent(m)
    BY <1>0, <2>1 DEF SaveSent, InvoiceRow
  <2>2. CASE SyncPayment(m)
    BY <1>0, <2>2 DEF SyncPayment, InvoiceRow
  <2> QED BY <1>4, <2>1, <2>2
<1>5. ASSUME NEW r \in Records, CancelSelected(r) PROVE rows'[n].status = rows[n].status
  <2>1. [rows[n] EXCEPT !.cancelled = TRUE,
           !.cancellation = IF Planned(r, n[2]) = {"local"} THEN @ ELSE "pending"].status = rows[n].status
    BY DEF InvoiceRow
  <2> QED BY <1>5, <2>1 DEF CancelSelected
<1>6. CASE CancelStep
  <2>1. rows'[n].status = rows[n].status
    BY <1>0, <1>6 DEF CancelStep, RunCancel, CancelFails, InvoiceRow
  <2> QED BY <2>1
<1>7. CASE UNCHANGED rows
  BY <1>7
<1>8. \/ UNCHANGED rows \/ CancelStep
      \/ \E r \in Records : CancelSelected(r)
      \/ \E m \in Numbers : SaveSent(m) \/ SyncPayment(m)
      \/ \E j \in Jobs, s \in Installments : Failing(j, s)
      \/ \E j \in Jobs : CreateRow(j) \/ SaveRow(j)
  BY DEF Failing, Next, Confirm, OpenForm, SaveForm, SelectInvoices, Enqueue, PushStep,
         Load, MarkSynced, MarkPending, EnsureSucceeds, EnsureFails, ReadRows,
         CreateRowCollides, RowsCreated, CreateInvoice, RecoverInvoice,
         RollUp, Die, SweepStep, SweepDies, StartSweep, EndSweep, EmailInvoice, EmailFails, Pay
<1> QED BY <1>1, <1>2, <1>3, <1>4, <1>5, <1>6, <1>7, <1>8

\* Rows are cancelled by the discontinuation's commit alone, as it planned.
LEMMA CancelledKinds ==
    ASSUME LedgerInv, Next, NEW n \in Numbers, rows'[n].cancelled, ~rows[n].cancelled
    PROVE  CancelSelected(n[1]) /\ n[1] \in Records /\ Planned(n[1], n[2]) # {}
<1> USE DEF LedgerInv, TypeOK
<1>0. \A m \in Numbers : rows[m] \in InvoiceRow
  OBVIOUS
<1>1. ASSUME NEW j \in Jobs, CreateRow(j) \/ SaveRow(j) PROVE rows'[n].cancelled = rows[n].cancelled
  <2>1. CASE CreateRow(j)
    BY <1>0, <2>1 DEF CreateRow, InvoiceRow
  <2>2. CASE SaveRow(j)
    BY <1>0, <2>2 DEF SaveRow, InvoiceRow
  <2> QED BY <1>1, <2>1, <2>2
<1>2. ASSUME NEW j \in Jobs, NEW s \in Installments, Failing(j, s)
      PROVE  rows'[n].cancelled = rows[n].cancelled
  <2>1. rows' = [rows EXCEPT ![<<Rec(j), s>>].status = "failed"]
    BY <1>2 DEF Failing, RefuseInvoice, LoseAnswer
  <2> QED BY <1>0, <2>1 DEF InvoiceRow
<1>3. ASSUME NEW m \in Numbers, SaveSent(m) \/ SyncPayment(m)
      PROVE  rows'[n].cancelled = rows[n].cancelled
  <2>1. CASE SaveSent(m)
    BY <1>0, <2>1 DEF SaveSent, InvoiceRow
  <2>2. CASE SyncPayment(m)
    BY <1>0, <2>2 DEF SyncPayment, InvoiceRow
  <2> QED BY <1>3, <2>1, <2>2
<1>4. ASSUME NEW r \in Records, CancelSelected(r) PROVE n[1] = r /\ Planned(r, n[2]) # {}
  BY <1>4 DEF CancelSelected
<1>5. ASSUME CancelStep PROVE rows'[n].cancelled = rows[n].cancelled
  BY <1>0, <1>5 DEF CancelStep, RunCancel, CancelFails, InvoiceRow
<1>6. \/ UNCHANGED rows \/ CancelStep
      \/ \E r \in Records : CancelSelected(r)
      \/ \E m \in Numbers : SaveSent(m) \/ SyncPayment(m)
      \/ \E j \in Jobs, s \in Installments : Failing(j, s)
      \/ \E j \in Jobs : CreateRow(j) \/ SaveRow(j)
  BY DEF Failing, Next, Confirm, OpenForm, SaveForm, SelectInvoices, Enqueue, PushStep,
         Load, MarkSynced, MarkPending, EnsureSucceeds, EnsureFails, ReadRows,
         CreateRowCollides, RowsCreated, CreateInvoice, RecoverInvoice,
         RollUp, Die, SweepStep, SweepDies, StartSweep, EndSweep, EmailInvoice, EmailFails, Pay
<1> QED BY <1>1, <1>2, <1>3, <1>4, <1>5, <1>6

\* A selection is read at once, kept as it is, and dropped when it is carried out.
LEMMA SelectionReads ==
    ASSUME LedgerInv, NEW r \in Records, SelectInvoices(r)
    PROVE  /\ rows' = rows /\ leave'[r].state = "read"
           /\ \A p \in leave'[r].plan : p[1] \in RowsOf(r) /\ ~rows[<<r, p[1]>>].paid
<1>1. PICK sel \in SUBSET RowsOf(r) :
         leave' = [leave EXCEPT ![r] =
                     [state |-> "read",
                      plan |-> {c \in sel \X Action : c[2] \in ActionFor(<<r, c[1]>>)}]]
  BY DEF SelectInvoices
<1>2. leave'[r] = [state |-> "read",
                   plan |-> {c \in sel \X Action : c[2] \in ActionFor(<<r, c[1]>>)}]
  BY <1>1 DEF LedgerInv, TypeOK
<1>3. ASSUME NEW p \in leave'[r].plan PROVE p[1] \in RowsOf(r) /\ ~rows[<<r, p[1]>>].paid
  <2>1. p \in sel \X Action /\ p[2] \in ActionFor(<<r, p[1]>>)
    BY <1>2
  <2>2. p[1] \in RowsOf(r)
    BY <2>1
  <2>3. ~rows[<<r, p[1]>>].paid
    BY <2>1 DEF ActionFor
  <2> QED BY <2>2, <2>3
<1> QED BY <1>2, <1>3 DEF SelectInvoices

LEMMA LeaveKinds ==
    ASSUME LedgerInv, Next, NEW r \in Records
    PROVE  leave'[r] = leave[r] \/ leave'[r].plan = {} \/ SelectInvoices(r)
<1> USE DEF LedgerInv, TypeOK
<1>1. ASSUME NEW q \in Records, SelectInvoices(q), q # r PROVE leave'[r] = leave[r]
  BY <1>1 DEF SelectInvoices
<1>2. ASSUME NEW q \in Records, CancelSelected(q)
      PROVE  leave'[r] = leave[r] \/ leave'[r].plan = {}
  <2>1. leave' = [leave EXCEPT ![q] = [state |-> "closed", plan |-> {}]]
    BY <1>2 DEF CancelSelected
  <2>2. q # r => leave'[r] = leave[r]
    BY <2>1
  <2>3. q = r => leave'[r].plan = {}
    BY <2>1
  <2> QED BY <2>2, <2>3
<1>3. \/ UNCHANGED leave
      \/ \E q \in Records : SelectInvoices(q) \/ CancelSelected(q)
  BY DEF Next, Confirm, OpenForm, SaveForm, Enqueue, PushStep, Load, MarkSynced,
         MarkPending, EnsureSucceeds, EnsureFails, ReadRows, CreateRow, CreateRowCollides,
         RowsCreated, CreateInvoice, RecoverInvoice, RefuseInvoice, LoseAnswer, SaveRow, RollUp,
         Die, SweepStep, SweepDies, StartSweep, EndSweep, EmailInvoice, EmailFails,
         SaveSent, CancelStep, RunCancel, CancelFails, Pay, SyncPayment
<1> QED BY <1>1, <1>2, <1>3

LEMMA RowsOnlyGrow ==
    ASSUME LedgerInv, Next, NEW r \in Records
    PROVE  /\ RowsOf(r) \subseteq RowsOf(r)'
           /\ RowsOf(r)' = RowsOf(r) \/ \E j \in Jobs : CreateRow(j) /\ Rec(j) = r
<1>1. ASSUME NEW s \in Installments
      PROVE  /\ rows[<<r, s>>].exists => rows'[<<r, s>>].exists
             /\ \/ rows'[<<r, s>>].exists = rows[<<r, s>>].exists
                \/ \E j \in Jobs : CreateRow(j) /\ Rec(j) = r
  <2>1. PICK n \in Numbers : n = <<r, s>>
    BY DEF Numbers
  <2>2. ASSUME NEW j \in Jobs, CreateRow(j), n = Cur(j) PROVE ~rows[n].exists /\ Rec(j) = r
    BY <2>1, <2>2 DEF CreateRow, Cur, Rec
  <2> QED BY <2>1, <2>2, RowsAppear
<1> QED BY <1>1 DEF RowsOf

\* The sweep's rows become fewer, or are read anew.
LEMMA SweepKinds ==
    ASSUME LedgerInv, Next
    PROVE  InSweep' \subseteq InSweep \/ InSweep' \subseteq {n \in Numbers : Sendable(n)}
<1> USE DEF LedgerInv, TypeOK
<1>0. sweep \in Sweep
  OBVIOUS
<1>1. CASE StartSweep
  <2>1. PICK due \in SUBSET {n \in Numbers : Sendable(n)} :
           sweep' = [on |-> TRUE, todo |-> due, mailed |-> {}]
    BY <1>1 DEF StartSweep
  <2> QED BY <2>1 DEF InSweep
<1>2. CASE EndSweep \/ SweepDies
  BY <1>0, <1>2 DEF EndSweep, SweepDies, Sweep, InSweep
<1>3. ASSUME NEW n \in Numbers, EmailInvoice(n) \/ EmailFails(n) \/ SaveSent(n)
      PROVE  InSweep' \subseteq InSweep
  <2>1. CASE EmailInvoice(n) \/ EmailFails(n)
    <3>1. n \in sweep.todo /\ sweep'.todo \subseteq sweep.todo
      BY <1>0, <2>1 DEF EmailInvoice, EmailFails, Sweep
    <3>2. sweep'.mailed \subseteq sweep.mailed \cup {n}
      BY <1>0, <2>1 DEF EmailInvoice, EmailFails, Sweep
    <3> QED BY <3>1, <3>2 DEF InSweep
  <2>2. CASE SaveSent(n)
    <3>1. sweep'.mailed = {} /\ sweep'.todo = sweep.todo
      BY <1>0, <2>2 DEF SaveSent, Sweep
    <3> QED BY <3>1 DEF InSweep
  <2> QED BY <1>3, <2>1, <2>2
<1>4. UNCHANGED sweep \/ SweepStep \/ SweepDies
  BY DEF Next, Confirm, OpenForm, SaveForm, SelectInvoices, CancelSelected, Enqueue, PushStep,
         Load, MarkSynced, MarkPending, EnsureSucceeds, EnsureFails, ReadRows, CreateRow,
         CreateRowCollides, RowsCreated, CreateInvoice, RecoverInvoice, RefuseInvoice, LoseAnswer,
         SaveRow, RollUp, Die, CancelStep, RunCancel, CancelFails, Pay, SyncPayment
<1> QED BY <1>1, <1>2, <1>3, <1>4 DEF SweepStep, InSweep

\* What a job has ahead of it, it had before or has just read.
LEMMA AheadKinds ==
    ASSUME LedgerInv, NEW j \in Jobs, PushStep(j) \/ Die(j), NEW s \in Ahead(j)'
    PROVE  /\ Rec(j)' = Rec(j)
           /\ \/ s \in Ahead(j)
              \/ s \in Unpushed(Rec(j))
              \/ s \in Installments /\ RowsOf(Rec(j)) = {}
<1> USE DEF LedgerInv, TypeOK
<1>0. /\ jobs[j] \in Job /\ Rec(j) \in Records
      /\ jobs[j].todo \subseteq Installments
  BY DEF Rec, Job
<1>1. /\ Finish(j).pc = "free" /\ Raised(j).pc \in {"free", "queued"}
      /\ Redeliver(j, jobs[j].attempts).pc = "queued"
  BY <1>0, FreeJobType, RaisedType DEF Finish, Redeliver, JobAt
<1>2. jobs'[j].pc \in {"create", "push", "save"}
  BY DEF Ahead
<1>3. CASE Load(j)
  <2>1. jobs'[j].pc \in {"free", "loaded"}
    BY <1>0, <1>1, <1>3 DEF Load, Job
  <2> QED BY <1>2, <2>1
<1>4. CASE MarkPending(j) \/ EnsureSucceeds(j)
  <2>1. jobs'[j].pc \in {"ensure", "rows"}
    BY <1>0, <1>4 DEF MarkPending, EnsureSucceeds, Job
  <2> QED BY <1>2, <2>1
<1>5. CASE \/ MarkSynced(j) \/ RollUp(j) \/ CreateRowCollides(j) \/ EnsureFails(j) \/ Die(j)
           \/ \E t \in Installments : LoseAnswer(j, t)
  <2>1. jobs'[j].pc \in {"free", "queued"}
    BY <1>0, <1>1, <1>5 DEF MarkSynced, RollUp, CreateRowCollides, EnsureFails, Die, LoseAnswer
  <2> QED BY <1>2, <2>1
<1>6. CASE ReadRows(j)
  <2>1. jobs'[j].rec = jobs[j].rec
    BY <1>0, <1>6 DEF ReadRows, Job
  <2>2. \/ jobs'[j].pc = "push" /\ jobs'[j].todo = Unpushed(Rec(j))
        \/ jobs'[j].pc = "create" /\ RowsOf(Rec(j)) = {}
    BY <1>0, <1>6 DEF ReadRows, Job
  <2> QED BY <2>1, <2>2 DEF Ahead, Rec
<1>7. CASE CreateRow(j)
  <2>1. jobs'[j].rec = jobs[j].rec /\ jobs'[j].pc = "create" /\ jobs[j].pc = "create"
    BY <1>0, <1>7 DEF CreateRow, Job
  <2> QED BY <2>1 DEF Ahead, Rec
<1>8. CASE RowsCreated(j)
  <2>1. /\ jobs'[j].rec = jobs[j].rec /\ jobs'[j].pc = "push" /\ jobs'[j].todo = Installments
        /\ jobs[j].pc = "create"
    BY <1>0, <1>8 DEF RowsCreated, Job
  <2> QED BY <2>1 DEF Ahead, Rec
<1>9. ASSUME NEW t \in Installments, NEW i \in InvoiceIds, Turn(j, t), Got(j, t, i)
      PROVE  Rec(j)' = Rec(j) /\ s \in Ahead(j)
  <2>1. /\ jobs'[j].todo = jobs[j].todo \ {t} /\ jobs'[j].pc = "save" /\ jobs'[j].at = t
        /\ jobs'[j].rec = jobs[j].rec
    BY <1>0, <1>9 DEF Got, Job
  <2>2. jobs[j].pc = "push" /\ t \in jobs[j].todo
    BY <1>9 DEF Turn
  <2> QED BY <2>1, <2>2 DEF Ahead, Rec
<1>10. ASSUME NEW t \in Installments, RefuseInvoice(j, t) PROVE Rec(j)' = Rec(j) /\ s \in Ahead(j)
  <2>1. /\ jobs'[j].todo = jobs[j].todo \ {t} /\ jobs'[j].pc = "push" /\ jobs'[j].rec = jobs[j].rec
        /\ jobs[j].pc = "push"
    BY <1>0, <1>10 DEF RefuseInvoice, Turn, Job
  <2> QED BY <2>1 DEF Ahead, Rec
<1>11. CASE SaveRow(j)
  <2>1. /\ jobs'[j].todo = jobs[j].todo /\ jobs'[j].pc = "push" /\ jobs'[j].rec = jobs[j].rec
        /\ jobs[j].pc = "save"
    BY <1>0, <1>11 DEF SaveRow, Job
  <2> QED BY <2>1 DEF Ahead, Rec
<1> QED BY <1>3, <1>4, <1>5, <1>6, <1>7, <1>8, <1>9, <1>10, <1>11
        DEF PushStep, CreateInvoice, RecoverInvoice, ActiveFor

-----------------------------------------------------------------------------
(* Settled rows are left alone *)

\* The installments whose rows a job has seen, or has made.
Walked(j) ==
    IF jobs[j].pc = "create" THEN {s \in Installments : s < jobs[j].at} ELSE Ahead(j)

WalkedExist == \A j \in Jobs : Walked(j) \subseteq RowsOf(Rec(j))

BookedExist == \A n \in Numbers : rows[n].ext # NoId => rows[n].exists

CancelledExist == \A n \in Numbers : rows[n].cancelled => rows[n].exists

PlannedExist == \A r \in Records : \A p \in leave[r].plan : p[1] \in RowsOf(r)

RowsInv == WalkedExist /\ BookedExist /\ CancelledExist /\ PlannedExist

\* What a job has seen, it had seen before, has just read, or has just inserted.
LEMMA WalkKinds ==
    ASSUME LedgerInv, NEW j \in Jobs, PushStep(j) \/ Die(j), NEW s \in Walked(j)'
    PROVE  /\ Rec(j)' = Rec(j)
           /\ \/ s \in Walked(j)
              \/ s \in RowsOf(Rec(j))
              \/ CreateRow(j) /\ s = jobs[j].at
<1> USE DEF LedgerInv, TypeOK
<1>0. /\ jobs[j] \in Job /\ Rec(j) \in Records
      /\ jobs[j].todo \subseteq Installments
  BY DEF Rec, Job
<1>1. /\ Finish(j).pc = "free" /\ Raised(j).pc \in {"free", "queued"}
      /\ Redeliver(j, jobs[j].attempts).pc = "queued"
  BY <1>0, FreeJobType, RaisedType DEF Finish, Redeliver, JobAt
<1>2. jobs'[j].pc \in {"create", "push", "save"}
  BY DEF Walked, Ahead
<1>3. CASE Load(j)
  <2>1. jobs'[j].pc \in {"free", "loaded"}
    BY <1>0, <1>1, <1>3 DEF Load, Job
  <2> QED BY <1>2, <2>1
<1>4. CASE MarkPending(j) \/ EnsureSucceeds(j)
  <2>1. jobs'[j].pc \in {"ensure", "rows"}
    BY <1>0, <1>4 DEF MarkPending, EnsureSucceeds, Job
  <2> QED BY <1>2, <2>1
<1>5. CASE \/ MarkSynced(j) \/ RollUp(j) \/ CreateRowCollides(j) \/ EnsureFails(j) \/ Die(j)
           \/ \E t \in Installments : LoseAnswer(j, t)
  <2>1. jobs'[j].pc \in {"free", "queued"}
    BY <1>0, <1>1, <1>5 DEF MarkSynced, RollUp, CreateRowCollides, EnsureFails, Die, LoseAnswer
  <2> QED BY <1>2, <2>1
<1>6. CASE ReadRows(j)
  <2>1. jobs'[j].rec = jobs[j].rec
    BY <1>0, <1>6 DEF ReadRows, Job
  <2>2. \/ jobs'[j].pc = "push" /\ jobs'[j].todo = Unpushed(Rec(j))
        \/ jobs'[j].pc = "create" /\ jobs'[j].at = 1
    BY <1>0, <1>6 DEF ReadRows, Job
  <2>3. \A t \in Installments : ~(t < 1)
    BY DEF Installments
  <2> QED BY <2>1, <2>2, <2>3 DEF Walked, Ahead, Rec, Unpushed
<1>7. CASE CreateRow(j)
  <2>1. /\ jobs'[j].rec = jobs[j].rec /\ jobs'[j].pc = "create" /\ jobs[j].pc = "create"
        /\ jobs'[j].at = jobs[j].at + 1 /\ jobs[j].at \in Installments
    BY <1>0, <1>7 DEF CreateRow, Job
  <2>2. s \in Installments /\ s < jobs[j].at + 1
    BY <2>1 DEF Walked
  <2>3. s < jobs[j].at \/ s = jobs[j].at
    BY <2>1, <2>2 DEF Installments
  <2> QED BY <1>7, <2>1, <2>2, <2>3 DEF Walked, Rec
<1>8. CASE RowsCreated(j)
  <2>1. /\ jobs'[j].rec = jobs[j].rec /\ jobs'[j].pc = "push" /\ jobs'[j].todo = Installments
        /\ jobs[j].pc = "create" /\ jobs[j].at \notin Installments
        /\ jobs[j].at \in 1 .. (NumInstallments + 1)
    BY <1>0, <1>8 DEF RowsCreated, Job
  <2>2. \A t \in Installments : t < jobs[j].at
    BY <2>1 DEF Installments
  <2> QED BY <2>1, <2>2 DEF Walked, Ahead, Rec
<1>9. ASSUME NEW t \in Installments, NEW i \in InvoiceIds, Turn(j, t), Got(j, t, i)
      PROVE  Rec(j)' = Rec(j) /\ s \in Walked(j)
  <2>1. /\ jobs'[j].todo = jobs[j].todo \ {t} /\ jobs'[j].pc = "save" /\ jobs'[j].at = t
        /\ jobs'[j].rec = jobs[j].rec
    BY <1>0, <1>9 DEF Got, Job
  <2>2. jobs[j].pc = "push" /\ t \in jobs[j].todo
    BY <1>9 DEF Turn
  <2> QED BY <2>1, <2>2 DEF Walked, Ahead, Rec
<1>10. ASSUME NEW t \in Installments, RefuseInvoice(j, t) PROVE Rec(j)' = Rec(j) /\ s \in Walked(j)
  <2>1. /\ jobs'[j].todo = jobs[j].todo \ {t} /\ jobs'[j].pc = "push" /\ jobs'[j].rec = jobs[j].rec
        /\ jobs[j].pc = "push"
    BY <1>0, <1>10 DEF RefuseInvoice, Turn, Job
  <2> QED BY <2>1 DEF Walked, Ahead, Rec
<1>11. CASE SaveRow(j)
  <2>1. /\ jobs'[j].todo = jobs[j].todo /\ jobs'[j].pc = "push" /\ jobs'[j].rec = jobs[j].rec
        /\ jobs[j].pc = "save"
    BY <1>0, <1>11 DEF SaveRow, Job
  <2> QED BY <2>1 DEF Walked, Ahead, Rec
<1> QED BY <1>3, <1>4, <1>5, <1>6, <1>7, <1>8, <1>9, <1>10, <1>11
        DEF PushStep, CreateInvoice, RecoverInvoice, ActiveFor

LEMMA StepKeepsWalked ==
    ASSUME LedgerInv, WalkedExist, Next
    PROVE  WalkedExist'
<1> USE DEF LedgerInv, TypeOK
<1> SUFFICES ASSUME NEW j \in Jobs, NEW s \in Walked(j)' PROVE s \in RowsOf(Rec(j))'
  BY DEF WalkedExist
<1>0. jobs[j] \in Job /\ Rec(j) \in Records
  BY DEF Rec, Job
<1>1. CASE jobs'[j] = jobs[j]
  <2>1. Rec(j)' = Rec(j) /\ s \in Walked(j)
    BY <1>1 DEF Rec, Walked, Ahead
  <2>2. s \in RowsOf(Rec(j))
    BY <2>1 DEF WalkedExist
  <2>3. PICK r \in Records : r = Rec(j)
    BY <1>0
  <2>4. s \in RowsOf(r)'
    BY <2>2, <2>3, RowsOnlyGrow
  <2> QED BY <2>1, <2>3, <2>4 DEF RowsOf
<1>2. ASSUME NEW r \in Records, Enqueue(r, j) PROVE FALSE
  <2>1. jobs'[j].pc = "queued"
    BY <1>2 DEF Enqueue, JobAt
  <2> QED BY <2>1 DEF Walked, Ahead
<1>3. CASE PushStep(j) \/ Die(j)
  <2>1. /\ Rec(j)' = Rec(j)
        /\ \/ s \in Walked(j)
           \/ s \in RowsOf(Rec(j))
           \/ CreateRow(j) /\ s = jobs[j].at
    BY <1>3, WalkKinds
  <2>2. CASE s \in RowsOf(Rec(j))
    <3>1. PICK r \in Records : r = Rec(j)
      BY <1>0
    <3>2. s \in RowsOf(r)'
      BY <2>2, <3>1, RowsOnlyGrow
    <3> QED BY <2>1, <3>1, <3>2 DEF RowsOf
  <2>3. CASE s \in Walked(j)
    BY <2>2, <2>3 DEF WalkedExist
  <2>4. CASE CreateRow(j) /\ s = jobs[j].at
    <3>1. s \in Installments /\ Cur(j) = <<Rec(j), s>> /\ Cur(j) \in Numbers
      BY <1>0, <2>4 DEF CreateRow, Cur, Rec, Numbers
    <3>2. rows'[<<Rec(j), s>>].exists
      BY <2>4, <3>1 DEF CreateRow, InvoiceRow
    <3> QED BY <2>1, <3>1, <3>2 DEF RowsOf
  <2> QED BY <2>1, <2>2, <2>3, <2>4
<1> QED BY <1>1, <1>2, <1>3, JobKinds

\* A row stays.
LEMMA RowsStay ==
    ASSUME LedgerInv, Next, NEW n \in Numbers, rows[n].exists
    PROVE  rows'[n].exists
BY RowsAppear DEF CreateRow

\* A row a job writes to is one it has seen.
LEMMA SavedExists ==
    ASSUME LedgerInv, WalkedExist, NEW j \in Jobs, SaveRow(j)
    PROVE  rows[Cur(j)].exists /\ jobs[j].at \in Ahead(j)
<1>1. jobs[j].at \in Walked(j) /\ jobs[j].at \in Ahead(j)
  BY DEF SaveRow, Walked, Ahead
<1>2. jobs[j].at \in RowsOf(Rec(j))
  BY <1>1 DEF WalkedExist
<1> QED BY <1>1, <1>2 DEF RowsOf, Cur, Rec

LEMMA StepKeepsRows ==
    ASSUME LedgerInv, RowsInv, [Next]_vars
    PROVE  RowsInv'
<1>1. CASE UNCHANGED vars
  BY <1>1 DEF vars, RowsInv, WalkedExist, BookedExist, CancelledExist, PlannedExist, Walked,
              Ahead, Rec, RowsOf
<1>2. CASE Next
  <2> USE <1>2 DEF RowsInv
  <2>1. WalkedExist'
    BY StepKeepsWalked
  <2>2. ASSUME NEW n \in Numbers, rows'[n].ext # NoId PROVE rows'[n].exists
    <3>1. CASE rows[n].ext # NoId
      BY <3>1, RowsStay DEF BookedExist
    <3>2. ASSUME NEW j \in Jobs, SaveRow(j), n = Cur(j) PROVE rows'[n].exists
      BY <3>2, SavedExists, RowsStay
    <3> QED BY <2>2, <3>1, <3>2, ExtKinds
  <2>3. ASSUME NEW r \in Records, NEW p \in leave'[r].plan PROVE p[1] \in RowsOf(r)'
    <3>1. p[1] \in RowsOf(r)
      BY <2>3, LeaveKinds, SelectionReads DEF PlannedExist
    <3> QED BY <3>1, RowsOnlyGrow
  <2>4. ASSUME NEW n \in Numbers, rows'[n].cancelled PROVE rows'[n].exists
    <3>1. CASE rows[n].cancelled
      BY <3>1, RowsStay DEF CancelledExist
    <3>2. CASE ~rows[n].cancelled
      <4>1. CancelSelected(n[1]) /\ n[1] \in Records /\ Planned(n[1], n[2]) # {}
        BY <2>4, <3>2, CancelledKinds
      <4>2. PICK a \in Action : <<n[2], a>> \in leave[n[1]].plan
        BY <4>1 DEF Planned
      <4>3. n[2] \in RowsOf(n[1]) /\ n = <<n[1], n[2]>>
        BY <4>1, <4>2 DEF PlannedExist, Numbers
      <4> QED BY <4>3, RowsStay DEF RowsOf
    <3> QED BY <3>1, <3>2
  <2> QED BY <2>1, <2>2, <2>3, <2>4 DEF BookedExist, CancelledExist, PlannedExist
<1> QED BY <1>1, <1>2

LEMMA InitRows == Init => RowsInv
<1> SUFFICES ASSUME Init PROVE RowsInv
  OBVIOUS
<1>1. WalkedExist
  BY FreeJobType DEF Init, WalkedExist, Walked, Ahead
<1>2. BookedExist /\ CancelledExist /\ PlannedExist
  BY DEF Init, NoRow, BookedExist, CancelledExist, PlannedExist
<1> QED BY <1>1, <1>2 DEF RowsInv

\* A settled row no push has read is not taken up by the next step.
LEMMA SettledNotTaken ==
    ASSUME LedgerInv, RowsInv, Next, NEW n \in Numbers, Settled(n), n \notin InPush
    PROVE  n \notin InPush'
<1> USE DEF LedgerInv, TypeOK
<1>0. rows[n].exists /\ n = <<n[1], n[2]>> /\ n[1] \in Records /\ n[2] \in Installments
  BY DEF Settled, RowsInv, BookedExist, CancelledExist, Numbers
<1> SUFFICES ASSUME NEW j \in Jobs, Rec(j)' = n[1], n[2] \in Ahead(j)'
             PROVE  FALSE
  BY DEF InPush
<1>1. CASE jobs'[j] = jobs[j]
  <2>1. Rec(j) = n[1] /\ n[2] \in Ahead(j)
    BY <1>1 DEF Rec, Ahead
  <2> QED BY <2>1 DEF InPush
<1>2. ASSUME NEW r \in Records, Enqueue(r, j) PROVE FALSE
  <2>1. jobs'[j].pc = "queued"
    BY <1>2 DEF Enqueue, JobAt
  <2> QED BY <2>1 DEF Ahead
<1>3. CASE PushStep(j) \/ Die(j)
  <2>1. /\ Rec(j) = n[1]
        /\ \/ n[2] \in Ahead(j)
           \/ n[2] \in Unpushed(Rec(j))
           \/ RowsOf(Rec(j)) = {}
    BY <1>3, AheadKinds
  <2>2. n[2] \notin Ahead(j)
    BY <2>1 DEF InPush
  <2>3. n[2] \notin Unpushed(Rec(j))
    BY <1>0, <2>1 DEF Unpushed, Settled
  <2>4. n[2] \in RowsOf(Rec(j))
    BY <1>0, <2>1 DEF RowsOf
  <2> QED BY <2>1, <2>2, <2>3, <2>4
<1> QED BY <1>1, <1>2, <1>3, JobKinds

\* Whatever the workers, the sweep, the forms and the office do, crash or not:
\* a settled row is written to by the pushes and the sweep that had read it
\* before, and by no later one. What is left to the overlap is exactly what the
\* ones under way hold.
THEOREM SettledStaysOut == Spec => SettledLeftAlone
<1>1. LedgerInv /\ RowsInv /\ [Next]_vars => RowsInv'
  BY StepKeepsRows
<1>2. LedgerInv /\ RowsInv /\ [Next]_vars =>
        [\A n \in Numbers :
           /\ Settled(n) /\ n \notin InPush =>
                /\ n \notin InPush'
                /\ rows'[n].ext = rows[n].ext
                /\ rows'[n].status # rows[n].status => rows'[n].status = "sent" /\ n \in InSweep
           /\ rows[n].cancelled /\ n \notin InSweep => n \notin InSweep']_vars
  <2> SUFFICES ASSUME LedgerInv, RowsInv, Next, NEW n \in Numbers
               PROVE  /\ Settled(n) /\ n \notin InPush =>
                           /\ n \notin InPush'
                           /\ rows'[n].ext = rows[n].ext
                           /\ rows'[n].status # rows[n].status =>
                                rows'[n].status = "sent" /\ n \in InSweep
                      /\ rows[n].cancelled /\ n \notin InSweep => n \notin InSweep'
    OBVIOUS
  <2>1. ASSUME Settled(n), n \notin InPush
        PROVE  /\ n \notin InPush'
               /\ rows'[n].ext = rows[n].ext
               /\ rows'[n].status # rows[n].status => rows'[n].status = "sent" /\ n \in InSweep
    <3>1. ASSUME NEW j \in Jobs, SaveRow(j), n = Cur(j) PROVE FALSE
      <4>1. jobs[j].at \in Ahead(j)
        BY <3>1, SavedExists DEF RowsInv
      <4> QED BY <2>1, <3>1, <4>1 DEF InPush, Cur, Rec
    <3>2. ASSUME NEW j \in Jobs, NEW s \in Installments, Failing(j, s), n = <<Rec(j), s>>
          PROVE  FALSE
      <4>1. s \in Ahead(j)
        BY <3>2 DEF Failing, RefuseInvoice, LoseAnswer, Turn, Ahead
      <4> QED BY <2>1, <3>2, <4>1 DEF InPush, Rec
    <3>3. rows'[n].ext = rows[n].ext
      BY <3>1, ExtKinds
    <3>4. rows'[n].status # rows[n].status => rows'[n].status = "sent" /\ n \in InSweep
      BY <3>1, <3>2, StatusKinds DEF InSweep
    <3> QED BY <2>1, <3>3, <3>4, SettledNotTaken
  <2>2. ASSUME rows[n].cancelled, n \notin InSweep PROVE n \notin InSweep'
    BY <2>2, SweepKinds DEF Sendable
  <2> QED BY <2>1, <2>2
<1> QED BY <1>1, <1>2, InitRows, LedgerSafe, PTL DEF Spec, SettledLeftAlone

-----------------------------------------------------------------------------
(* Who ends a pending record *)

\* Without a change form, a confirmed record stays confirmed, and only a push
\* or its request makes one pending.
LEMMA PendingKinds ==
    ASSUME LedgerInv, Next, NEW r \in Records, ~SaveForm(r)
    PROVE  /\ record[r].status = "confirmed" => record'[r].status = "confirmed"
           /\ record'[r].ext = "pending" /\ record[r].ext # "pending" =>
                \E j \in Jobs : Enqueue(r, j) \/ (MarkPending(j) /\ Rec(j) = r)
<1> USE DEF LedgerInv, TypeOK
<1>0. record[r] \in RecordRow
  OBVIOUS
<1>1. ASSUME NEW q \in Records, Confirm(q)
      PROVE  /\ record[r].status = "confirmed" => record'[r].status = "confirmed"
             /\ record'[r].ext = record[r].ext
  BY <1>0, <1>1 DEF Confirm, RecordRow
<1>2. ASSUME NEW q \in Records, NEW j \in Jobs, Enqueue(q, j)
      PROVE  /\ record[r].status = "confirmed" => record'[r].status = "confirmed"
             /\ q = r \/ record'[r].ext = record[r].ext
  BY <1>0, <1>2 DEF Enqueue, RecordRow
<1>3. ASSUME NEW j \in Jobs, NEW v \in {"pending", "synced", "failed"},
             record' = [record EXCEPT ![Rec(j)].ext = v]
      PROVE  /\ record'[r].status = record[r].status
             /\ record'[r].ext \in {v, record[r].ext}
             /\ Rec(j) = r \/ record'[r].ext = record[r].ext
  BY <1>0, <1>3 DEF RecordRow
<1>4. ASSUME NEW j \in Jobs,
             \/ MarkSynced(j) \/ EnsureFails(j) \/ RollUp(j)
             \/ \E s \in Installments : LoseAnswer(j, s)
      PROVE  \E v \in {"synced", "failed"} : record' = [record EXCEPT ![Rec(j)].ext = v]
  BY <1>4 DEF MarkSynced, EnsureFails, RollUp, LoseAnswer
<1>5. ASSUME NEW j \in Jobs, MarkPending(j) PROVE record' = [record EXCEPT ![Rec(j)].ext = "pending"]
  BY <1>5 DEF MarkPending
<1>6. CASE UNCHANGED record \/ \E q \in Records : SaveForm(q)
  BY <1>6 DEF SaveForm
<1>7. \/ UNCHANGED record \/ \E q \in Records : SaveForm(q)
      \/ \E q \in Records : Confirm(q) \/ \E j \in Jobs : Enqueue(q, j)
      \/ \E j \in Jobs :
            \/ MarkSynced(j) \/ MarkPending(j) \/ EnsureFails(j) \/ RollUp(j)
            \/ \E s \in Installments : LoseAnswer(j, s)
  BY DEF Next, OpenForm, SelectInvoices, CancelSelected, PushStep, Load,
         EnsureSucceeds, ReadRows, CreateRow, CreateRowCollides, RowsCreated, CreateInvoice,
         RecoverInvoice, RefuseInvoice, SaveRow, Die, SweepStep, SweepDies, StartSweep, EndSweep,
         EmailInvoice, EmailFails, SaveSent, CancelStep, RunCancel, CancelFails, Pay, SyncPayment
<1>8. CASE \E q \in Records : Confirm(q) \/ \E j \in Jobs : Enqueue(q, j)
  BY <1>1, <1>2, <1>8
<1>9. CASE \E j \in Jobs : MarkPending(j)
  BY <1>3, <1>5, <1>9
<1>10. CASE \E j \in Jobs :
               \/ MarkSynced(j) \/ EnsureFails(j) \/ RollUp(j)
               \/ \E s \in Installments : LoseAnswer(j, s)
  <2>1. PICK j \in Jobs : \/ MarkSynced(j) \/ EnsureFails(j) \/ RollUp(j)
                          \/ \E s \in Installments : LoseAnswer(j, s)
    BY <1>10
  <2>2. PICK v \in {"synced", "failed"} : record' = [record EXCEPT ![Rec(j)].ext = v]
    BY <1>4, <2>1
  <2> QED BY <1>3, <2>2
<1> QED BY <1>6, <1>7, <1>8, <1>9, <1>10

\* A job that serves its record, unless it dies or collides, goes on serving
\* it until it has written it.
LEMMA StepperServes ==
    ASSUME LedgerInv, NEW r \in Records, NEW j \in Jobs, ServesRecord(j, r), PushStep(j),
           ~CreateRowCollides(j), record[r].ext = "pending", record'[r].ext = "pending"
    PROVE  jobs'[j].pc \notin {"free", "queued"} /\ Rec(j)' = r
<1> USE DEF LedgerInv, TypeOK
<1>0. jobs[j] \in Job /\ Rec(j) = r /\ record[r] \in RecordRow /\ jobs[j].pc # "free"
  BY DEF ServesRecord
<1>1. ~MarkSynced(j) /\ ~EnsureFails(j) /\ ~RollUp(j) /\ \A s \in Installments : ~LoseAnswer(j, s)
  BY <1>0 DEF MarkSynced, EnsureFails, RollUp, LoseAnswer, RecordRow
<1>2. CASE Load(j)
  <2>1. record[Rec(j)].status = "confirmed"
    BY <1>0, <1>2 DEF Load, ServesRecord
  <2> QED BY <1>0, <1>2, <2>1 DEF Load, Job, Rec
<1>3. CASE MarkPending(j) \/ EnsureSucceeds(j)
  BY <1>0, <1>3 DEF MarkPending, EnsureSucceeds, Job, Rec
<1>4. CASE ReadRows(j) \/ CreateRow(j) \/ RowsCreated(j) \/ SaveRow(j)
  <2>1. CASE ReadRows(j)
    BY <1>0, <2>1 DEF ReadRows, Job, Rec
  <2>2. CASE CreateRow(j)
    BY <1>0, <2>2 DEF CreateRow, Job, Rec
  <2>3. CASE RowsCreated(j)
    BY <1>0, <2>3 DEF RowsCreated, Job, Rec
  <2>4. CASE SaveRow(j)
    BY <1>0, <2>4 DEF SaveRow, Job, Rec
  <2> QED BY <1>4, <2>1, <2>2, <2>3, <2>4
<1>5. ASSUME NEW s \in Installments, CreateInvoice(j, s) \/ RecoverInvoice(j, s) \/ RefuseInvoice(j, s)
      PROVE  jobs'[j].pc \in {"push", "save"} /\ Rec(j)' = r
  <2>1. ASSUME NEW i, Got(j, s, i) PROVE jobs'[j].pc = "save" /\ Rec(j)' = r
    BY <1>0, <2>1 DEF Got, Job, Rec
  <2>2. RefuseInvoice(j, s) => jobs'[j].pc = "push" /\ Rec(j)' = r
    BY <1>0 DEF RefuseInvoice, Turn, Job, Rec
  <2> QED BY <1>5, <2>1, <2>2 DEF CreateInvoice, RecoverInvoice
<1> QED BY <1>1, <1>2, <1>3, <1>4, <1>5 DEF PushStep

\* A record that shows as pending has a job on its way to write another status,
\* whatever Invoice Ninja answers and however often the job is redelivered; the
\* three ways to lose it are those named, and no other step of anyone.
THEOREM PendingIsServed == Spec => PendingLeftOnlyBy
<1>1. LedgerInv /\ [Next]_vars =>
        [\A r \in Records : Served(r) /\ ~Served(r)' =>
           \/ SaveForm(r)
           \/ \E j \in Jobs : Rec(j) = r /\ (Die(j) \/ CreateRowCollides(j))]_vars
  <2> SUFFICES ASSUME LedgerInv, Next, NEW r \in Records, Served(r), ~SaveForm(r),
                      \A j \in Jobs : Rec(j) = r => ~Die(j) /\ ~CreateRowCollides(j),
                      record'[r].ext = "pending"
               PROVE  \E j \in Jobs : ServesRecord(j, r)'
    BY DEF Served
  <2>1. CASE record[r].ext = "pending"
    <3>1. PICK j \in Jobs : ServesRecord(j, r)
      BY <2>1 DEF Served
    <3>2. CASE jobs'[j] = jobs[j]
      BY <3>1, <3>2, PendingKinds DEF ServesRecord, Rec
    <3>3. CASE PushStep(j)
      <4>1. ~CreateRowCollides(j)
        BY <3>1 DEF ServesRecord
      <4>2. jobs'[j].pc \notin {"free", "queued"} /\ Rec(j)' = r
        BY <2>1, <3>1, <3>3, <4>1, StepperServes
      <4> QED BY <4>2 DEF ServesRecord
    <3>4. ~Die(j)
      BY <3>1 DEF ServesRecord
    <3>5. ASSUME NEW q \in Records, Enqueue(q, j) PROVE FALSE
      BY <3>1, <3>5 DEF Enqueue, ServesRecord
    <3> QED BY <3>2, <3>3, <3>4, <3>5, JobKinds
  <2>2. CASE record[r].ext # "pending"
    <3>1. PICK j \in Jobs : Enqueue(r, j) \/ (MarkPending(j) /\ Rec(j) = r)
      BY <2>2, PendingKinds
    <3>2. CASE Enqueue(r, j)
      <4>1. jobs'[j].pc = "queued" /\ jobs'[j].rec = r /\ record'[r].status = "confirmed"
        BY <3>2 DEF Enqueue, JobAt, LedgerInv, TypeOK, RecordRow
      <4> QED BY <4>1 DEF ServesRecord, Rec
    <3>3. CASE MarkPending(j) /\ Rec(j) = r
      <4>1. jobs'[j].pc = "ensure" /\ jobs'[j].rec = r
        BY <3>3 DEF MarkPending, LedgerInv, TypeOK, Job, Rec
      <4> QED BY <4>1 DEF ServesRecord, Rec
    <3> QED BY <3>1, <3>2, <3>3
  <2> QED BY <2>1, <2>2
<1> QED BY <1>1, LedgerSafe, PTL DEF Spec, PendingLeftOnlyBy

-----------------------------------------------------------------------------
(* How many steps a job can take *)

\* More than the steps of one delivery: five around the rows, one INSERT for
\* each installment and two steps to push it.
Budget == 3 * NumInstallments + 6

\* The steps the delivery of job b may still take, counted generously.
Stage(b) ==
    IF b.pc = "queued" THEN Budget
    ELSE IF b.pc = "loaded" THEN Budget - 1
    ELSE IF b.pc = "ensure" THEN Budget - 2
    ELSE IF b.pc = "rows" THEN Budget - 3
    ELSE IF b.pc = "create" THEN (NumInstallments + 1 - b.at) + 2 * NumInstallments + 2
    ELSE IF b.pc = "push" THEN 2 * Cardinality(b.todo) + 1
    ELSE 2 * Cardinality(b.todo) + 2

\* And with the deliveries still to come.
Rank(b) ==
    IF b.pc = "free" THEN 0
    ELSE (MaxAttempts - 1 - b.attempts) * Budget + Stage(b)

LEMMA InstallmentsCount ==
    IsFiniteSet(Installments) /\ Cardinality(Installments) = NumInstallments
<1>1. NumInstallments \in Nat /\ 1 \in Int /\ NumInstallments \in Int /\ ~(1 > NumInstallments)
  OBVIOUS
<1>2. /\ IsFiniteSet(1 .. NumInstallments)
      /\ Cardinality(1 .. NumInstallments) = NumInstallments - 1 + 1
  BY <1>1, FS_Interval
<1> QED BY <1>1, <1>2 DEF Installments

LEMMA TodoCount ==
    \A b \in Job : IsFiniteSet(b.todo) /\ Cardinality(b.todo) \in 0 .. NumInstallments
<1> TAKE b \in Job
<1>1. b.todo \in SUBSET Installments
  BY DEF Job
<1>2. IsFiniteSet(b.todo) /\ Cardinality(b.todo) <= NumInstallments
  BY <1>1, InstallmentsCount, FS_Subset
<1>3. Cardinality(b.todo) \in Nat
  BY <1>2, FS_CardinalityType
<1> QED BY <1>2, <1>3

LEMMA StageType == Budget \in Nat /\ \A b \in Job : Stage(b) \in 1 .. Budget
<1>1. Budget \in Nat
  BY DEF Budget
<1>2. ASSUME NEW b \in Job PROVE Stage(b) \in 1 .. Budget
  <2>1. PICK k \in 0 .. NumInstallments : k = Cardinality(b.todo)
    BY TodoCount
  <2>2. PICK at \in 1 .. (NumInstallments + 1) : at = b.at
    BY DEF Job
  <2> QED BY <2>1, <2>2 DEF Stage, Budget
<1> QED BY <1>1, <1>2

\* What is left of the deliveries, in numbers.
LEMMA DeliveriesWeigh ==
    \A b, d \in Nat : d * b \in Nat /\ (d + 1) * b = d * b + b
OBVIOUS

\* The rank of a job with d deliveries left.
LEMMA RankIs ==
    ASSUME NEW b \in Job
    PROVE  \E d \in Nat :
             /\ d = MaxAttempts - 1 - b.attempts
             /\ d * Budget \in Nat
             /\ b.pc # "free" => Rank(b) = d * Budget + Stage(b)
<1>1. MaxAttempts - 1 - b.attempts \in Nat
  BY DEF Job
<1> QED BY <1>1, StageType, DeliveriesWeigh DEF Rank

LEMMA WeightGrows ==
    ASSUME NEW c \in Nat, NEW e \in Nat, NEW w \in Nat
    PROVE  c * w <= (c + e) * w
<1>1. (c + e) * w = c * w + e * w /\ e * w \in Nat /\ c * w \in Nat
  OBVIOUS
<1> QED BY <1>1

LEMMA RankType ==
    \A b \in Job : /\ Rank(b) \in 0 .. (MaxAttempts * Budget)
                   /\ b.pc # "free" => Rank(b) > 0
<1> TAKE b \in Job
<1>1. PICK d \in Nat :
         /\ d = MaxAttempts - 1 - b.attempts
         /\ d * Budget \in Nat
         /\ b.pc # "free" => Rank(b) = d * Budget + Stage(b)
  BY RankIs
<1>2. PICK e \in Nat : e = b.attempts
  BY DEF Job
<1>3. PICK w \in Nat : w = Budget
  BY StageType
<1>4. MaxAttempts = (d + 1) + e
  BY <1>1, <1>2
<1>5. (d + 1) * w <= ((d + 1) + e) * w
  <2>1. d + 1 \in Nat
    OBVIOUS
  <2> QED BY <2>1, WeightGrows
<1>6. (d + 1) * w = d * w + w /\ ((d + 1) + e) * w \in Nat
  BY DeliveriesWeigh
<1>7. PICK x \in Nat : x = d * w
  BY <1>1, <1>3
<1>8. PICK y \in Nat : y = MaxAttempts * w
  BY <1>4, <1>6
<1>9. x + w <= y
  BY <1>4, <1>5, <1>6, <1>7, <1>8
<1>10. PICK s \in 1 .. w : s = Stage(b)
  BY <1>3, StageType
<1>11. CASE b.pc = "free"
  BY <1>3, <1>8, <1>11 DEF Rank
<1>12. CASE b.pc # "free"
  <2>1. Rank(b) = x + s
    BY <1>1, <1>3, <1>7, <1>10, <1>12
  <2>2. x + s \in 0 .. y /\ x + s > 0
    BY <1>9
  <2> QED BY <1>3, <1>8, <2>1, <2>2
<1> QED BY <1>11, <1>12

\* Within a delivery the stage decides.
LEMMA StageLowersRank ==
    \A b, c \in Job :
        /\ b.pc # "free" /\ c.pc # "free"
        /\ c.attempts = b.attempts
        /\ Stage(c) < Stage(b)
        => Rank(c) < Rank(b)
<1> TAKE b, c \in Job
<1> HAVE /\ b.pc # "free" /\ c.pc # "free"
         /\ c.attempts = b.attempts
         /\ Stage(c) < Stage(b)
<1>1. PICK d \in Nat :
         /\ d = MaxAttempts - 1 - b.attempts
         /\ d * Budget \in Nat
         /\ b.pc # "free" => Rank(b) = d * Budget + Stage(b)
  BY RankIs
<1>2. PICK x \in Nat : x = d * Budget
  BY <1>1
<1>3. Rank(c) = x + Stage(c)
  BY <1>1, <1>2 DEF Rank
<1>4. Stage(b) \in Nat /\ Stage(c) \in Nat
  BY StageType
<1> QED BY <1>1, <1>2, <1>3, <1>4

\* A delivery that raises is followed by one with an attempt less, or by none.
LEMMA RaisedLowersRank ==
    ASSUME TypeOK, NEW j \in Jobs, jobs[j].pc # "free"
    PROVE  Rank(Raised(j)) < Rank(jobs[j]) /\ Rank(Finish(j)) < Rank(jobs[j])
<1>1. jobs[j] \in Job /\ Rec(j) \in Records
  BY DEF TypeOK, Job, Rec
<1>2. Rank(Finish(j)) < Rank(jobs[j])
  <2>1. Rank(Finish(j)) = 0
    BY <1>1, FreeJobType DEF Finish, Rank
  <2>2. Rank(jobs[j]) \in Int /\ Rank(jobs[j]) > 0
    BY <1>1, RankType, StageType
  <2> QED BY <2>1, <2>2
<1>3. CASE jobs[j].attempts + 1 < MaxAttempts
  <2>1. PICK b \in Job : b = jobs[j]
    BY <1>1
  <2>2. PICK c \in Job : c = Raised(j)
    BY RaisedType
  <2>3. c.pc = "queued" /\ c.attempts = b.attempts + 1
    BY <1>3, <2>1, <2>2 DEF Raised, Redeliver, JobAt
  <2>4. PICK d \in Nat :
           /\ d = MaxAttempts - 1 - b.attempts
           /\ d * Budget \in Nat
           /\ b.pc # "free" => Rank(b) = d * Budget + Stage(b)
    BY RankIs
  <2>5. PICK f \in Nat :
           /\ f = MaxAttempts - 1 - c.attempts
           /\ f * Budget \in Nat
           /\ c.pc # "free" => Rank(c) = f * Budget + Stage(c)
    BY RankIs
  <2>6. d = f + 1
    <3>1. b.attempts \in Nat
      BY DEF Job
    <3> QED BY <2>3, <2>4, <2>5, <3>1
  <2>7. PICK w \in Nat : w = Budget
    BY StageType
  <2>8. (f + 1) * w = f * w + w
    BY DeliveriesWeigh
  <2>9. PICK x \in Nat : x = f * w
    BY <2>5, <2>7
  <2>10. Rank(c) = x + w
    BY <2>3, <2>5, <2>7, <2>9 DEF Stage
  <2>11. Rank(b) = x + w + Stage(b)
    BY <2>1, <2>4, <2>6, <2>7, <2>8, <2>9
  <2>12. Stage(b) \in Nat /\ Stage(b) >= 1
    BY StageType
  <2>13. Rank(c) < Rank(b)
    BY <2>10, <2>11, <2>12
  <2> QED BY <1>2, <2>1, <2>2, <2>13
<1>4. CASE ~(jobs[j].attempts + 1 < MaxAttempts)
  BY <1>2, <1>4 DEF Raised
<1> QED BY <1>3, <1>4

LEMMA WalkLowersRank ==
    ASSUME TypeOK, TypeOK', NEW j \in Jobs,
           \/ CreateRow(j) \/ RowsCreated(j) \/ SaveRow(j)
           \/ \E s \in Installments :
                CreateInvoice(j, s) \/ RecoverInvoice(j, s) \/ RefuseInvoice(j, s)
    PROVE  Rank(jobs'[j]) < Rank(jobs[j])
<1>1. PICK b \in Job : b = jobs[j]
  BY DEF TypeOK
<1>2. PICK c \in Job : c = jobs'[j]
  BY DEF TypeOK
<1>3. PICK k \in 0 .. NumInstallments : k = Cardinality(b.todo)
  BY TodoCount
<1>4. IsFiniteSet(b.todo)
  BY TodoCount
<1>5. SUFFICES /\ b.pc # "free" /\ c.pc # "free" /\ c.attempts = b.attempts
               /\ Stage(c) < Stage(b)
  BY <1>1, <1>2, StageLowersRank
<1>6. CASE CreateRow(j)
  <2>1. c = [b EXCEPT !.at = @ + 1] /\ b.pc = "create" /\ b.at \in Installments
    BY <1>1, <1>2, <1>6 DEF CreateRow, TypeOK
  <2>2. PICK at \in Nat : at = b.at
    BY <2>1 DEF Installments
  <2>3. c.pc = "create" /\ c.attempts = b.attempts /\ c.at = at + 1
    BY <2>1, <2>2 DEF Job
  <2>4. Stage(c) < Stage(b)
    BY <2>1, <2>2, <2>3 DEF Stage
  <2> QED BY <2>1, <2>3, <2>4
<1>7. CASE RowsCreated(j)
  <2>1. c = [b EXCEPT !.pc = "push", !.todo = Installments, !.at = 1] /\ b.pc = "create"
    BY <1>1, <1>2, <1>7 DEF RowsCreated, TypeOK
  <2>2. PICK at \in 1 .. (NumInstallments + 1) : at = b.at
    BY DEF Job
  <2>3. c.pc = "push" /\ c.attempts = b.attempts /\ c.todo = Installments
    BY <2>1 DEF Job
  <2>4. Stage(c) = 2 * NumInstallments + 1
    BY <2>3, InstallmentsCount DEF Stage
  <2>5. Stage(b) = (NumInstallments + 1 - at) + 2 * NumInstallments + 2
    BY <2>1, <2>2 DEF Stage
  <2>6. Stage(c) < Stage(b)
    BY <2>4, <2>5
  <2> QED BY <2>1, <2>3, <2>6
<1>8. ASSUME NEW s \in Installments, NEW i \in InvoiceIds, Turn(j, s), Got(j, s, i)
      PROVE  b.pc = "push" /\ c.pc = "save" /\ c.attempts = b.attempts /\ Stage(c) < Stage(b)
  <2>1. /\ c = [b EXCEPT !.pc = "save", !.at = s, !.got = i, !.todo = @ \ {s}]
        /\ b.pc = "push" /\ s \in b.todo
    BY <1>1, <1>2, <1>8 DEF Got, Turn, TypeOK
  <2>2. c.pc = "save" /\ c.attempts = b.attempts /\ c.todo = b.todo \ {s}
    BY <2>1 DEF Job
  <2>3. Cardinality(c.todo) = k - 1
    BY <1>3, <1>4, <2>1, <2>2, FS_RemoveElement
  <2>4. Stage(c) < Stage(b)
    BY <1>3, <2>1, <2>2, <2>3 DEF Stage
  <2> QED BY <2>1, <2>2, <2>4
<1>9. ASSUME NEW s \in Installments, RefuseInvoice(j, s)
      PROVE  b.pc = "push" /\ c.pc = "push" /\ c.attempts = b.attempts /\ Stage(c) < Stage(b)
  <2>1. /\ c = [b EXCEPT !.failed = TRUE, !.todo = @ \ {s}]
        /\ b.pc = "push" /\ s \in b.todo
    BY <1>1, <1>2, <1>9 DEF RefuseInvoice, Turn, TypeOK
  <2>2. c.pc = "push" /\ c.attempts = b.attempts /\ c.todo = b.todo \ {s}
    BY <2>1 DEF Job
  <2>3. Cardinality(c.todo) = k - 1
    BY <1>3, <1>4, <2>1, <2>2, FS_RemoveElement
  <2>4. Stage(c) < Stage(b)
    BY <1>3, <2>1, <2>2, <2>3 DEF Stage
  <2> QED BY <2>1, <2>2, <2>4
<1>10. CASE SaveRow(j)
  <2>1. c = [b EXCEPT !.pc = "push", !.got = NoId] /\ b.pc = "save"
    BY <1>1, <1>2, <1>10 DEF SaveRow, TypeOK
  <2>2. c.pc = "push" /\ c.attempts = b.attempts /\ c.todo = b.todo
    BY <2>1 DEF Job
  <2>3. Stage(c) < Stage(b)
    BY <1>3, <2>1, <2>2 DEF Stage
  <2> QED BY <2>1, <2>2, <2>3
<1> QED BY <1>6, <1>7, <1>8, <1>9, <1>10 DEF CreateInvoice, RecoverInvoice, ActiveFor

LEMMA PushStepLowersRank ==
    ASSUME TypeOK, TypeOK', NEW j \in Jobs, PushStep(j)
    PROVE  jobs[j].pc # "free" /\ Rank(jobs'[j]) < Rank(jobs[j])
<1>1. PICK b \in Job : b = jobs[j]
  BY DEF TypeOK
<1>2. PICK c \in Job : c = jobs'[j]
  BY DEF TypeOK
<1>3. CASE \/ MarkSynced(j) \/ RollUp(j) \/ CreateRowCollides(j) \/ EnsureFails(j)
           \/ \E s \in Installments : LoseAnswer(j, s)
  <2>1. jobs[j].pc # "free" /\ (c = Finish(j) \/ c = Raised(j))
    BY <1>2, <1>3 DEF MarkSynced, RollUp, CreateRowCollides, EnsureFails, LoseAnswer, Turn, TypeOK
  <2> QED BY <1>2, <2>1, RaisedLowersRank
<1>4. CASE Load(j) \/ MarkPending(j) \/ EnsureSucceeds(j) \/ ReadRows(j)
  <2>1. ASSUME c = Finish(j), b.pc # "free" PROVE Rank(c) < Rank(b)
    BY <1>1, <2>1, RaisedLowersRank
  <2>2. ASSUME b.pc # "free", c.pc # "free", c.attempts = b.attempts, Stage(c) < Stage(b)
        PROVE  Rank(c) < Rank(b)
    BY <2>2, StageLowersRank
  <2>3. CASE Load(j)
    <3>1. b.pc = "queued" /\ (c = Finish(j) \/ c = [b EXCEPT !.pc = "loaded"])
      BY <1>1, <1>2, <2>3 DEF Load, TypeOK
    <3>2. ASSUME c = [b EXCEPT !.pc = "loaded"]
          PROVE  c.pc = "loaded" /\ c.attempts = b.attempts /\ Stage(c) < Stage(b)
      <4>1. c.pc = "loaded" /\ c.attempts = b.attempts
        BY <3>2 DEF Job
      <4> QED BY <3>1, <4>1, StageType DEF Stage
    <3> QED BY <1>1, <1>2, <2>1, <2>2, <3>1, <3>2
  <2>4. CASE MarkPending(j)
    <3>1. b.pc = "loaded" /\ c = [b EXCEPT !.pc = "ensure"]
      BY <1>1, <1>2, <2>4 DEF MarkPending, TypeOK
    <3>2. c.pc = "ensure" /\ c.attempts = b.attempts
      BY <3>1 DEF Job
    <3>3. Stage(c) < Stage(b)
      BY <3>1, <3>2, StageType DEF Stage
    <3> QED BY <1>1, <1>2, <2>2, <3>1, <3>2, <3>3
  <2>5. CASE EnsureSucceeds(j)
    <3>1. b.pc = "ensure" /\ c = [b EXCEPT !.pc = "rows"]
      BY <1>1, <1>2, <2>5 DEF EnsureSucceeds, TypeOK
    <3>2. c.pc = "rows" /\ c.attempts = b.attempts
      BY <3>1 DEF Job
    <3>3. Stage(c) < Stage(b)
      BY <3>1, <3>2, StageType DEF Stage
    <3> QED BY <1>1, <1>2, <2>2, <3>1, <3>2, <3>3
  <2>6. CASE ReadRows(j)
    <3>1. /\ b.pc = "rows"
          /\ \/ c = [b EXCEPT !.pc = "push", !.todo = Unpushed(Rec(j))]
             \/ c = [b EXCEPT !.pc = "create", !.at = 1]
      BY <1>1, <1>2, <2>6 DEF ReadRows, TypeOK
    <3>2. c.attempts = b.attempts /\ (c.pc = "push" \/ (c.pc = "create" /\ c.at = 1))
      BY <3>1 DEF Job
    <3>3. Stage(b) = 3 * NumInstallments + 3
      BY <3>1 DEF Stage, Budget
    <3>4. PICK k \in 0 .. NumInstallments : k = Cardinality(c.todo)
      BY TodoCount
    <3>5. Stage(c) < Stage(b)
      BY <3>2, <3>3, <3>4 DEF Stage
    <3> QED BY <1>1, <1>2, <2>2, <3>1, <3>2, <3>5
  <2> QED BY <1>4, <2>3, <2>4, <2>5, <2>6
<1>5. CASE \/ CreateRow(j) \/ RowsCreated(j) \/ SaveRow(j)
           \/ \E s \in Installments :
                CreateInvoice(j, s) \/ RecoverInvoice(j, s) \/ RefuseInvoice(j, s)
  <2>1. jobs[j].pc # "free"
    BY <1>5 DEF CreateRow, RowsCreated, SaveRow, CreateInvoice, RecoverInvoice, RefuseInvoice, Turn
  <2> QED BY <1>5, <2>1, WalkLowersRank
<1> QED BY <1>3, <1>4, <1>5 DEF PushStep

InBudget == \A j \in Jobs : Rank(jobs[j]) \in 0 .. (MaxAttempts * Budget)

\* A job's rank falls with each step of its own, and nobody else but a dying
\* worker touches a job in the queue.
RankFalls ==
    [][\A j \in Jobs :
         /\ PushStep(j) => Rank(jobs'[j]) < Rank(jobs[j])
         /\ \/ jobs'[j] = jobs[j]
            \/ PushStep(j)
            \/ jobs[j].pc = "free"
            \/ Die(j)]_vars

\* Why a job ends (JobEnds): whatever Invoice Ninja answers and whatever the
\* other worker does to its rows, a job takes at most MaxAttempts * Budget steps
\* of its own, for any schedule and any max_attempts. Only a worker that dies,
\* whose killed job is delivered again at no cost, can add to them.
THEOREM PushTerminates == Spec => []InBudget /\ RankFalls
<1>1. LedgerInv => InBudget
  BY RankType DEF LedgerInv, TypeOK, InBudget
<1>2. LedgerInv /\ LedgerInv' /\ [Next]_vars =>
        [\A j \in Jobs :
           /\ PushStep(j) => Rank(jobs'[j]) < Rank(jobs[j])
           /\ \/ jobs'[j] = jobs[j]
              \/ PushStep(j)
              \/ jobs[j].pc = "free"
              \/ Die(j)]_vars
  <2> SUFFICES ASSUME LedgerInv, LedgerInv', Next, NEW j \in Jobs
               PROVE  /\ PushStep(j) => Rank(jobs'[j]) < Rank(jobs[j])
                      /\ \/ jobs'[j] = jobs[j]
                         \/ PushStep(j)
                         \/ jobs[j].pc = "free"
                         \/ Die(j)
    OBVIOUS
  <2>1. ASSUME PushStep(j) PROVE Rank(jobs'[j]) < Rank(jobs[j])
    BY <2>1, PushStepLowersRank DEF LedgerInv
  <2>2. \/ jobs'[j] = jobs[j]
        \/ PushStep(j)
        \/ jobs[j].pc = "free"
        \/ Die(j)
    BY JobKinds DEF Enqueue
  <2> QED BY <2>1, <2>2
<1> QED BY <1>1, <1>2, LedgerSafe, PTL DEF Spec, RankFalls
=============================================================================

--------------------------- MODULE BillingSchedule ---------------------------
(***************************************************************************)
(* From a plan and a first billing month to the installments of a record:   *)
(* the checks of billing setup and of signing, the calendar-year count and  *)
(* partial base a draft snapshots, recomputation, the record's admin form    *)
(* and the rows a push makes (billing/services.py, billing/admin.py,         *)
(* agreements/services.py). A push job makes the rows in one step here;      *)
(* InvoicePush has its steps, its old copies and what happens to the rows.   *)
(*                                                                         *)
(* A month is a number, 12 * year + (month - 1), year 0 being the year in    *)
(* which the plan's season starts. Money is in cents.                       *)
(***************************************************************************)
EXTENDS Integers, FiniteSets, FiniteSetsExt, Functions, Sequences

CONSTANTS
    SkipChoices,     \* sets of months (1 .. 12) a plan may skip
    CountChoices,    \* installment_count of a plan
    AmountChoices,   \* annual_amount of a plan, in cents
    PercentChoices,  \* family tier discounts
    OverrideChoices, \* amounts staff may type over the computed one
    Todays,          \* months in which staff work
    TypedMonths      \* months staff may type

ASSUME ScheduleAssumption ==
    /\ SkipChoices \subseteq SUBSET (1 .. 12)
    /\ CountChoices \subseteq Nat
    /\ AmountChoices \subseteq Nat
    /\ PercentChoices \subseteq 0 .. 100
    /\ OverrideChoices \subseteq Nat
    /\ Todays \subseteq Nat
    /\ TypedMonths \subseteq Nat

VARIABLES
    plan,     \* the MembershipPlan
    bill,     \* the agreement's billing setup, then the record made from it
    edited    \* history: the plan was edited after the draft was made

scheduleVars == <<plan, bill, edited>>

-----------------------------------------------------------------------------
(* Months *)

Calendar(i) == (i % 12) + 1
Year(i) == i \div 12

Skipped(i) == Calendar(i) \in plan.skip

\* normalize_first_billing_month: the first billable month from i on; NoMonth
\* stands for the ValueError when every month is skipped.
NoMonth == -1
Normalize(i) ==
    LET billable == {j \in i .. (i + 12) : ~Skipped(j)}
    IN IF billable = {} THEN NoMonth ELSE Min(billable)

\* derive_first_billing_month: this month up to the cutoff day, then the next.
DefaultMonth(today, late) == IF late THEN today + 1 ELSE today

\* derive_installment_schedule, the dates: n successive months, skipped ones
\* left out; the due day is clamped within the month and does not move it.
Dates(first, n) ==
    LET date[k \in 1 .. n] == Normalize(IF k = 1 THEN first ELSE date[k - 1] + 1)
    IN [k \in 1 .. n |-> date[k]]

-----------------------------------------------------------------------------
(* Money *)

\* _money of a / b: ROUND_HALF_UP to the cent.
HalfUp(a, b) == (2 * a + b) \div (2 * b)

\* derive_installment_schedule, the amounts: the last absorbs the remainder.
Shares(total, n) ==
    LET per == HalfUp(total, n)
    IN [k \in 1 .. n |-> IF k < n THEN per ELSE total - per * (n - 1)]

AtLeastOne(n) == IF n = 0 THEN 1 ELSE n

PartialBase(annual, n, of) == HalfUp(annual * AtLeastOne(n), AtLeastOne(of))

\* Variant: the percentage is taken for a fraction.
FinalOfFraction(base, percent) == base - base * percent

Final(base, percent) == base - HalfUp(base * percent, 100)

\* manual_amount_override, when there is one, is the final amount.
NoOverride == -1
Payable(base, percent, override) ==
    IF override = NoOverride THEN Final(base, percent) ELSE override

\* Variant: the rows of the next calendar year count as well.
YearCountAll(first) == AtLeastOne(plan.count)

\* count_calendar_year_billable_installments.
YearCount(first) ==
    LET dates == Dates(first, AtLeastOne(plan.count))
    IN Cardinality({k \in DOMAIN dates : Year(dates[k]) = Year(first)})

-----------------------------------------------------------------------------
(* Types *)

Phases == {"setup", "set", "signed", "made"}
Row == [due : Nat, amount : Int]

\* count is scheduled_installment_count, upfront the payment mode, pushed that
\* an invoice is in Invoice Ninja. reopened: history, staff have set the record
\* back from confirmed to draft.
NoBill == [phase |-> "setup", month |-> NoMonth, count |-> 0, percent |-> 0, base |-> 0,
           override |-> NoOverride, final |-> 0, upfront |-> FALSE, rows |-> <<>>,
           status |-> "draft", pushed |-> FALSE, reopened |-> FALSE]

ScheduleTypeOK ==
    /\ plan.skip \in SkipChoices
    /\ plan.count \in CountChoices
    /\ plan.annual \in AmountChoices
    /\ bill.phase \in Phases
    /\ bill.month \in {NoMonth} \cup Nat
    /\ bill.base \in Nat /\ bill.final \in Nat
    /\ bill.override \in {NoOverride} \cup OverrideChoices
    /\ bill.status \in {"draft", "confirmed"}
    /\ bill.pushed \in BOOLEAN /\ bill.reopened \in BOOLEAN
    /\ \A k \in DOMAIN bill.rows : bill.rows[k] \in Row
    /\ edited \in BOOLEAN

ScheduleInit ==
    /\ plan \in [skip : SkipChoices, count : CountChoices, annual : AmountChoices]
    /\ bill = NoBill
    /\ edited = FALSE

-----------------------------------------------------------------------------
(* Billing setup and signing *)

\* A new agreement preselects the default plan if the cutoff-derived month,
\* normalized, lands in the season's first year.
Preselect(today, late) ==
    /\ bill.phase = "setup"
    /\ LET month == Normalize(DefaultMonth(today, late))
       IN /\ month # NoMonth
          /\ Year(month) = 0
          /\ bill' = [bill EXCEPT !.phase = "set", !.month = month]
    /\ edited' = FALSE
    /\ UNCHANGED plan

\* set_billing_setup: not before the cutoff-derived month, not in another year.
Setup(typed, today, late) ==
    /\ bill.phase \in {"setup", "set"}
    /\ LET month == Normalize(typed)
       IN /\ month # NoMonth
          /\ month >= DefaultMonth(today, late)
          /\ Year(month) = 0
          /\ bill' = [bill EXCEPT !.phase = "set", !.month = month]
    /\ edited' = FALSE
    /\ UNCHANGED plan

\* mark_agreement_signed checks the month against the plan as it is now.
Signable == bill.month # NoMonth /\ Normalize(bill.month) # NoMonth
            /\ Year(Normalize(bill.month)) = 0

SignBill ==
    /\ bill.phase = "set"
    /\ Signable
    /\ bill' = [bill EXCEPT !.phase = "signed"]
    /\ UNCHANGED <<plan, edited>>

-----------------------------------------------------------------------------
(* The record *)

\* _create_draft_billing_for_member: count, base and tier are snapshots.
Draft(percent, upfront) ==
    /\ bill.phase = "signed"
    /\ LET n == YearCount(bill.month)
           base == PartialBase(plan.annual, n, plan.count)
       IN bill' = [bill EXCEPT !.phase = "made", !.count = n, !.percent = percent,
                      !.base = base, !.final = Final(base, percent), !.upfront = upfront]
    /\ UNCHANGED <<plan, edited>>

\* MembershipPlanAdmin, at any time.
EditPlan(skip, count, annual) ==
    /\ plan' = [skip |-> skip, count |-> count, annual |-> annual]
    /\ edited' = (edited \/ (bill.phase # "setup" /\ plan' # plan))
    /\ UNCHANGED bill

DraftRecord == bill.phase = "made" /\ bill.status = "draft"

\* Variant: confirmed records are recomputed as well.
RecomputeAny ==
    /\ bill.phase = "made"
    /\ LET base == PartialBase(plan.annual, bill.count, plan.count)
       IN bill' = [bill EXCEPT !.base = base, !.final = Payable(base, bill.percent, bill.override)]
    /\ UNCHANGED <<plan, edited>>

\* recompute_billing_record: of a draft, whether or not it has rows; the saved
\* count stays.
Recompute ==
    /\ DraftRecord
    /\ LET base == PartialBase(plan.annual, bill.count, plan.count)
       IN bill' = [bill EXCEPT !.base = base, !.final = Payable(base, bill.percent, bill.override)]
    /\ UNCHANGED <<plan, edited>>

\* reassign_draft_billing_record, to a month of the plan as it is now: the rows
\* go. A blank month, which restores the whole year's amount, is left out.
Reassign(typed, today, late) ==
    /\ DraftRecord
    /\ ~bill.pushed
    /\ LET month == Normalize(typed)
           n == YearCount(month)
           base == PartialBase(plan.annual, n, plan.count)
       IN /\ month # NoMonth
          /\ month >= DefaultMonth(today, late)
          /\ Year(month) = 0
          /\ bill' = [bill EXCEPT !.month = month, !.count = n, !.base = base, !.rows = <<>>,
                                  !.final = Payable(base, bill.percent, bill.override)]
    /\ edited' = FALSE
    /\ UNCHANGED plan

\* BillingRecordAdminForm: the override of a draft, and the status of any record,
\* back to draft too, whatever rows it has. confirm_view is the step that keeps
\* the override and confirms.
SaveRecordForm(override, status) ==
    /\ bill.phase = "made"
    /\ bill.status # "draft" => override = bill.override
    /\ bill' = [bill EXCEPT !.override = override, !.status = status,
                    !.final = Payable(bill.base, bill.percent, override),
                    !.reopened = @ \/ (bill.status = "confirmed" /\ status = "draft")]
    /\ UNCHANGED <<plan, edited>>

\* materialize_installments: none for a zero total, one when paid up front.
Rows(total, month, n, upfront) ==
    LET dates == Dates(month, AtLeastOne(n))
        amounts == Shares(total, AtLeastOne(n))
    IN IF total = 0 THEN <<>>
       ELSE IF upfront THEN <<[due |-> dates[1], amount |-> total]>>
       ELSE [k \in DOMAIN dates |-> [due |-> dates[k], amount |-> amounts[k]]]

\* The push of a confirmed record; rows that are there already are the schedule.
MaterializeRows ==
    /\ bill.phase = "made"
    /\ bill.status = "confirmed"
    /\ bill.rows = <<>>
    /\ Normalize(bill.month) # NoMonth
    /\ bill' = [bill EXCEPT !.rows = Rows(bill.final, bill.month, bill.count, bill.upfront)]
    /\ UNCHANGED <<plan, edited>>

PushRows ==
    /\ bill.status = "confirmed"
    /\ bill.rows # <<>>
    /\ bill.final # 0
    /\ bill' = [bill EXCEPT !.pushed = TRUE]
    /\ UNCHANGED <<plan, edited>>

-----------------------------------------------------------------------------

ScheduleNext ==
    \/ \E today \in Todays, late \in BOOLEAN : Preselect(today, late)
    \/ \E typed \in TypedMonths, today \in Todays, late \in BOOLEAN : Setup(typed, today, late)
    \/ SignBill
    \/ \E percent \in PercentChoices, upfront \in BOOLEAN : Draft(percent, upfront)
    \/ \E skip \in SkipChoices, count \in CountChoices, annual \in AmountChoices :
          EditPlan(skip, count, annual)
    \/ Recompute
    \/ \E typed \in TypedMonths, today \in Todays, late \in BOOLEAN : Reassign(typed, today, late)
    \/ \E override \in {NoOverride} \cup OverrideChoices, status \in {"draft", "confirmed"} :
          SaveRecordForm(override, status)
    \/ MaterializeRows
    \/ PushRows

ScheduleSpec == ScheduleInit /\ [][ScheduleNext]_scheduleVars

-----------------------------------------------------------------------------
(* Properties *)

RowSum == SumFunction([k \in DOMAIN bill.rows |-> bill.rows[k].amount])

\* Whatever the plan has become, the invoices add up to the record's final
\* amount and none is for nothing or less (billing/services.py:270-276), unless
\* staff have set a confirmed record back to draft: its amount may then change
\* under rows that the next push takes as they are (:649-651).
RowsSumToFinal ==
    (bill.rows # <<>> /\ ~bill.reopened) =>
        /\ RowSum = bill.final
        /\ \A k \in DOMAIN bill.rows : bill.rows[k].amount > 0

\* A record never rolls into the next calendar year, its invoices fall in
\* months the plan bills and in order, and a reassignment leaves none of another
\* month (billing/services.py:273-281, :890); an edited plan may move them.
RowsKeepYear ==
    ~edited =>
        \A k \in DOMAIN bill.rows :
            /\ Year(bill.rows[k].due) = 0
            /\ ~Skipped(bill.rows[k].due)
            /\ bill.rows[k].due >= bill.month
            /\ k > 1 => bill.rows[k - 1].due < bill.rows[k].due
=============================================================================

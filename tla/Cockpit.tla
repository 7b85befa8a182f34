------------------------------- MODULE Cockpit -------------------------------
(***************************************************************************)
(* One application as the Admin Hub shows and works it: the pipeline derived *)
(* from the rows (admin_hub/pipeline.py), the controls the Hub's pages offer  *)
(* (admin_hub/views.py) and the endpoints they post to                       *)
(* (registrations/admin.py, billing/admin.py). One request at a time: what  *)
(* requests do to each other is in the other modules, what is checked here  *)
(* is that pages and endpoints agree about every reachable set of rows.     *)
(***************************************************************************)
EXTENDS Naturals, FiniteSets

CONSTANTS
    Seasons,        \* seasons; there is one MembershipPlan of each
    MaxContracts    \* bound: agreements the member ever has

ASSUME CockpitAssumption == Seasons \subseteq Nat \ {0} /\ MaxContracts \in Nat \ {0}

VARIABLES
    stage,       \* RegistrationApplication.status
    standing,    \* Member.status, or none before approval
    contracts,   \* Agreement rows
    current,     \* the one with is_current, 0 if there is none
    books,       \* BillingRecord rows: at most one a season
    onSale       \* plans that are active

cockpitVars == <<stage, standing, contracts, current, books, onSale>>

-----------------------------------------------------------------------------
(* Types *)

NoPlan == 0
Plan == Seasons \cup {NoPlan}
Slots == 1 .. MaxContracts

ContractState == {"unused", "generated", "sent", "signed", "void", "superseded", "discontinued"}
Locked == {"signed", "superseded", "discontinued"}
Terminal == {"void", "superseded", "discontinued"}

\* The plan and the first billing month are chosen together; sent stands for
\* sent_at.
Contract == [state : ContractState, plan : Plan, sent : BOOLEAN]

\* issued: an invoice has its id; synced: the last push went through.
Book == [exists : BOOLEAN, status : {"draft", "confirmed"}, contract : 0 .. MaxContracts,
         issued : BOOLEAN, synced : BOOLEAN]

Unused == [state |-> "unused", plan |-> NoPlan, sent |-> FALSE]
NoBook == [exists |-> FALSE, status |-> "draft", contract |-> 0, issued |-> FALSE,
           synced |-> FALSE]

CockpitTypeOK ==
    /\ stage \in {"draft", "submitted", "fix_requested", "approved", "rejected"}
    /\ standing \in {"none", "active", "discontinued"}
    /\ contracts \in [Slots -> Contract]
    /\ current \in 0 .. MaxContracts
    /\ books \in [Seasons -> Book]
    /\ onSale \in SUBSET Seasons

CockpitInit ==
    /\ stage = "draft"
    /\ standing = "none"
    /\ contracts = [c \in Slots |-> Unused]
    /\ current = 0
    /\ books = [s \in Seasons |-> NoBook]
    /\ onSale = Seasons

-----------------------------------------------------------------------------
(* What the pages derive *)

Least(S) == CHOOSE s \in S : \A t \in S : s <= t

Booked == {s \in Seasons : books[s].exists}

\* load_pipeline_objects: the season of the current agreement's plan.
CurrentSeason == IF current = 0 THEN NoPlan ELSE contracts[current].plan

\* The record the pages show, NoPlan if none: that season's, or the first one
\* when the agreement has no plan.
ShownBook ==
    CASE CurrentSeason \in Booked -> CurrentSeason
      [] CurrentSeason = NoPlan /\ Booked # {} -> Least(Booked)
      [] OTHER -> NoPlan

NextBooks == {s \in Booked : CurrentSeason # NoPlan /\ s > CurrentSeason}

CurrentState == IF current = 0 THEN "unused" ELSE contracts[current].state

Steps == <<"verify", "approve", "agreement", "handover", "signed", "invoices", "next_season">>

StepDone(step) ==
    CASE step = "verify"      -> stage \in {"approved", "rejected"}
      [] step = "approve"     -> stage = "approved"
      [] step = "agreement"   -> current # 0
      [] step = "handover"    -> current # 0 /\ contracts[current].sent
      [] step = "signed"      -> CurrentState = "signed" /\ CurrentSeason # NoPlan
      [] step = "invoices"    -> ShownBook # NoPlan /\ books[ShownBook].issued
      [] step = "next_season" -> NextBooks # {}

StepAvailable(step) ==
    CASE step = "verify"      -> stage \in {"submitted", "fix_requested"}
      [] step = "approve"     -> stage = "submitted"
      [] step = "agreement"   -> standing # "none"
      [] step = "handover"    -> current # 0
      [] step = "signed"      -> CurrentState \in {"generated", "sent"}
      [] step = "invoices"    -> ShownBook # NoPlan
      [] step = "next_season" -> ShownBook # NoPlan /\ StepDone("signed")

\* build_pipeline: CURRENT or AVAILABLE.
StepActionable(step) == StepAvailable(step) /\ ~StepDone(step)

\* _plan_preview: once there is a record its plan is shown, not the agreement's.
PreviewPlan == IF ShownBook # NoPlan THEN ShownBook ELSE CurrentSeason

-----------------------------------------------------------------------------
(* What the Hub's pages offer, and what the endpoints accept *)

Controls == {"approve", "request_fix", "reject", "resolve_corrections",
             "set_billing_setup", "mark_agreement_sent", "mark_agreement_signed",
             "void_agreement", "regenerate_agreement", "discontinue_member",
             "create_next_season_billing", "push"}

\* Variant: the plan stays editable on a locked agreement.
PlanEditableAlways == current # 0 /\ CurrentState # "void"

\* agreement_view: neither locked nor terminal.
PlanEditable == current # 0 /\ CurrentState \notin Locked \cup Terminal

\* _signed_active_agreement.
SignedActive == CurrentState = "signed" /\ standing = "active"

\* cockpit_view.
CockpitOffers(control) ==
    \/ control \in {"approve", "request_fix", "reject"} /\ stage = "submitted"
    \/ control = "resolve_corrections" /\ stage = "fix_requested"

\* agreement_view.
AgreementOffers(control) ==
    \/ control = "set_billing_setup" /\ PlanEditable /\ onSale # {}
    \/ control = "mark_agreement_sent" /\ CurrentState = "generated"
    \/ control = "mark_agreement_signed" /\ StepActionable("signed") /\ PreviewPlan # NoPlan
    \/ control = "void_agreement" /\ CurrentState \in {"generated", "sent", "signed"}
    \/ control = "regenerate_agreement" /\ CurrentState = "void"
    \/ control = "discontinue_member" /\ SignedActive

\* billing_view: what it offers does not depend on the agreement's state.
BillingOffers(control) ==
    \/ control = "create_next_season_billing" /\ ShownBook # NoPlan /\ NextBooks = {} /\ onSale # {}
    \/ control = "push" /\ ShownBook # NoPlan /\ ~books[ShownBook].synced

\* Without a current agreement the last two pages are not found.
Offers(control) ==
    \/ CockpitOffers(control)
    \/ current # 0 /\ (AgreementOffers(control) \/ BillingOffers(control))

\* review_action_view, push_view and the services behind them, for well-filled
\* forms; push is asked for the record the page shows.
Accepts(control) ==
    CASE control \in {"approve", "request_fix", "reject"} -> stage = "submitted"
      [] control = "resolve_corrections"  -> stage = "fix_requested"
      [] control = "set_billing_setup"    -> current # 0 /\ CurrentState \notin Locked /\ onSale # {}
      [] control = "mark_agreement_sent"  -> CurrentState = "generated"
      [] control = "mark_agreement_signed" ->
            CurrentState \in {"generated", "sent"} /\ CurrentSeason \in onSale
      [] control = "void_agreement"       -> current # 0
      [] control = "regenerate_agreement" -> CurrentState = "void"
      [] control = "discontinue_member"   -> SignedActive
      [] control = "create_next_season_billing" ->
            SignedActive /\ CurrentSeason # NoPlan /\ onSale \ {CurrentSeason} # {}
      [] control = "push" -> ShownBook \in Booked /\ ~books[ShownBook].synced

-----------------------------------------------------------------------------
(* Review *)

CockpitSubmit ==
    /\ stage \in {"draft", "fix_requested"}
    /\ stage' = "submitted"
    /\ UNCHANGED <<standing, contracts, current, books, onSale>>

CockpitReview ==
    /\ stage = "submitted"
    /\ stage' \in {"fix_requested", "rejected"}
    /\ UNCHANGED <<standing, contracts, current, books, onSale>>

\* create_agreement_for_member preselects the default plan if it is active and
\* has a billable month left, else none.
Fresh(plan) == [state |-> "generated", plan |-> plan, sent |-> FALSE]

Preselected == onSale \cup {NoPlan}

\* approve_view.
CockpitApprove ==
    /\ stage = "submitted"
    /\ stage' = "approved"
    /\ standing' = "active"
    /\ current' = 1
    /\ \E plan \in Preselected : contracts' = [contracts EXCEPT ![1] = Fresh(plan)]
    /\ UNCHANGED <<books, onSale>>

-----------------------------------------------------------------------------
(* The agreement *)

CockpitSetup(plan) ==
    /\ current # 0
    /\ CurrentState \notin Locked
    /\ plan \in onSale
    /\ contracts' = [contracts EXCEPT ![current].plan = plan]
    /\ UNCHANGED <<stage, standing, current, books, onSale>>

CockpitSent ==
    /\ CurrentState = "generated"
    /\ contracts' = [contracts EXCEPT ![current].state = "sent", ![current].sent = TRUE]
    /\ UNCHANGED <<stage, standing, current, books, onSale>>

\* _create_draft_billing_for_member: an existing record of the season is kept.
WithDraft(plan) ==
    IF books[plan].exists THEN books
    ELSE [books EXCEPT ![plan] = [NoBook EXCEPT !.exists = TRUE, !.contract = current]]

\* mark_agreement_signed and the draft its signal makes.
CockpitSigned ==
    /\ CurrentState \in {"generated", "sent"}
    /\ CurrentSeason \in onSale
    /\ contracts' = [contracts EXCEPT ![current].state = "signed"]
    /\ books' = WithDraft(CurrentSeason)
    /\ UNCHANGED <<stage, standing, current, onSale>>

CockpitVoid ==
    /\ current # 0
    /\ CurrentState # "void"
    /\ contracts' = [contracts EXCEPT ![current].state = "void"]
    /\ UNCHANGED <<stage, standing, current, books, onSale>>

CockpitRegenerate ==
    /\ CurrentState = "void"
    /\ current < MaxContracts
    /\ current' = current + 1
    /\ \E plan \in Preselected : contracts' = [contracts EXCEPT ![current + 1] = Fresh(plan)]
    /\ UNCHANGED <<stage, standing, books, onSale>>

\* start_material_amendment: the new agreement copies plan and month.
CockpitAmend ==
    /\ CurrentState = "signed"
    /\ current < MaxContracts
    /\ current' = current + 1
    /\ contracts' = [contracts EXCEPT ![current].state = "superseded",
                                      ![current + 1] = Fresh(CurrentSeason)]
    /\ UNCHANGED <<stage, standing, books, onSale>>

CockpitDiscontinue ==
    /\ SignedActive
    /\ contracts' = [contracts EXCEPT ![current].state = "discontinued"]
    /\ standing' = "discontinued"
    /\ UNCHANGED <<stage, current, books, onSale>>

-----------------------------------------------------------------------------
(* Billing *)

\* renew_member_billing, from create_next_season_billing.
CockpitRenew(plan) ==
    /\ SignedActive
    /\ CurrentSeason # NoPlan
    /\ plan \in onSale \ (Booked \cup {CurrentSeason})
    /\ books' = WithDraft(plan)
    /\ UNCHANGED <<stage, standing, contracts, current, onSale>>

\* recreate_missing_billing_record.
CockpitRecreate ==
    /\ SignedActive
    /\ CurrentSeason # NoPlan
    /\ CurrentSeason \notin Booked
    /\ books' = WithDraft(CurrentSeason)
    /\ UNCHANGED <<stage, standing, contracts, current, onSale>>

Moved(s, plan) ==
    IF plan = s THEN books
    ELSE [books EXCEPT ![s] = NoBook, ![plan] = books[s]]

\* Variant: the agreement is left as it was.
CockpitReassignRecord(s, plan) ==
    /\ books[s].exists
    /\ books[s].status = "draft"
    /\ ~books[s].issued
    /\ plan \in onSale
    /\ plan # s => ~books[plan].exists
    /\ books' = Moved(s, plan)
    /\ UNCHANGED <<stage, standing, contracts, current, onSale>>

\* reassign_draft_billing_record, which also moves the agreement the record
\* names. A season that has its record already is an integrity error.
CockpitReassign(s, plan) ==
    /\ books[s].exists
    /\ books[s].status = "draft"
    /\ ~books[s].issued
    /\ plan \in onSale
    /\ plan # s => ~books[plan].exists
    /\ books' = Moved(s, plan)
    /\ contracts' = [contracts EXCEPT ![books[s].contract].plan = plan]
    /\ UNCHANGED <<stage, standing, current, onSale>>

\* BillingRecordAdminForm edits the status either way, whatever has been pushed;
\* confirm_view only confirms.
CockpitRecordForm(s) ==
    /\ books[s].exists
    /\ \E status \in {"draft", "confirmed"} : books' = [books EXCEPT ![s].status = status]
    /\ UNCHANGED <<stage, standing, contracts, current, onSale>>

\* push_view with confirm_and_push; the job has made all, some or none of the
\* invoices before anything else is asked for (a free record is synced with
\* none).
CockpitPush(s) ==
    /\ books[s].exists
    /\ ~books[s].synced
    /\ \E issued, synced \in BOOLEAN :
          /\ books[s].issued => issued
          /\ books' = [books EXCEPT ![s].status = "confirmed", ![s].issued = issued,
                                    ![s].synced = synced]
    /\ UNCHANGED <<stage, standing, contracts, current, onSale>>

\* MembershipPlanAdmin.
CockpitSell(plan) ==
    /\ onSale' = IF plan \in onSale THEN onSale \ {plan} ELSE onSale \cup {plan}
    /\ UNCHANGED <<stage, standing, contracts, current, books>>

-----------------------------------------------------------------------------

CockpitNext ==
    \/ CockpitSubmit
    \/ CockpitReview
    \/ CockpitApprove
    \/ \E plan \in Seasons : CockpitSetup(plan)
    \/ CockpitSent
    \/ CockpitSigned
    \/ CockpitVoid
    \/ CockpitRegenerate
    \/ CockpitAmend
    \/ CockpitDiscontinue
    \/ \E plan \in Seasons : CockpitRenew(plan)
    \/ CockpitRecreate
    \/ \E s, plan \in Seasons : CockpitReassign(s, plan)
    \/ \E s \in Seasons : CockpitRecordForm(s)
    \/ \E s \in Seasons : CockpitPush(s)
    \/ \E plan \in Seasons : CockpitSell(plan)

CockpitSpec == CockpitInit /\ [][CockpitNext]_cockpitVars

-----------------------------------------------------------------------------
(* Properties *)

\* The refusals behind an offered control: the agreement's plan was withdrawn,
\* or it has none and the page shows the plan of an earlier agreement's record
\* (admin_hub/views.py:696-700); the next season is offered by the record alone.
Dangling(control) ==
    \/ control = "mark_agreement_signed" /\ CurrentSeason \in Seasons \ onSale
    \/ control = "mark_agreement_signed" /\ CurrentSeason = NoPlan /\ current > 1
    \/ control = "create_next_season_billing" /\ ~SignedActive
    \/ control = "create_next_season_billing" /\ onSale \subseteq {CurrentSeason}

\* What a page of the Hub offers its endpoint accepts, in every reachable set of
\* rows and with no other exception than those (admin_hub/views.py:311-316:
\* the Hub must not dangle a control the POST would refuse).
HubOffersWork == \A c \in Controls : Offers(c) => Accepts(c) \/ Dangling(c)

\* The season of a signed agreement has its record, however the record is
\* moved: reassigning keeps the two in step (billing/services.py:899-935).
SignedHasItsRecord ==
    CurrentState = "signed" => CurrentSeason \in Booked

\* The same as long as the member has had one agreement only.
FirstAgreementHasItsRecord == current = 1 => SignedHasItsRecord
=============================================================================

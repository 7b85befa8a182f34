------------------------------ MODULE FamilyHub ------------------------------
(***************************************************************************)
(* One child of a family as staff meet it in Django admin: the lanes of     *)
(* members/lanes.py, the three lists that decide from them or beside them    *)
(* which family needs work (the action queue, the family's hub, the order of *)
(* the guardian changelist), and the forms of the hub with the handlers they *)
(* post to (members/family_hub.py, members/admin.py).                        *)
(***************************************************************************)
EXTENDS Naturals

VARIABLES
    filing,    \* RegistrationApplication.status
    player,    \* the Member
    paper,     \* the member's current Agreement
    account,   \* the member's BillingRecord of the season
    hubSells   \* the season's plan is active

familyHubVars == <<filing, player, paper, account, hubSells>>

-----------------------------------------------------------------------------
(* Types *)

Player == [status : {"none", "active", "discontinued"}, grouped : BOOLEAN]

\* remote is external_state, its error code set exactly when it is "failed";
\* submission says that external_id is filled.
Paper == [state : {"none", "generated", "sent", "signed", "void", "discontinued"},
          planned : BOOLEAN, submission : BOOLEAN,
          remote : {"", "pending", "failed", "completed"}]

\* remote is external_status, with an error code when it is "failed".
Account == [status : {"none", "draft", "confirmed"},
            remote : {"", "pending", "failed", "synced"}]

FamilyHubTypeOK ==
    /\ filing \in {"draft", "submitted", "fix_requested", "approved", "rejected"}
    /\ player \in Player
    /\ paper \in Paper
    /\ account \in Account
    /\ hubSells \in BOOLEAN

NoPaper == [state |-> "none", planned |-> FALSE, submission |-> FALSE, remote |-> ""]

FamilyHubInit ==
    /\ filing = "draft"
    /\ player = [status |-> "none", grouped |-> FALSE]
    /\ paper = NoPaper
    /\ account = [status |-> "none", remote |-> ""]
    /\ hubSells \in BOOLEAN

-----------------------------------------------------------------------------
(* The lanes: the next action each one names, "" for none *)

ApplicationLane ==
    CASE filing = "submitted"     -> "approve"
      [] filing = "fix_requested" -> "view"
      [] OTHER                    -> ""

AgreementLane ==
    CASE paper.remote = "failed"     -> "retry"
      [] paper.remote # "failed" /\ paper.state = "generated" -> "mark_sent"
      [] paper.remote # "failed" /\ paper.state = "sent"      -> "mark_signed"
      [] OTHER                       -> ""

\* Variant: the group is asked for again.
MembershipLaneAlways ==
    IF player.status = "active" THEN "assign_group" ELSE ""

MembershipLane ==
    IF player.status = "active" /\ ~player.grouped THEN "assign_group" ELSE ""

BillingLane ==
    CASE account.status = "none"     -> ""
      [] account.remote = "failed"   -> "retry"
      [] account.status = "draft"    -> "confirm"
      [] account.status = "confirmed" /\ account.remote \in {"", "pending"} -> "push"
      [] OTHER                       -> "sync_payments"

\* _row_for_guardian walks the applications, taking each approved one's
\* agreement with it, then the members and their records.
InQueue ==
    \/ ApplicationLane # ""
    \/ filing = "approved" /\ AgreementLane # ""
    \/ player.status # "none" /\ (MembershipLane # "" \/ BillingLane # "")

\* Variant: the hub walks active members only.
HubForgetsDiscontinued ==
    LET lanes == IF player.status = "active"
                 THEN {ApplicationLane, AgreementLane, MembershipLane, BillingLane}
                 ELSE {ApplicationLane}
    IN lanes \ {""} # {}

\* build_family_hub_context walks the children: members first, then the
\* applications that have none.
HubNeedsAction ==
    LET lanes == IF player.status # "none"
                 THEN {ApplicationLane, AgreementLane, MembershipLane, BillingLane}
                 ELSE {ApplicationLane}
    IN lanes \ {""} # {}

\* GuardianAdmin.get_queryset: three subqueries of its own, no lanes.
ReviewRanked == filing \in {"submitted", "fix_requested"}

AgreementRanked == paper.state \in {"generated", "sent"} \/ paper.remote = "failed"

BillingRanked ==
    \/ account.status = "draft"
    \/ account.status = "confirmed" /\ account.remote \in {"", "failed"}

ActionPriority == IF ReviewRanked THEN 3
                  ELSE IF AgreementRanked THEN 2
                  ELSE IF BillingRanked THEN 1 ELSE 0

-----------------------------------------------------------------------------
(* The forms of family_hub.html and what their handlers accept *)

Forms == {"approve_application", "request_fix", "reject", "set_billing_setup",
          "mark_agreement_sent", "mark_agreement_signed", "retry_docuseal",
          "sync_docuseal", "minor_amendment", "material_amendment", "void_agreement",
          "discontinue_member", "assign_training_group", "confirm_billing",
          "push_billing", "sync_billing_payments"}

FormShown(form) ==
    CASE form \in {"approve_application", "request_fix", "reject"} -> filing = "submitted"
      [] form = "set_billing_setup" -> paper.state \in {"generated", "sent"} /\ ~paper.planned
      [] form = "mark_agreement_sent"   -> paper.state = "generated"
      [] form = "mark_agreement_signed" -> paper.state = "sent" /\ paper.planned
      [] form \in {"retry_docuseal", "sync_docuseal"} -> paper.remote = "failed"
      [] form \in {"minor_amendment", "material_amendment", "discontinue_member"} ->
            paper.state = "signed"
      [] form = "void_agreement" -> paper.state \notin {"none", "void", "discontinued"}
      [] form = "assign_training_group" -> player.status # "none" /\ ~player.grouped
      [] form = "confirm_billing" -> account.status = "draft"
      [] form = "push_billing" ->
            account.status = "confirmed" /\ account.remote \notin {"pending", "synced"}
      [] form = "sync_billing_payments" -> account.status # "none"

HandlerAccepts(form) ==
    CASE form \in {"approve_application", "request_fix", "reject"} -> filing = "submitted"
      [] form = "set_billing_setup" ->
            paper.state \in {"generated", "sent", "void"} /\ hubSells
      [] form = "mark_agreement_sent"   -> paper.state = "generated"
      [] form = "mark_agreement_signed" ->
            paper.state \in {"generated", "sent"} /\ paper.planned /\ hubSells
      [] form = "retry_docuseal" -> paper.remote = "failed"
      [] form = "sync_docuseal"  -> paper.state # "none"
      [] form \in {"minor_amendment", "material_amendment", "discontinue_member"} ->
            paper.state = "signed"
      [] form = "void_agreement" -> paper.state # "none"
      [] form = "assign_training_group" -> player.status # "none"
      [] form = "confirm_billing" -> account.status = "draft"
      [] form = "push_billing" -> account.status = "confirmed"
      [] form = "sync_billing_payments" -> account.status # "none"

\* The form that does what a lane asks for; an agreement without its plan has
\* the plan chosen first.
FormOf(lane, action) ==
    CASE action = "approve"      -> "approve_application"
      [] action = "mark_sent"    -> "mark_agreement_sent"
      [] action = "mark_signed"  -> IF paper.planned THEN "mark_agreement_signed"
                                    ELSE "set_billing_setup"
      [] action = "retry"        -> IF lane = "billing" THEN "push_billing"
                                    ELSE "retry_docuseal"
      [] action = "assign_group" -> "assign_training_group"
      [] action = "confirm"      -> "confirm_billing"
      [] action = "push"         -> "push_billing"
      [] action = "sync_payments" -> "sync_billing_payments"

-----------------------------------------------------------------------------
(* The rows *)

HubSubmitted ==
    /\ filing \in {"draft", "fix_requested"}
    /\ filing' = "submitted"
    /\ UNCHANGED <<player, paper, account, hubSells>>

HubReviewed ==
    /\ filing = "submitted"
    /\ filing' \in {"fix_requested", "rejected"}
    /\ UNCHANGED <<player, paper, account, hubSells>>

\* A new agreement, with the default plan if it can be billed.
NewPaper(planned) == [NoPaper EXCEPT !.state = "generated", !.planned = planned]

HubApproved ==
    /\ filing = "submitted"
    /\ filing' = "approved"
    /\ \E grouped \in BOOLEAN : player' = [status |-> "active", grouped |-> grouped]
    /\ \E planned \in {FALSE, hubSells} : paper' = NewPaper(planned)
    /\ UNCHANGED <<account, hubSells>>

HubAssigned ==
    /\ player.status # "none"
    /\ player' = [player EXCEPT !.grouped = TRUE]
    /\ UNCHANGED <<filing, paper, account, hubSells>>

HubSetup ==
    /\ paper.state \in {"generated", "sent", "void"}
    /\ hubSells
    /\ paper' = [paper EXCEPT !.planned = TRUE]
    /\ UNCHANGED <<filing, player, account, hubSells>>

HubSent ==
    /\ paper.state = "generated"
    /\ paper' = [paper EXCEPT !.state = "sent"]
    /\ UNCHANGED <<filing, player, account, hubSells>>

MaySign == paper.state \in {"generated", "sent"} /\ paper.planned /\ hubSells

\* The draft a first signature makes.
WithAccount == IF account.status = "none" THEN [account EXCEPT !.status = "draft"] ELSE account

HubSigned ==
    /\ MaySign
    /\ paper' = [paper EXCEPT !.state = "signed"]
    /\ account' = WithAccount
    /\ UNCHANGED <<filing, player, hubSells>>

HubVoided ==
    /\ paper.state # "none"
    /\ paper' = [paper EXCEPT !.state = "void"]
    /\ UNCHANGED <<filing, player, account, hubSells>>

HubRegenerated ==
    /\ paper.state = "void"
    /\ \E planned \in {FALSE, hubSells} : paper' = NewPaper(planned)
    /\ UNCHANGED <<filing, player, account, hubSells>>

HubAmended ==
    /\ paper.state = "signed"
    /\ paper' = NewPaper(paper.planned)
    /\ UNCHANGED <<filing, player, account, hubSells>>

HubDiscontinued ==
    /\ paper.state = "signed"
    /\ paper' = [paper EXCEPT !.state = "discontinued"]
    /\ player' = [player EXCEPT !.status = "discontinued"]
    /\ UNCHANGED <<filing, account, hubSells>>

\* create_agreement_submission, queued with the agreement or by a retry.
HubCreateEnds ==
    /\ paper.state # "none"
    /\ paper.remote \in {"", "failed"}
    /\ paper' \in {[paper EXCEPT !.remote = "failed"],
                   [paper EXCEPT !.remote = "pending", !.submission = TRUE]}
    /\ UNCHANGED <<filing, player, account, hubSells>>

\* sync_agreement_submission, and the signature of a completed submission.
HubSyncEnds ==
    /\ paper.submission
    /\ \E remote \in {"pending", "failed", "completed"} :
          LET signs == remote = "completed" /\ MaySign
          IN /\ paper' = [paper EXCEPT !.remote = remote,
                                       !.state = IF signs THEN "signed" ELSE @]
             /\ account' = IF signs THEN WithAccount ELSE account
    /\ UNCHANGED <<filing, player, hubSells>>

HubConfirmed ==
    /\ account.status = "draft"
    /\ account' = [account EXCEPT !.status = "confirmed"]
    /\ UNCHANGED <<filing, player, paper, hubSells>>

\* BillingRecordAdminForm: staff may set the record back to draft, whatever
\* became of its push.
HubReopened ==
    /\ account.status = "confirmed"
    /\ account' = [account EXCEPT !.status = "draft"]
    /\ UNCHANGED <<filing, player, paper, hubSells>>

HubPushed ==
    /\ account.status = "confirmed"
    /\ account.remote \notin {"pending", "synced"}
    /\ account' = [account EXCEPT !.remote = "pending"]
    /\ UNCHANGED <<filing, player, paper, hubSells>>

\* push_billing_record, also when django-q runs a failed one again; a record set
\* back to draft does not stop the job that has it loaded.
HubPushEnds ==
    /\ account.remote \in {"pending", "failed"}
    /\ account' \in {[account EXCEPT !.remote = r] : r \in {"failed", "synced"}}
    /\ UNCHANGED <<filing, player, paper, hubSells>>

HubPlanToggled ==
    /\ hubSells' = ~hubSells
    /\ UNCHANGED <<filing, player, paper, account>>

-----------------------------------------------------------------------------

FamilyHubNext ==
    \/ HubSubmitted \/ HubReviewed \/ HubApproved \/ HubAssigned
    \/ HubSetup \/ HubSent \/ HubSigned \/ HubVoided \/ HubRegenerated
    \/ HubAmended \/ HubDiscontinued
    \/ HubCreateEnds \/ HubSyncEnds
    \/ HubConfirmed \/ HubReopened \/ HubPushed \/ HubPushEnds
    \/ HubPlanToggled

FamilyHubSpec == FamilyHubInit /\ [][FamilyHubNext]_familyHubVars

-----------------------------------------------------------------------------
(* Properties *)

\* The queue and the hub, which walk the same rows in different ways, agree on
\* whether the family needs work, and neither misses a family that the
\* changelist ranks (members/family_hub.py:138-205, :397-418, admin.py:143-175).
ListsAgree ==
    /\ InQueue <=> HubNeedsAction
    /\ ActionPriority > 0 => InQueue

\* The changelist sorts action-needed families first (members/admin.py:143):
\* one in the queue is not ranked with the rest.
QueuedIsRanked == InQueue => ActionPriority > 0

\* What a lane asks for the hub has a form for, and no form it shows leads to a
\* refusal, in every reachable set of rows; a record being pushed and a season
\* without a plan on sale apart (members/lanes.py, family_hub.html,
\* members/admin.py:391-800). One set of rows fails: a record set back to draft
\* after a failed push, whose lane asks for a retry (lanes.py:239) while the hub
\* has only the form that confirms it (family_hub.html:308-326).
NextActionWorks ==
    /\ \A lane \in {"application", "agreement", "membership", "billing"} :
        LET action == CASE lane = "application" -> ApplicationLane
                        [] lane = "agreement"   -> AgreementLane
                        [] lane = "membership"  -> MembershipLane
                        [] lane = "billing"     -> BillingLane
        IN \/ action \in {"", "view"}
           \/ action = "push" /\ account.remote = "pending"
           \/ action = "mark_signed" /\ ~hubSells
           \/ lane = "billing" /\ account.status = "draft" /\ account.remote = "failed"
           \/ FormShown(FormOf(lane, action))
    /\ \A form \in Forms :
        \/ form \in {"set_billing_setup", "mark_agreement_signed"} /\ ~hubSells
        \/ FormShown(form) => HandlerAccepts(form)
=============================================================================

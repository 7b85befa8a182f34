---------------------------- MODULE Office_proofs ----------------------------
(***************************************************************************)
(* The club's side of a family: what the hub's lists and buttons offer,     *)
(* which child pays in full, what a record's installments add up to and     *)
(* when they fall due, and which record a reassignment leaves with the      *)
(* signed agreement, for any siblings, seasons, plans and numbers of        *)
(* agreements. The last part is about the run that has them all beside the  *)
(* private files.                                                           *)
(***************************************************************************)
EXTENDS MCOffice, PrivateFiles_proofs, FiniteSetTheorems

HIDE NoFileAssumption

-----------------------------------------------------------------------------
(* Least members *)

\* Every non-empty set of naturals has a least member: the intervals below its
\* members are finite sets, one of which contains no other.
LEMMA LeastNatural ==
    ASSUME NEW S \in SUBSET Nat, S # {}
    PROVE  \E s \in S : \A t \in S : s <= t
<1> DEFINE Below(s) == {k \in Nat : k < s}
           T == {Below(s) : s \in S}
           R == StrictSubsetOrdering(Nat)
<1>1. ASSUME NEW s \in S PROVE Below(s) \in FiniteSubsetsOf(Nat)
  <2>1. s \in Nat /\ Below(s) \in SUBSET Nat /\ \A k \in Below(s) : k <= s
    OBVIOUS
  <2>2. IsFiniteSet(Below(s))
    <3> HIDE DEF Below
    <3> QED BY <2>1, FS_BoundedSetOfNaturals
  <2> QED BY <2>1, <2>2 DEF FiniteSubsetsOf
<1>2. T \subseteq FiniteSubsetsOf(Nat) /\ T # {}
  BY <1>1
<1>3. \E x \in T : \A y \in T : <<y, x>> \notin R
  <2> HIDE DEF T, R
  <2>1. IsWellFoundedOn(R, FiniteSubsetsOf(Nat))
    BY FS_StrictSubsetOrderingWellFounded DEF R
  <2> QED BY <1>2, <2>1, WFMin
<1>4. PICK s \in S : \A t \in S : <<Below(t), Below(s)>> \notin R
  BY <1>3
<1>5. ASSUME NEW t \in S, t < s PROVE FALSE
  <2>1. Below(t) \subseteq Below(s) /\ t \in Below(s) /\ t \notin Below(t)
    BY <1>5
  <2> QED BY <1>4, <2>1 DEF StrictSubsetOrdering
<1> QED BY <1>5

-----------------------------------------------------------------------------
(* The family's lists *)

\* The rows appear in order: the member with the approval, its agreement and
\* its record after it.
RowsInOrder ==
    /\ player.status # "none" <=> filing = "approved"
    /\ paper.state # "none" => filing = "approved"
    /\ paper.submission \/ paper.remote # "" => paper.state # "none"
    /\ account.status # "none" => filing = "approved"
    /\ account.remote # "" => account.status # "none"

HubInv == FamilyHubTypeOK /\ RowsInOrder

LEMMA HubInvInit == FamilyHubInit => HubInv
<1> SUFFICES ASSUME FamilyHubInit PROVE HubInv
  OBVIOUS
<1>1. paper \in Paper /\ paper.state = "none" /\ paper.remote = "" /\ ~paper.submission
  BY DEF FamilyHubInit, NoPaper, Paper
<1>2. player \in Player /\ player.status = "none"
  BY DEF FamilyHubInit, Player
<1>3. account \in Account /\ account.status = "none" /\ account.remote = ""
  BY DEF FamilyHubInit, Account
<1> QED BY <1>1, <1>2, <1>3 DEF FamilyHubInit, HubInv, FamilyHubTypeOK, RowsInOrder

LEMMA NewPaperIs ==
    \A planned \in BOOLEAN :
        /\ NewPaper(planned) \in Paper
        /\ NewPaper(planned).state = "generated" /\ NewPaper(planned).remote = ""
        /\ ~NewPaper(planned).submission
BY DEF NewPaper, NoPaper, Paper

LEMMA WithAccountIs ==
    ASSUME account \in Account
    PROVE  /\ WithAccount \in Account /\ WithAccount.remote = account.remote
           /\ account.status # "none" => WithAccount = account
BY DEF WithAccount, Account

LEMMA HubInvStep == HubInv /\ [FamilyHubNext]_familyHubVars => HubInv'
<1> SUFFICES ASSUME HubInv, [FamilyHubNext]_familyHubVars PROVE HubInv'
  OBVIOUS
<1> USE DEF HubInv, FamilyHubTypeOK, RowsInOrder
<1>1. CASE HubSubmitted
  BY <1>1 DEF HubSubmitted
<1>2. CASE HubReviewed
  BY <1>2 DEF HubReviewed
<1>3. CASE HubApproved
  <2>1. paper' \in Paper /\ paper'.state = "generated" /\ paper'.remote = ""
        /\ ~paper'.submission
    BY <1>3, NewPaperIs DEF HubApproved
  <2>2. player' \in Player /\ player'.status = "active"
    <3>1. PICK grouped \in BOOLEAN : player' = [status |-> "active", grouped |-> grouped]
      BY <1>3 DEF HubApproved
    <3> QED BY <3>1 DEF Player
  <2> QED BY <1>3, <2>1, <2>2 DEF HubApproved
<1>4. CASE HubAssigned
  BY <1>4 DEF HubAssigned, Player
<1>5. CASE HubSetup \/ HubSent
  BY <1>5 DEF HubSetup, HubSent, Paper
<1>6. CASE HubSigned
  BY <1>6, WithAccountIs DEF HubSigned, MaySign, Paper
<1>7. CASE HubVoided
  BY <1>7 DEF HubVoided, Paper
<1>8. CASE HubRegenerated \/ HubAmended
  <2>1. paper.state # "none" /\ UNCHANGED <<filing, player, account, hubSells>>
    BY <1>8 DEF HubRegenerated, HubAmended
  <2>2. \E planned \in BOOLEAN : paper' = NewPaper(planned)
    BY <1>8 DEF HubRegenerated, HubAmended, Paper
  <2> QED BY <2>1, <2>2, NewPaperIs
<1>9. CASE HubDiscontinued
  BY <1>9 DEF HubDiscontinued, Paper, Player
<1>10. CASE HubCreateEnds
  BY <1>10 DEF HubCreateEnds, Paper
<1>11. CASE HubSyncEnds
  <2>1. PICK remote \in {"pending", "failed", "completed"} :
          LET signs == remote = "completed" /\ MaySign
          IN /\ paper' = [paper EXCEPT !.remote = remote,
                                       !.state = IF signs THEN "signed" ELSE @]
             /\ account' = IF signs THEN WithAccount ELSE account
    BY <1>11 DEF HubSyncEnds
  <2>2. /\ paper' \in Paper /\ paper'.state # "none"
        /\ account' \in Account /\ account'.remote = account.remote
        /\ account.status # "none" => account' = account
    BY <1>11, <2>1, WithAccountIs DEF HubSyncEnds, Paper
  <2> QED BY <1>11, <2>2 DEF HubSyncEnds
<1>12. CASE HubConfirmed \/ HubReopened \/ HubPushed
  BY <1>12 DEF HubConfirmed, HubReopened, HubPushed, Account
<1>13. CASE HubPushEnds
  BY <1>13 DEF HubPushEnds, Account
<1>14. CASE HubPlanToggled
  BY <1>14 DEF HubPlanToggled
<1>15. CASE UNCHANGED familyHubVars
  BY <1>15 DEF familyHubVars
<1> QED BY <1>1, <1>2, <1>3, <1>4, <1>5, <1>6, <1>7, <1>8, <1>9, <1>10, <1>11, <1>12, <1>13,
           <1>14, <1>15 DEF FamilyHubNext

\* When the form of each lane's action is on the page.
LEMMA FormsShown ==
    /\ FormShown("approve_application") <=> filing = "submitted"
    /\ FormShown("retry_docuseal") <=> paper.remote = "failed"
    /\ FormShown("mark_agreement_sent") <=> paper.state = "generated"
    /\ FormShown("mark_agreement_signed") <=> paper.state = "sent" /\ paper.planned
    /\ FormShown("set_billing_setup") <=> paper.state \in {"generated", "sent"} /\ ~paper.planned
    /\ FormShown("assign_training_group") <=> player.status # "none" /\ ~player.grouped
    /\ FormShown("confirm_billing") <=> account.status = "draft"
    /\ FormShown("push_billing") <=>
          account.status = "confirmed" /\ account.remote \notin {"pending", "synced"}
    /\ FormShown("sync_billing_payments") <=> account.status # "none"
BY DEF FormShown

LEMMA HubAlwaysInv == FamilyHubSpec => []HubInv
BY HubInvInit, HubInvStep, PTL DEF FamilyHubSpec

LEMMA RankIsPositive == ~(0 > 0)
OBVIOUS

\* For every reachable set of rows, the action queue and the family's hub agree
\* on whether the family needs work, and the changelist ranks none that they
\* leave out.
THEOREM ListsAlwaysAgree == FamilyHubSpec => []ListsAgree
<1>1. HubInv => ListsAgree
  <2> SUFFICES ASSUME HubInv PROVE ListsAgree
    OBVIOUS
  <2> USE DEF HubInv, FamilyHubTypeOK, RowsInOrder
  <2>1. InQueue <=> HubNeedsAction
    BY DEF InQueue, HubNeedsAction
  <2>2. ReviewRanked => ApplicationLane # ""
    BY DEF ReviewRanked, ApplicationLane
  <2>3. AgreementRanked => filing = "approved" /\ AgreementLane # ""
    BY DEF AgreementRanked, AgreementLane, Paper
  <2>4. BillingRanked => player.status # "none" /\ BillingLane # ""
    BY DEF BillingRanked, BillingLane, Account
  <2>5. ActionPriority > 0 => ReviewRanked \/ AgreementRanked \/ BillingRanked
    <3>1. ~(ReviewRanked \/ AgreementRanked \/ BillingRanked) => ActionPriority = 0
      BY DEF ActionPriority
    <3> QED BY <3>1, RankIsPositive
  <2>6. ActionPriority > 0 => InQueue
    BY <2>2, <2>3, <2>4, <2>5 DEF InQueue
  <2> QED BY <2>1, <2>6 DEF ListsAgree
<1> QED BY <1>1, HubAlwaysInv, PTL

\* In every reachable set of rows the hub shows the form of what a lane asks
\* for, the draft with a failed push apart, and the handler of every form it
\* shows accepts it.
THEOREM NextActionAlwaysWorks == FamilyHubSpec => []NextActionWorks
<1>1. HubInv => NextActionWorks
  <2> SUFFICES ASSUME HubInv PROVE NextActionWorks
    OBVIOUS
  <2> USE DEF HubInv, FamilyHubTypeOK, RowsInOrder
  <2>1. ApplicationLane \in {"", "view"} \/ FormShown(FormOf("application", ApplicationLane))
    BY FormsShown DEF ApplicationLane, FormOf
  <2>2. AgreementLane = "" \/ FormShown(FormOf("agreement", AgreementLane))
    <3>1. CASE paper.remote = "failed"
      BY <3>1, FormsShown DEF AgreementLane, FormOf
    <3>2. CASE paper.remote # "failed" /\ paper.state = "generated"
      BY <3>2, FormsShown DEF AgreementLane, FormOf
    <3>3. CASE paper.remote # "failed" /\ paper.state = "sent"
      <4>1. AgreementLane = "mark_signed"
        BY <3>3 DEF AgreementLane
      <4>2. FormOf("agreement", "mark_signed") =
              IF paper.planned THEN "mark_agreement_signed" ELSE "set_billing_setup"
        BY DEF FormOf
      <4> QED BY <3>3, <4>1, <4>2, FormsShown DEF Paper
    <3>4. CASE paper.remote # "failed" /\ paper.state \notin {"generated", "sent"}
      BY <3>4 DEF AgreementLane
    <3> QED BY <3>1, <3>2, <3>3, <3>4
  <2>3. MembershipLane = "" \/ FormShown(FormOf("membership", MembershipLane))
    BY FormsShown DEF MembershipLane, FormOf, Player
  <2>4. \/ BillingLane = ""
        \/ BillingLane = "push" /\ account.remote = "pending"
        \/ account.status = "draft" /\ account.remote = "failed"
        \/ FormShown(FormOf("billing", BillingLane))
    <3>1. CASE account.status = "none"
      BY <3>1 DEF BillingLane, Account
    <3>2. CASE account.remote = "failed" /\ account.status = "confirmed"
      <4>1. BillingLane = "retry"
        BY <3>2 DEF BillingLane
      <4>2. FormOf("billing", "retry") = "push_billing"
        BY DEF FormOf
      <4> QED BY <3>2, <4>1, <4>2, FormsShown
    <3>3. CASE account.status = "draft" /\ account.remote # "failed"
      BY <3>3, FormsShown DEF BillingLane, FormOf
    <3>4. CASE account.status = "confirmed" /\ account.remote \in {"", "pending"}
      BY <3>4, FormsShown DEF BillingLane, FormOf
    <3>5. CASE account.status = "confirmed" /\ account.remote = "synced"
      BY <3>5, FormsShown DEF BillingLane, FormOf
    <3> QED BY <3>1, <3>2, <3>3, <3>4, <3>5 DEF Account
  <2>5. ASSUME NEW form \in Forms, FormShown(form)
        PROVE  \/ form \in {"set_billing_setup", "mark_agreement_signed"} /\ ~hubSells
               \/ HandlerAccepts(form)
    <3>1. CASE form \in {"approve_application", "request_fix", "reject", "set_billing_setup",
                         "mark_agreement_sent", "mark_agreement_signed"}
      BY <2>5, <3>1 DEF FormShown, HandlerAccepts
    <3>2. CASE form \in {"retry_docuseal", "sync_docuseal", "minor_amendment",
                         "material_amendment", "discontinue_member", "void_agreement"}
      BY <2>5, <3>2 DEF FormShown, HandlerAccepts
    <3>3. CASE form \in {"assign_training_group", "confirm_billing", "push_billing",
                         "sync_billing_payments"}
      BY <2>5, <3>3 DEF FormShown, HandlerAccepts
    <3> QED BY <3>1, <3>2, <3>3 DEF Forms
  <2> QED BY <2>1, <2>2, <2>3, <2>4, <2>5 DEF NextActionWorks
<1> QED BY <1>1, HubAlwaysInv, PTL

-----------------------------------------------------------------------------
(* The discount of a family *)

DraftRow == [exists : BOOLEAN, percent : Tiers]

\* While the family's agreements stand as signed: a request that has taken its
\* stamp signs a generated agreement, and only signed agreements have drafts,
\* each in its season.
SignedOnce ==
    \A m \in Siblings :
        /\ deals[m].state \in {"generated", "signed"}
        /\ signer[m].at = "stamped" => deals[m].state = "generated"
        /\ signer[m].at = "saved" => deals[m].state = "signed"
        /\ \A s \in BillSeasons :
              drafts[<<m, s>>].exists => deals[m].state = "signed" /\ deals[m].season = s

\* Who pays less has a sibling that signed before.
DiscountHasReason ==
    \A s \in BillSeasons : \A m \in InSeason(s) :
        drafts[<<m, s>>].exists =>
            \/ drafts[<<m, s>>].percent = 0
            \/ \E n \in InSeason(s) : Before(n, m)

FamilyInv == FamilyTypeOK /\ (steady => SignedOnce /\ DiscountHasReason)

LEMMA TierIs ==
    ASSUME NEW m, NEW scope
    PROVE  /\ TierPercent(m, scope) \in Tiers
           /\ TierPercent(m, scope) # 0 => \E n \in scope : Before(n, m)
<1> DEFINE Earlier == {n \in scope : Before(n, m)}
<1>1. \A rank : Discount(rank) \in Tiers /\ Discount(0) = 0
  BY DEF Discount, Tiers
<1>2. CASE Earlier = {}
  <2>1. Rank(m, scope) = 0
    BY <1>2, FS_EmptySet DEF Rank
  <2> QED BY <1>1, <2>1 DEF TierPercent, Tiers
<1>3. CASE Earlier # {}
  <2>1. \E n \in scope : Before(n, m)
    BY <1>3
  <2> QED BY <1>1, <2>1 DEF TierPercent, Tiers
<1> QED BY <1>2, <1>3

\* What the guardian's transaction does to the drafts.
LEMMA DraftMadeIs ==
    ASSUME FamilyTypeOK, NEW m \in Siblings, NEW s \in BillSeasons, NEW scope,
           MakeDraft(m, s, scope)
    PROVE  /\ drafts' \in [Siblings \X BillSeasons -> DraftRow]
           /\ \A d \in Siblings \X BillSeasons :
                 d # <<m, s>> \/ drafts[d].exists => drafts'[d] = drafts[d]
           /\ ~drafts[<<m, s>>].exists => drafts'[<<m, s>>].percent = TierPercent(m, scope)
<1>1. CASE drafts[<<m, s>>].exists
  BY <1>1 DEF MakeDraft, FamilyTypeOK, DraftRow
<1>2. CASE ~drafts[<<m, s>>].exists
  <2> DEFINE row == [exists |-> TRUE, percent |-> TierPercent(m, scope)]
  <2>1. row \in DraftRow /\ row.percent = TierPercent(m, scope)
    BY TierIs DEF DraftRow
  <2>2. drafts' = [drafts EXCEPT ![<<m, s>>] = row]
    BY <1>2 DEF MakeDraft
  <2>3. drafts \in [Siblings \X BillSeasons -> DraftRow]
    BY DEF FamilyTypeOK, DraftRow
  <2> HIDE DEF row
  <2> QED BY <1>2, <2>1, <2>2, <2>3
<1> QED BY <1>1, <1>2

LEMMA DealEdits ==
    ASSUME NEW d \in Deal
    PROVE  /\ \A t \in 0 .. MaxClock : [d EXCEPT !.state = "signed", !.signedAt = t] \in Deal
           /\ \A st \in {"void", "discontinued"} : [d EXCEPT !.state = st] \in Deal
           /\ \A s \in BillSeasons : [d EXCEPT !.season = s] \in Deal
BY DEF Deal

LEMMA SignerEdits ==
    /\ IdleSigner \in Signer
    /\ \A t \in 0 .. MaxClock : [at |-> "stamped", stamp |-> t] \in Signer
    /\ \A b \in Signer : [b EXCEPT !.at = "saved"] \in Signer
BY FamilyAssumption DEF IdleSigner, Signer

\* Moving a record takes its row from one season to another.
LEMMA MovedIs ==
    ASSUME FamilyTypeOK, NEW m \in Siblings, NEW s \in BillSeasons, NEW t \in BillSeasons,
           MoveDraft(m, s, t)
    PROVE  /\ drafts' \in [Siblings \X BillSeasons -> DraftRow]
           /\ t = s => drafts' = drafts
           /\ \A d \in Siblings \X BillSeasons :
                 drafts[d].exists =>
                     /\ d # <<m, s>> => drafts'[d] = drafts[d]
                     /\ d = <<m, s>> => drafts'[<<m, t>>] = drafts[d]
<1> DEFINE old == drafts[<<m, s>>]
<1>1. drafts \in [Siblings \X BillSeasons -> DraftRow] /\ old \in DraftRow /\ NoDraft \in DraftRow
  BY DEF FamilyTypeOK, DraftRow, NoDraft, Tiers
<1>2. drafts' = [drafts EXCEPT ![<<m, s>>] = NoDraft, ![<<m, t>>] = old]
  BY DEF MoveDraft
<1>3. t # s => ~drafts[<<m, t>>].exists
  BY DEF MoveDraft
<1> HIDE DEF old
<1>4. drafts' \in [Siblings \X BillSeasons -> DraftRow]
  BY <1>1, <1>2
<1>5. t = s => drafts' = drafts
  <2>1. old = drafts[<<m, s>>]
    BY DEF old
  <2>2. ASSUME t = s, NEW d \in Siblings \X BillSeasons PROVE drafts'[d] = drafts[d]
    BY <1>1, <1>2, <2>1, <2>2
  <2> QED BY <1>1, <1>4, <2>2
<1>6. drafts'[<<m, t>>] = old
  BY <1>1, <1>2
<1>7. \A d \in Siblings \X BillSeasons :
        d # <<m, s>> /\ d # <<m, t>> => drafts'[d] = drafts[d]
  BY <1>1, <1>2
<1> QED BY <1>3, <1>4, <1>5, <1>6, <1>7 DEF old

LEMMA FamilyTypeStep == FamilyTypeOK /\ FamilyNext => FamilyTypeOK'
<1> SUFFICES ASSUME FamilyTypeOK, FamilyNext PROVE FamilyTypeOK'
  OBVIOUS
<1>0. /\ deals \in [Siblings -> Deal] /\ signer \in [Siblings -> Signer] /\ clock \in 0 .. MaxClock
      /\ drafts \in [Siblings \X BillSeasons -> DraftRow] /\ steady \in BOOLEAN
      /\ \A m \in Siblings : signer[m].stamp \in 0 .. MaxClock /\ deals[m].season \in BillSeasons
  BY DEF FamilyTypeOK, DraftRow, Signer, Deal
<1>1. ASSUME NEW m \in Siblings, StampSigned(m) \/ SigningEnds(m)
      PROVE  signer' \in [Siblings -> Signer] /\ UNCHANGED <<deals, drafts, clock, steady>>
  BY <1>0, <1>1, SignerEdits DEF StampSigned, SigningEnds
<1>2. ASSUME NEW m \in Siblings, SaveStamp(m)
      PROVE  /\ deals' \in [Siblings -> Deal] /\ signer' \in [Siblings -> Signer]
             /\ UNCHANGED <<drafts, clock, steady>>
  <2>1. PICK d \in Deal : deals' = [deals EXCEPT ![m] = d]
    BY <1>0, <1>2, DealEdits DEF SaveStamp
  <2>2. PICK b \in Signer : signer' = [signer EXCEPT ![m] = b]
    BY <1>0, <1>2, SignerEdits DEF SaveStamp
  <2> QED BY <1>0, <1>2, <2>1, <2>2 DEF SaveStamp
<1>3. ASSUME NEW m \in Siblings, DraftSigned(m)
      PROVE  /\ signer' \in [Siblings -> Signer]
             /\ drafts' \in [Siblings \X BillSeasons -> DraftRow]
             /\ UNCHANGED <<deals, clock, steady>>
  BY <1>0, <1>3, SignerEdits, DraftMadeIs DEF DraftSigned
<1>4. ASSUME NEW m \in Siblings, RecreateDraft(m)
      PROVE  /\ drafts' \in [Siblings \X BillSeasons -> DraftRow]
             /\ UNCHANGED <<deals, signer, clock, steady>>
  BY <1>0, <1>4, DraftMadeIs DEF RecreateDraft
<1>5. ASSUME NEW m \in Siblings, VoidDeal(m) \/ DiscontinueDeal(m)
      PROVE  /\ deals' \in [Siblings -> Deal] /\ UNCHANGED <<signer, drafts, clock>>
             /\ steady' = FALSE
  <2>1. PICK d \in Deal : deals' = [deals EXCEPT ![m] = d]
    BY <1>0, <1>5, DealEdits DEF VoidDeal, DiscontinueDeal
  <2> QED BY <1>0, <1>5, <2>1 DEF VoidDeal, DiscontinueDeal
<1>6. ASSUME NEW m \in Siblings, NEW s \in BillSeasons, RenewDraft(m, s)
      PROVE  /\ drafts' \in [Siblings \X BillSeasons -> DraftRow]
             /\ UNCHANGED <<deals, signer, clock>> /\ steady' = FALSE
  BY <1>6, DraftMadeIs DEF RenewDraft
<1>8. ASSUME NEW m \in Siblings, NEW s \in BillSeasons, RegenerateDeal(m, s)
      PROVE  deals' \in [Siblings -> Deal] /\ UNCHANGED <<signer, drafts, clock, steady>>
  <2>1. [state |-> "generated", signedAt |-> 0, season |-> s] \in Deal
    BY FamilyAssumption DEF Deal
  <2> QED BY <1>0, <1>8, <2>1 DEF RegenerateDeal
<1>9. ASSUME NEW m \in Siblings, NEW s \in BillSeasons, NEW t \in BillSeasons, MoveDraft(m, s, t)
      PROVE  /\ deals' \in [Siblings -> Deal] /\ drafts' \in [Siblings \X BillSeasons -> DraftRow]
             /\ steady' \in BOOLEAN /\ UNCHANGED <<signer, clock>>
  <2>1. PICK d \in Deal : deals' \in {deals, [deals EXCEPT ![m] = d]}
    BY <1>0, <1>9, DealEdits DEF MoveDraft
  <2>2. steady' = (steady /\ t = s)
    BY <1>9 DEF MoveDraft
  <2>3. drafts' \in [Siblings \X BillSeasons -> DraftRow]
    BY <1>9, MovedIs
  <2>4. UNCHANGED <<signer, clock>>
    BY <1>9 DEF MoveDraft
  <2> QED BY <1>0, <2>1, <2>2, <2>3, <2>4
<1>10. Tick => clock' \in 0 .. MaxClock /\ UNCHANGED <<deals, signer, drafts, steady>>
  BY <1>0, FamilyAssumption DEF Tick
<1>11. ASSUME deals' \in [Siblings -> Deal], signer' \in [Siblings -> Signer],
              drafts' \in [Siblings \X BillSeasons -> DraftRow], clock' \in 0 .. MaxClock,
              steady' \in BOOLEAN
       PROVE  FamilyTypeOK'
  BY <1>11 DEF FamilyTypeOK, DraftRow
<1>12. ASSUME NEW m \in Siblings, NEW s \in BillSeasons,
              \/ RenewDraft(m, s) \/ RegenerateDeal(m, s)
              \/ \E t \in BillSeasons : MoveDraft(m, s, t)
       PROVE  FamilyTypeOK'
  <2>1. CASE \E t \in BillSeasons : MoveDraft(m, s, t)
    BY <1>0, <1>9, <1>11, <2>1
  <2>2. CASE RenewDraft(m, s)
    BY <1>0, <1>6, <1>11, <2>2
  <2>3. CASE RegenerateDeal(m, s)
    BY <1>0, <1>8, <1>11, <2>3
  <2> QED BY <1>12, <2>1, <2>2, <2>3
<1>13. ASSUME NEW m \in Siblings,
              \/ StampSigned(m) \/ SaveStamp(m) \/ DraftSigned(m) \/ SigningEnds(m)
              \/ RecreateDraft(m) \/ VoidDeal(m) \/ DiscontinueDeal(m)
       PROVE  FamilyTypeOK'
  <2>1. CASE StampSigned(m) \/ SigningEnds(m)
    BY <1>0, <1>1, <1>11, <2>1
  <2>2. CASE SaveStamp(m)
    BY <1>0, <1>2, <1>11, <2>2
  <2>3. CASE DraftSigned(m)
    BY <1>0, <1>3, <1>11, <2>3
  <2>4. CASE RecreateDraft(m)
    BY <1>0, <1>4, <1>11, <2>4
  <2>5. CASE VoidDeal(m) \/ DiscontinueDeal(m)
    BY <1>0, <1>5, <1>11, <2>5
  <2> QED BY <1>13, <2>1, <2>2, <2>3, <2>4, <2>5
<1>14. Tick => FamilyTypeOK'
  BY <1>0, <1>10 DEF FamilyTypeOK, DraftRow
<1> QED BY <1>12, <1>13, <1>14 DEF FamilyNext

LEMMA FamilyInvInit == FamilyInit => FamilyInv
<1> SUFFICES ASSUME FamilyInit PROVE FamilyInv
  OBVIOUS
<1>1. deals \in [Siblings -> Deal] /\ \A m \in Siblings : deals[m].state = "generated"
  BY FamilyAssumption DEF FamilyInit, Deal
<1>2. NoDraft \in DraftRow /\ ~NoDraft.exists
  BY DEF NoDraft, DraftRow, Tiers
<1>3. FamilyTypeOK
  BY <1>1, <1>2, SignerEdits, FamilyAssumption DEF FamilyInit, FamilyTypeOK, DraftRow
<1>4. \A m \in Siblings, s \in BillSeasons : ~drafts[<<m, s>>].exists
  BY <1>2 DEF FamilyInit
<1>5. \A m \in Siblings : signer[m].at = "idle"
  BY DEF FamilyInit, IdleSigner
<1> QED BY <1>1, <1>3, <1>4, <1>5
        DEF FamilyInv, SignedOnce, DiscountHasReason, InSeason, SignedFamily

\* What a step may do that leaves every agreement as signed: a request saves
\* its stamp, a draft is made, or neither rows nor agreements move.
LEMMA SteadyKinds ==
    ASSUME FamilyTypeOK, SignedOnce, FamilyNext, steady'
    PROVE  /\ steady
           /\ \/ UNCHANGED <<deals, drafts>>
              \/ \E m \in Siblings : SaveStamp(m)
              \/ \E m \in Siblings :
                    /\ deals[m].state = "signed" /\ UNCHANGED deals
                    /\ MakeDraft(m, deals[m].season, InSeason(deals[m].season))
<1>1. ASSUME NEW m \in Siblings, StampSigned(m) \/ SigningEnds(m)
      PROVE  UNCHANGED <<deals, drafts>> /\ steady' = steady
  BY <1>1 DEF StampSigned, SigningEnds
<1>2. ASSUME NEW m \in Siblings, DraftSigned(m)
      PROVE  /\ deals[m].state = "signed" /\ UNCHANGED deals /\ steady' = steady
             /\ MakeDraft(m, deals[m].season, InSeason(deals[m].season))
  BY <1>2 DEF DraftSigned, SignedOnce
<1>3. ASSUME NEW m \in Siblings, RecreateDraft(m)
      PROVE  /\ deals[m].state = "signed" /\ UNCHANGED deals /\ steady' = steady
             /\ MakeDraft(m, deals[m].season, InSeason(deals[m].season))
  BY <1>3 DEF RecreateDraft
<1>4. ASSUME NEW m \in Siblings, VoidDeal(m) \/ DiscontinueDeal(m) PROVE FALSE
  BY <1>4 DEF VoidDeal, DiscontinueDeal
<1>5. ASSUME NEW m \in Siblings, NEW s \in BillSeasons, RenewDraft(m, s) \/ RegenerateDeal(m, s)
      PROVE  FALSE
  BY <1>5 DEF RenewDraft, RegenerateDeal, SignedOnce
<1>6. ASSUME NEW m \in Siblings, NEW s \in BillSeasons, NEW t \in BillSeasons, MoveDraft(m, s, t)
      PROVE  UNCHANGED <<deals, drafts>> /\ steady
  <2>1. /\ steady /\ t = s /\ drafts[<<m, s>>].exists
        /\ deals' \in {deals, [deals EXCEPT ![m].season = t]}
    BY <1>6 DEF MoveDraft
  <2>2. drafts' = drafts
    BY <1>6, <2>1, MovedIs
  <2>3. deals[m].season = s /\ deals[m] \in Deal /\ deals \in [Siblings -> Deal]
    BY <2>1 DEF SignedOnce, FamilyTypeOK
  <2>4. [deals[m] EXCEPT !.season = s] = deals[m]
    BY <2>3 DEF Deal
  <2>5. [deals EXCEPT ![m].season = s] = deals
    BY <2>3, <2>4
  <2> QED BY <2>1, <2>2, <2>5
<1>7. Tick => UNCHANGED <<deals, drafts>> /\ steady' = steady
  BY DEF Tick
<1>8. ASSUME NEW m \in Siblings, SaveStamp(m) PROVE steady' = steady
  BY <1>8 DEF SaveStamp
<1> QED BY <1>1, <1>2, <1>3, <1>4, <1>5, <1>6, <1>7, <1>8 DEF FamilyNext

LEMMA SignerKinds ==
    ASSUME FamilyTypeOK, FamilyNext, NEW m \in Siblings
    PROVE  \/ signer'[m] = signer[m]
           \/ signer'[m].at = "idle"
           \/ signer'[m].at = "stamped" /\ deals[m].state = "generated" /\ UNCHANGED deals
           \/ SaveStamp(m)
<1>0. signer \in [Siblings -> Signer] /\ IdleSigner.at = "idle"
  BY DEF FamilyTypeOK, IdleSigner
<1>1. ASSUME NEW n \in Siblings, StampSigned(n)
      PROVE  \/ signer'[m] = signer[m]
             \/ signer'[m].at = "stamped" /\ deals[m].state = "generated" /\ UNCHANGED deals
  BY <1>0, <1>1 DEF StampSigned
<1>2. ASSUME NEW n \in Siblings, SigningEnds(n) \/ DraftSigned(n)
      PROVE  signer'[m] = signer[m] \/ signer'[m].at = "idle"
  BY <1>0, <1>2 DEF SigningEnds, DraftSigned
<1>3. ASSUME NEW n \in Siblings, SaveStamp(n)
      PROVE  signer'[m] = signer[m] \/ SaveStamp(m)
  <2>1. CASE n = m
    BY <1>3, <2>1
  <2>2. CASE n # m
    BY <1>0, <1>3, <2>2 DEF SaveStamp
  <2> QED BY <2>1, <2>2
<1>4. ASSUME NEW n \in Siblings, RecreateDraft(n) \/ VoidDeal(n) \/ DiscontinueDeal(n)
      PROVE  signer'[m] = signer[m]
  BY <1>4 DEF RecreateDraft, VoidDeal, DiscontinueDeal
<1>5. ASSUME NEW n \in Siblings, NEW s \in BillSeasons,
             RenewDraft(n, s) \/ RegenerateDeal(n, s)
      PROVE  signer'[m] = signer[m]
  BY <1>5 DEF RenewDraft, RegenerateDeal
<1>6. ASSUME NEW n \in Siblings, NEW s \in BillSeasons, NEW t \in BillSeasons, MoveDraft(n, s, t)
      PROVE  signer'[m] = signer[m]
  BY <1>6 DEF MoveDraft
<1>7. Tick => signer'[m] = signer[m]
  BY DEF Tick
<1> QED BY <1>1, <1>2, <1>3, <1>4, <1>5, <1>6, <1>7 DEF FamilyNext

\* Saving the stamp signs a generated agreement and leaves its season alone.
LEMMA SaveStampIs ==
    ASSUME FamilyTypeOK, NEW m \in Siblings, SaveStamp(m)
    PROVE  /\ signer[m].at = "stamped" /\ signer'[m].at = "saved" /\ UNCHANGED drafts
           /\ deals'[m].state = "signed" /\ deals'[m].season = deals[m].season
           /\ \A n \in Siblings \ {m} : deals'[n] = deals[n] /\ signer'[n] = signer[n]
<1>1. deals[m] \in Deal /\ signer[m] \in Signer
  BY DEF FamilyTypeOK
<1>2. /\ deals \in [Siblings -> Deal] /\ signer \in [Siblings -> Signer]
      /\ deals' = [deals EXCEPT ![m] = [deals[m] EXCEPT !.state = "signed",
                                                        !.signedAt = signer[m].stamp]]
      /\ signer' = [signer EXCEPT ![m] = [signer[m] EXCEPT !.at = "saved"]]
      /\ signer[m].at = "stamped" /\ drafts' = drafts
  BY DEF FamilyTypeOK, SaveStamp
<1>3. deals'[m].state = "signed" /\ deals'[m].season = deals[m].season
  BY <1>1, <1>2 DEF Deal
<1>4. signer'[m].at = "saved"
  BY <1>1, <1>2 DEF Signer
<1> QED BY <1>2, <1>3, <1>4

LEMMA StepKeepsSignedOnce ==
    ASSUME FamilyTypeOK, SignedOnce, FamilyNext, steady'
    PROVE  SignedOnce'
<1>1. ASSUME NEW m \in Siblings, SaveStamp(m) PROVE SignedOnce'
  <2>1. deals[m].state = "generated" /\ \A s \in BillSeasons : ~drafts[<<m, s>>].exists
    BY <1>1, SaveStampIs DEF SignedOnce
  <2> QED BY <1>1, <2>1, SaveStampIs DEF SignedOnce
<1>2. CASE ~\E m \in Siblings : SaveStamp(m)
  <2>1. UNCHANGED deals
    BY <1>2, SteadyKinds
  <2>2. ASSUME NEW m \in Siblings
        PROVE  /\ signer'[m].at = "stamped" => deals[m].state = "generated"
               /\ signer'[m].at = "saved" => deals[m].state = "signed"
    BY <1>2, SignerKinds DEF SignedOnce
  <2>3. ASSUME NEW m \in Siblings, NEW s \in BillSeasons, drafts'[<<m, s>>].exists
        PROVE  deals[m].state = "signed" /\ deals[m].season = s
    <3>1. CASE drafts[<<m, s>>].exists
      BY <3>1 DEF SignedOnce
    <3>2. CASE ~drafts[<<m, s>>].exists
      <4>1. ~UNCHANGED drafts
        BY <2>3, <3>2
      <4>3. PICK n \in Siblings : /\ deals[n].state = "signed"
                                  /\ MakeDraft(n, deals[n].season, InSeason(deals[n].season))
        BY <1>2, <4>1, SteadyKinds
      <4>4. deals[n].season \in BillSeasons /\ <<m, s>> \in Siblings \X BillSeasons
        BY DEF FamilyTypeOK, Deal
      <4>5. <<m, s>> = <<n, deals[n].season>>
        BY <2>3, <3>2, <4>3, <4>4, DraftMadeIs
      <4> QED BY <4>3, <4>5
    <3> QED BY <3>1, <3>2
  <2> QED BY <2>1, <2>2, <2>3 DEF SignedOnce
<1> QED BY <1>1, <1>2

LEMMA StepKeepsReason ==
    ASSUME FamilyTypeOK, SignedOnce, DiscountHasReason, FamilyNext, steady'
    PROVE  DiscountHasReason'
<1> SUFFICES ASSUME NEW s \in BillSeasons, NEW m \in InSeason(s)', drafts'[<<m, s>>].exists,
                    drafts'[<<m, s>>].percent # 0
             PROVE  \E n \in InSeason(s)' : Before(n, m)'
  BY DEF DiscountHasReason
<1>0. m \in Siblings /\ <<m, s>> \in Siblings \X BillSeasons
  BY DEF InSeason, SignedFamily
<1>1. ASSUME NEW k \in Siblings, SaveStamp(k) PROVE \E n \in InSeason(s)' : Before(n, m)'
  <2>1. deals[k].state = "generated" /\ ~drafts[<<k, s>>].exists
    BY <1>1, SaveStampIs DEF SignedOnce
  <2>2. m # k /\ drafts' = drafts /\ deals'[m] = deals[m]
    BY <1>0, <1>1, <2>1, SaveStampIs
  <2>3. m \in InSeason(s)
    BY <1>0, <2>2 DEF InSeason, SignedFamily
  <2>4. PICK n \in InSeason(s) : Before(n, m)
    BY <2>2, <2>3 DEF DiscountHasReason
  <2>5. n \in Siblings \ {k}
    BY <2>1 DEF InSeason, SignedFamily
  <2>6. deals'[n] = deals[n]
    BY <1>1, <2>5, SaveStampIs
  <2> QED BY <2>2, <2>4, <2>6 DEF InSeason, SignedFamily, Before
<1>2. CASE ~\E k \in Siblings : SaveStamp(k)
  <2>1. UNCHANGED deals
    BY <1>2, SteadyKinds
  <2>2. m \in InSeason(s)
    BY <2>1 DEF InSeason, SignedFamily
  <2>3. SUFFICES \E n \in InSeason(s) : Before(n, m)
    BY <2>1 DEF InSeason, SignedFamily, Before
  <2>4. CASE /\ drafts[<<m, s>>].exists
             /\ drafts'[<<m, s>>].percent = drafts[<<m, s>>].percent
    BY <2>2, <2>4 DEF DiscountHasReason
  <2>5. ASSUME NEW k \in Siblings, MakeDraft(k, deals[k].season, InSeason(deals[k].season))
        PROVE  \E n \in InSeason(s) : Before(n, m)
    <3>1. deals[k].season \in BillSeasons
      BY DEF FamilyTypeOK, Deal
    <3>2. CASE drafts'[<<m, s>>] = drafts[<<m, s>>]
      BY <2>4, <3>2
    <3>3. CASE drafts'[<<m, s>>] # drafts[<<m, s>>]
      <4>1. m = k /\ s = deals[k].season /\ ~drafts[<<m, s>>].exists
        BY <1>0, <2>5, <3>1, <3>3, DraftMadeIs
      <4>2. drafts'[<<m, s>>].percent = TierPercent(m, InSeason(s))
        BY <1>0, <2>5, <4>1, DraftMadeIs
      <4> QED BY <4>2, TierIs
    <3> QED BY <3>2, <3>3
  <2>6. CASE UNCHANGED drafts
    BY <2>4, <2>6
  <2> QED BY <1>2, <2>5, <2>6, SteadyKinds
<1> QED BY <1>1, <1>2

\* What made the family unsteady once keeps it so.
LEMMA SteadyBefore == FamilyTypeOK /\ FamilyNext /\ steady' => steady
BY DEF FamilyNext, StampSigned, SaveStamp, DraftSigned, SigningEnds, RecreateDraft, VoidDeal,
       DiscontinueDeal, RenewDraft, RegenerateDeal, MoveDraft, Tick

LEMMA FamilyInvStep == FamilyInv /\ [FamilyNext]_familyVars => FamilyInv'
<1>1. ASSUME FamilyInv, FamilyNext PROVE FamilyInv'
  <2>1. FamilyTypeOK /\ FamilyTypeOK'
    BY <1>1, FamilyTypeStep DEF FamilyInv
  <2>2. ASSUME steady' PROVE SignedOnce' /\ DiscountHasReason'
    <3>1. steady
      BY <1>1, <2>1, <2>2, SteadyBefore
    <3>2. SignedOnce /\ DiscountHasReason
      BY <1>1, <3>1 DEF FamilyInv
    <3> QED BY <1>1, <2>1, <2>2, <3>2, StepKeepsSignedOnce, StepKeepsReason
  <2> QED BY <2>1, <2>2 DEF FamilyInv
<1>2. ASSUME FamilyInv, UNCHANGED familyVars PROVE FamilyInv'
  BY <1>2 DEF familyVars, FamilyInv, FamilyTypeOK, SignedOnce, DiscountHasReason, InSeason,
              SignedFamily, Before
<1> QED BY <1>1, <1>2

LEMMA FamilyAlwaysInv == FamilySpec => []FamilyInv
BY FamilyInvInit, FamilyInvStep, PTL DEF FamilySpec

\* Every draft, agreement and request keeps its type.
THEOREM FamilyTypeCorrect == FamilySpec => []FamilyTypeOK
<1>1. FamilyInv => FamilyTypeOK
  BY DEF FamilyInv
<1> QED BY <1>1, FamilyAlwaysInv, PTL

LEMMA FirstSigned ==
    ASSUME FamilyTypeOK, NEW S \in SUBSET Siblings, S # {}
    PROVE  \E m \in S : \A n \in S : ~Before(n, m)
<1> DEFINE Stamps == {deals[n].signedAt : n \in S}
<1>0. \A n \in Siblings : n \in Nat /\ deals[n].signedAt \in Nat
  BY FamilyAssumption DEF FamilyTypeOK, Deal
<1>1. PICK t \in Stamps : \A u \in Stamps : t <= u
  <2>1. Stamps \in SUBSET Nat /\ Stamps # {}
    BY <1>0
  <2> HIDE DEF Stamps
  <2> QED BY <2>1, LeastNatural
<1> DEFINE Firsts == {n \in S : deals[n].signedAt = t}
<1>2. PICK m \in Firsts : \A n \in Firsts : m <= n
  <2>1. Firsts \in SUBSET Nat /\ Firsts # {}
    BY <1>0, <1>1
  <2> HIDE DEF Firsts
  <2> QED BY <2>1, LeastNatural
<1>3. ASSUME NEW n \in S, Before(n, m) PROVE FALSE
  BY <1>0, <1>1, <1>2, <1>3 DEF Before
<1> QED BY <1>2, <1>3

\* For any number of siblings and seasons: a family whose signed siblings all
\* have their draft of a season has one at full price, the first to have signed,
\* however the signings overlap and break off.
THEOREM FirstChildPaysInFull == FamilySpec => []FullPricePayer
<1>1. FamilyInv => FullPricePayer
  <2> SUFFICES ASSUME FamilyInv, NEW s \in BillSeasons, steady, InSeason(s) # {}, Drafted(s)
               PROVE  \E m \in InSeason(s) : drafts[<<m, s>>].percent = 0
    BY DEF FullPricePayer
  <2>1. PICK m \in InSeason(s) : \A n \in InSeason(s) : ~Before(n, m)
    BY FirstSigned DEF FamilyInv, InSeason, SignedFamily
  <2> QED BY <2>1 DEF FamilyInv, DiscountHasReason, Drafted
<1> QED BY <1>1, FamilyAlwaysInv, PTL

-----------------------------------------------------------------------------
(* Siblings who share a percentage *)

USE FamilyAssumption

\* As long as the agreements stand, ranks only grow: a sibling may come to be
\* known as having signed before. A draft holds its member's rank or a lower one.
RankBelow ==
    \A s \in BillSeasons : \A m \in InSeason(s) :
        drafts[<<m, s>>].exists => drafts[<<m, s>>].percent <= TierPercent(m, InSeason(s))

RankInv == steady => RankBelow

LEMMA RankInvInit == FamilyInit => RankInv
<1> SUFFICES ASSUME FamilyInit PROVE \A s \in BillSeasons : InSeason(s) = {}
  BY DEF RankInv, RankBelow
<1>1. ASSUME NEW m \in Siblings PROVE deals[m].state = "generated"
  <2>1. deals[m] \in {[state |-> "generated", signedAt |-> 0, season |-> s] : s \in BillSeasons}
    BY DEF FamilyInit
  <2> QED BY <2>1
<1>2. SignedFamily = {}
  BY <1>1 DEF SignedFamily
<1> QED BY <1>2 DEF InSeason

\* The more siblings signed before, the higher the discount.
LEMMA DiscountGrows ==
    ASSUME NEW i \in Nat, NEW j \in Nat, i <= j
    PROVE  /\ Discount(i) \in Tiers /\ Discount(j) \in Tiers /\ Discount(i) <= Discount(j)
           /\ (i < j /\ Discount(j) < 100) => Discount(i) < Discount(j)
BY DEF Discount, Tiers

LEMMA CountGrows ==
    ASSUME NEW T \in SUBSET Siblings, NEW S \in SUBSET T
    PROVE  /\ Cardinality(S) \in Nat /\ Cardinality(T) \in Nat
           /\ Cardinality(S) <= Cardinality(T)
           /\ S # T => Cardinality(S) < Cardinality(T)
<1>1. IsFiniteSet(T)
  BY FS_Subset
<1>2. IsFiniteSet(S) /\ Cardinality(S) <= Cardinality(T) /\ (Cardinality(S) = Cardinality(T) => S = T)
  BY <1>1, FS_Subset
<1>3. Cardinality(S) \in Nat /\ Cardinality(T) \in Nat
  BY <1>1, <1>2, FS_CardinalityType
<1> QED BY <1>2, <1>3

\* Who signed before has the lower rank, and the lower discount below 100 %.
LEMMA RanksDiffer ==
    ASSUME FamilyTypeOK, NEW scope \in SUBSET Siblings, NEW m \in scope, NEW n \in scope, Before(m, n)
    PROVE  /\ Discount(Rank(m, scope)) \in Tiers /\ Discount(Rank(n, scope)) \in Tiers
           /\ Discount(Rank(n, scope)) < 100
                 => Discount(Rank(m, scope)) < Discount(Rank(n, scope))
<1> DEFINE ToM == {k \in scope : Before(k, m)}
           ToN == {k \in scope : Before(k, n)}
<1>1. \A k \in Siblings : k \in Nat /\ deals[k].signedAt \in Nat
  BY DEF FamilyTypeOK, Deal
<1>2. m \in Siblings /\ n \in Siblings
  OBVIOUS
<1>3. ASSUME NEW k \in Siblings PROVE ~Before(k, k)
  <2>1. \A i \in Nat : ~(i < i)
    OBVIOUS
  <2> QED BY <1>1, <2>1 DEF Before
<1>4. ASSUME NEW k \in Siblings, Before(k, m) PROVE Before(k, n)
  <2>1. \A i, j, l \in Nat : i < j /\ j < l => i < l
    OBVIOUS
  <2> QED BY <1>1, <1>2, <1>4, <2>1 DEF Before
<1>5. /\ ToM \in SUBSET ToN /\ m \in ToN /\ m \notin ToM /\ ToN \in SUBSET Siblings
      /\ Rank(m, scope) = Cardinality(ToM) /\ Rank(n, scope) = Cardinality(ToN)
  BY <1>2, <1>3, <1>4 DEF Rank
<1> HIDE DEF ToM, ToN
<1>6. /\ Cardinality(ToM) \in Nat /\ Cardinality(ToN) \in Nat
      /\ Cardinality(ToM) < Cardinality(ToN)
  BY <1>5, CountGrows
<1> QED BY <1>5, <1>6, DiscountGrows

\* The percentage of a new draft is its member's rank among the signed.
LEMMA NewDraftIs ==
    ASSUME FamilyTypeOK, SignedOnce, FamilyNext, steady', NEW m \in Siblings, NEW s \in BillSeasons,
           ~drafts[<<m, s>>].exists, drafts'[<<m, s>>].exists
    PROVE  /\ UNCHANGED deals /\ drafts'[<<m, s>>].percent = TierPercent(m, InSeason(s))
           /\ deals[m].state = "signed" /\ deals[m].season = s
           /\ \A n \in Siblings, t \in BillSeasons : drafts[<<n, t>>].exists => drafts'[<<n, t>>] = drafts[<<n, t>>]
<1>0. <<m, s>> \in Siblings \X BillSeasons
  OBVIOUS
<1>1. ~UNCHANGED drafts
  OBVIOUS
<1>2. ASSUME NEW k \in Siblings, SaveStamp(k) PROVE FALSE
  BY <1>1, <1>2, SaveStampIs
<1>3. PICK k \in Siblings : /\ deals[k].state = "signed" /\ UNCHANGED deals
                            /\ MakeDraft(k, deals[k].season, InSeason(deals[k].season))
  BY <1>1, <1>2, SteadyKinds
<1>4. deals[k].season \in BillSeasons
  BY DEF FamilyTypeOK, Deal
<1>5. m = k /\ s = deals[k].season
  BY <1>0, <1>3, <1>4, DraftMadeIs
<1> QED BY <1>3, <1>4, <1>5, DraftMadeIs

LEMMA StepKeepsRank ==
    ASSUME FamilyTypeOK, SignedOnce, RankBelow, FamilyNext, steady'
    PROVE  RankBelow'
<1> SUFFICES ASSUME NEW s \in BillSeasons, NEW m \in InSeason(s)', drafts'[<<m, s>>].exists
             PROVE  drafts'[<<m, s>>].percent <= TierPercent(m, InSeason(s))'
  BY DEF RankBelow
<1>0. m \in Siblings /\ <<m, s>> \in Siblings \X BillSeasons
  BY DEF InSeason, SignedFamily
<1>1. ASSUME NEW k \in Siblings, SaveStamp(k)
      PROVE  drafts'[<<m, s>>].percent <= TierPercent(m, InSeason(s))'
  <2> DEFINE Earlier == {n \in InSeason(s) : Before(n, m)}
             Now == {n \in InSeason(s)' : Before(n, m)'}
  <2>1. deals[k].state = "generated" /\ ~drafts[<<k, s>>].exists
    BY <1>1, SaveStampIs DEF SignedOnce
  <2>2. m # k /\ drafts' = drafts /\ deals'[m] = deals[m]
    BY <1>0, <1>1, <2>1, SaveStampIs
  <2>3. m \in InSeason(s)
    BY <1>0, <2>2 DEF InSeason, SignedFamily
  <2>4. \A n \in Siblings \ {k} : /\ Before(n, m)' <=> Before(n, m)
                                  /\ n \in InSeason(s)' <=> n \in InSeason(s)
    BY <1>1, <2>2, SaveStampIs DEF Before, InSeason, SignedFamily
  <2>5. k \notin InSeason(s) /\ InSeason(s) \subseteq Siblings /\ InSeason(s)' \subseteq Siblings
    BY <2>1 DEF InSeason, SignedFamily
  <2>6. Earlier \in SUBSET Now /\ Now \in SUBSET Siblings
    BY <2>4, <2>5
  <2>7. Rank(m, InSeason(s)) = Cardinality(Earlier) /\ Rank(m, InSeason(s))' = Cardinality(Now)
    BY <2>3 DEF Rank
  <2> HIDE DEF Earlier, Now
  <2>8. /\ Discount(Cardinality(Earlier)) \in Tiers /\ Discount(Cardinality(Now)) \in Tiers
        /\ Discount(Cardinality(Earlier)) <= Discount(Cardinality(Now))
    BY <2>6, CountGrows, DiscountGrows
  <2>9. /\ TierPercent(m, InSeason(s)) \in Nat /\ TierPercent(m, InSeason(s))' \in Nat
        /\ TierPercent(m, InSeason(s)) <= TierPercent(m, InSeason(s))'
    BY <2>7, <2>8 DEF TierPercent, Tiers
  <2>10. drafts[<<m, s>>].percent \in Nat /\ drafts[<<m, s>>].percent <= TierPercent(m, InSeason(s))
    <3>1. drafts \in [Siblings \X BillSeasons -> DraftRow]
      BY DEF FamilyTypeOK, DraftRow
    <3>2. drafts[<<m, s>>] \in DraftRow
      BY <1>0, <3>1
    <3>3. drafts[<<m, s>>].percent \in Nat
      BY <3>2 DEF DraftRow, Tiers
    <3>4. drafts[<<m, s>>].exists
      BY <2>2
    <3> QED BY <2>3, <3>3, <3>4 DEF RankBelow
  <2> QED BY <2>2, <2>9, <2>10
<1>2. CASE ~\E k \in Siblings : SaveStamp(k)
  <2>1. UNCHANGED deals
    BY <1>2, SteadyKinds
  <2>2. m \in InSeason(s) /\ TierPercent(m, InSeason(s))' = TierPercent(m, InSeason(s))
    BY <2>1 DEF InSeason, SignedFamily, TierPercent, Rank, Before
  <2>3. SUFFICES drafts'[<<m, s>>].percent <= TierPercent(m, InSeason(s))
    BY <2>2
  <2>4. CASE ~drafts[<<m, s>>].exists
    <3>1. drafts'[<<m, s>>].percent = TierPercent(m, InSeason(s))
      BY <1>0, <2>4, NewDraftIs
    <3> QED BY <3>1, TierIs DEF Tiers
  <2>5. CASE drafts[<<m, s>>].exists
    <3>1. drafts'[<<m, s>>].percent = drafts[<<m, s>>].percent
      <4>1. ASSUME NEW k \in Siblings, MakeDraft(k, deals[k].season, InSeason(deals[k].season))
            PROVE  drafts'[<<m, s>>] = drafts[<<m, s>>]
        <5>1. deals[k].season \in BillSeasons
          BY DEF FamilyTypeOK, Deal
        <5> QED BY <1>0, <2>5, <4>1, <5>1, DraftMadeIs
      <4> QED BY <1>2, <4>1, SteadyKinds
    <3> QED BY <2>2, <2>5, <3>1 DEF RankBelow
  <2> QED BY <2>4, <2>5
<1> QED BY <1>1, <1>2

LEMMA RankInvStep == FamilyInv /\ RankInv /\ [FamilyNext]_familyVars => RankInv'
<1> SUFFICES ASSUME FamilyInv, RankInv, [FamilyNext]_familyVars PROVE RankInv'
  OBVIOUS
<1>1. CASE UNCHANGED familyVars
  BY <1>1 DEF familyVars, RankInv, RankBelow, SignedFamily, InSeason, TierPercent, Rank, Before
<1>2. CASE FamilyNext
  <2> SUFFICES ASSUME steady' PROVE RankBelow'
    BY DEF RankInv
  <2>1. steady
    BY <1>2, SteadyBefore DEF FamilyInv
  <2> QED BY <1>2, <2>1, StepKeepsRank DEF FamilyInv, RankInv
<1> QED BY <1>1, <1>2

\* For any number of siblings: the guardian's lock leaves crossed stamps as the
\* only way to one rank twice. The run FamilyBillingSameRank shows that way.
THEOREM TiesCrossed == FamilySpec => TieMeansCrossing
<1> DEFINE Crossed ==
      \A s \in BillSeasons : \A m, n \in InSeason(s)' \ OptedOut :
        (/\ steady' /\ m # n
         /\ drafts[<<n, s>>].exists /\ ~drafts[<<m, s>>].exists /\ drafts'[<<m, s>>].exists
         /\ drafts'[<<m, s>>].percent = drafts[<<n, s>>].percent
         /\ drafts'[<<m, s>>].percent < 100) => Before(m, n)'
<1>1. FamilyInv /\ RankInv /\ [FamilyNext]_familyVars => [Crossed]_drafts
  <2> SUFFICES ASSUME FamilyInv, RankInv, FamilyNext, NEW s \in BillSeasons,
                      NEW m \in InSeason(s)' \ OptedOut, NEW n \in InSeason(s)' \ OptedOut,
                      steady', m # n, drafts[<<n, s>>].exists, ~drafts[<<m, s>>].exists,
                      drafts'[<<m, s>>].exists,
                      drafts'[<<m, s>>].percent = drafts[<<n, s>>].percent,
                      drafts'[<<m, s>>].percent < 100
               PROVE  Before(m, n)'
    BY DEF familyVars
  <2>1. steady /\ FamilyTypeOK
    BY SteadyBefore DEF FamilyInv
  <2>2. SignedOnce /\ RankBelow /\ m \in Siblings /\ n \in Siblings
    BY <2>1 DEF FamilyInv, RankInv, InSeason, SignedFamily
  <2>3. UNCHANGED deals /\ drafts'[<<m, s>>].percent = TierPercent(m, InSeason(s))
    BY <2>1, <2>2, NewDraftIs
  <2>4. m \in InSeason(s) /\ n \in InSeason(s) /\ InSeason(s) \in SUBSET Siblings
    BY <2>3 DEF InSeason, SignedFamily
  <2>5. /\ drafts[<<n, s>>].percent = Discount(Rank(m, InSeason(s)))
        /\ drafts[<<n, s>>].percent <= Discount(Rank(n, InSeason(s)))
    BY <2>2, <2>3, <2>4 DEF RankBelow, TierPercent
  <2>6. ASSUME Before(n, m) PROVE FALSE
    <3>1. PICK i : i = Discount(Rank(m, InSeason(s)))
      OBVIOUS
    <3>2. PICK j : j = Discount(Rank(n, InSeason(s)))
      OBVIOUS
    <3>3. i \in Tiers /\ j \in Tiers /\ (i < 100 => j < i)
      BY <2>1, <2>4, <2>6, <3>1, <3>2, RanksDiffer
    <3>4. i < 100 /\ i <= j
      BY <2>5, <3>1, <3>2
    <3> QED BY <3>3, <3>4 DEF Tiers
  <2>7. Before(m, n) \/ Before(n, m)
    <3>1. PICK a \in Nat : a = deals[m].signedAt
      BY <2>1, <2>2 DEF FamilyTypeOK, Deal
    <3>2. PICK b \in Nat : b = deals[n].signedAt
      BY <2>1, <2>2 DEF FamilyTypeOK, Deal
    <3>3. m \in Nat /\ n \in Nat
      BY <2>2
    <3>4. a < b \/ b < a \/ (a = b /\ m < n) \/ (a = b /\ n < m)
      BY <3>1, <3>2, <3>3
    <3> QED BY <3>1, <3>2, <3>4 DEF Before
  <2> QED BY <2>3, <2>6, <2>7 DEF Before
<1> QED BY <1>1, RankInvInit, RankInvStep, FamilyAlwaysInv, PTL DEF FamilySpec, TieMeansCrossing

HIDE FamilyAssumption

-----------------------------------------------------------------------------
(* The schedule of a record *)

USE ScheduleAssumption

LEMMA LeastMin ==
    ASSUME NEW S \in SUBSET Nat, S # {}
    PROVE  Min(S) \in S /\ \A t \in S : Min(S) <= t
<1>1. \E s \in S : \A t \in S : s <= t
  BY LeastNatural
<1> QED BY <1>1 DEF Min

\* The dates are what their recursive definition says: a walk of every length
\* exists, because a shortest one that did not would extend the one before.
LEMMA DatesWalk ==
    ASSUME NEW first \in Nat, NEW n \in Nat
    PROVE  Dates(first, n) = [k \in 1 .. n |->
               Normalize(IF k = 1 THEN first ELSE Dates(first, n)[k - 1] + 1)]
<1> DEFINE Step(f, k) == Normalize(IF k = 1 THEN first ELSE f[k - 1] + 1)
           Walk(f, m) == f = [k \in 1 .. m |-> Step(f, k)]
           Bad == {m \in Nat : ~ \E f : Walk(f, m)}
<1>1. Bad = {}
  <2> SUFFICES ASSUME Bad # {} PROVE FALSE
    OBVIOUS
  <2>1. PICK m \in Bad : \A t \in Bad : m <= t
    BY LeastNatural
  <2>2. CASE m = 0
    <3>1. Walk([k \in 1 .. 0 |-> 0], 0)
      OBVIOUS
    <3> QED BY <2>1, <2>2, <3>1
  <2>3. CASE m # 0
    <3>1. m - 1 \in Nat /\ m - 1 \notin Bad /\ m \in Nat
      BY <2>1, <2>3
    <3>2. PICK g : Walk(g, m - 1)
      BY <3>1
    <3> DEFINE f == [k \in 1 .. m |-> IF k < m THEN g[k] ELSE Step(g, m)]
    <3>3. ASSUME NEW k \in 1 .. m PROVE f[k] = Step(f, k)
      <4>1. k = 1 \/ (k - 1 \in 1 .. m /\ k - 1 < m)
        BY <3>1
      <4>2. k = 1 \/ f[k - 1] = g[k - 1]
        BY <4>1
      <4>3. Step(f, k) = Step(g, k)
        BY <4>2
      <4>4. CASE k < m
        <5>1. k \in 1 .. m - 1
          BY <3>1, <4>4
        <5>2. g[k] = Step(g, k)
          <6> HIDE DEF Step
          <6> QED BY <3>2, <5>1
        <5> QED BY <4>3, <4>4, <5>2
      <4>5. CASE k = m
        BY <3>1, <4>3, <4>5
      <4> QED BY <3>1, <4>4, <4>5
    <3>4. Walk(f, m)
      BY <3>3
    <3> QED BY <2>1, <3>4
  <2> QED BY <2>2, <2>3
<1>2. \E f : Walk(f, n)
  BY <1>1
<1> DEFINE d == CHOOSE f : Walk(f, n)
<1>3. Walk(d, n)
  BY <1>2
<1>4. Dates(first, n) = [k \in 1 .. n |-> d[k]]
  BY DEF Dates
<1>5. Dates(first, n) = d
  <2> HIDE DEF d, Step
  <2> QED BY <1>3, <1>4
<1> QED BY <1>3, <1>5

\* Some month can be billed.
Billable == \E c \in Nat : ~Skipped(c)

LEMMA NormalizeIs ==
    ASSUME NEW i \in Nat
    PROVE  /\ Normalize(i) \in {NoMonth} \cup i .. (i + 12)
           /\ Normalize(i) # NoMonth => ~Skipped(Normalize(i))
           /\ ~Skipped(i) => Normalize(i) = i
           /\ Billable => Normalize(i) # NoMonth
<1> DEFINE B == {j \in i .. (i + 12) : ~Skipped(j)}
<1>1. B \in SUBSET Nat /\ B \subseteq i .. (i + 12) /\ \A b \in B : ~Skipped(b)
  OBVIOUS
<1>2. Normalize(i) = IF B = {} THEN NoMonth ELSE Min(B)
  BY DEF Normalize
<1>3. B # {} => Min(B) \in B /\ \A t \in B : Min(B) <= t
  <2> HIDE DEF B
  <2> QED BY <1>1, LeastMin
<1>4. ~Skipped(i) => i \in B
  OBVIOUS
<1>5. ASSUME NEW c \in Nat, ~Skipped(c) PROVE B # {}
  <2> DEFINE j == i + ((c - i) % 12)
  <2>1. j \in i .. (i + 12) /\ j % 12 = c % 12
    OBVIOUS
  <2>2. ~Skipped(j)
    <3> HIDE DEF j
    <3> QED BY <1>5, <2>1 DEF Skipped, Calendar
  <2> QED BY <2>1, <2>2
<1>6. NoMonth \notin Nat
  BY DEF NoMonth
<1> HIDE DEF B
<1>7. CASE B = {}
  BY <1>2, <1>4, <1>5, <1>7 DEF Billable
<1>8. CASE B # {}
  <2>1. Min(B) \in i .. (i + 12) /\ ~Skipped(Min(B)) /\ Normalize(i) = Min(B)
    BY <1>1, <1>2, <1>3, <1>8
  <2>2. ~Skipped(i) => Min(B) = i
    BY <1>3, <1>4, <1>8, <2>1
  <2>3. Normalize(i) \in Nat
    BY <2>1
  <2> QED BY <1>6, <2>1, <2>2, <2>3
<1> QED BY <1>7, <1>8

\* The dates of a schedule that can be billed follow each other in months the
\* plan bills, from the first on.
LEMMA DatesFollow ==
    ASSUME Billable, NEW first \in Nat, NEW n \in Nat
    PROVE  \A k \in 1 .. n :
              /\ Dates(first, n)[k] \in Nat
              /\ ~Skipped(Dates(first, n)[k])
              /\ Dates(first, n)[k] >= first
              /\ k > 1 => Dates(first, n)[k - 1] < Dates(first, n)[k]
<1> DEFINE d == Dates(first, n)
           Fine(k) == d[k] \in Nat /\ ~Skipped(d[k]) /\ d[k] >= first
                      /\ (k > 1 => d[k - 1] < d[k])
           Bad == {k \in 1 .. n : ~Fine(k)}
<1>1. d = [k \in 1 .. n |-> Normalize(IF k = 1 THEN first ELSE d[k - 1] + 1)]
  BY DatesWalk
<1> HIDE DEF d
<1>2. ASSUME NEW i \in Nat PROVE Normalize(i) \in Nat /\ Normalize(i) >= i /\ ~Skipped(Normalize(i))
  BY NormalizeIs
<1>3. Bad = {}
  <2> SUFFICES ASSUME Bad # {} PROVE FALSE
    OBVIOUS
  <2>1. Bad \in SUBSET Nat
    OBVIOUS
  <2>2. PICK k \in Bad : \A t \in Bad : k <= t
    <3> HIDE DEF Bad
    <3> QED BY <2>1, LeastNatural
  <2>3. CASE k = 1
    <3>1. d[k] = Normalize(first)
      BY <1>1, <2>2, <2>3
    <3> QED BY <1>2, <2>2, <2>3, <3>1
  <2>4. CASE k > 1
    <3>1. k - 1 \in 1 .. n /\ k - 1 \notin Bad
      BY <2>2, <2>4
    <3>2. d[k - 1] \in Nat /\ d[k - 1] >= first
      BY <3>1
    <3>3. d[k] = Normalize(d[k - 1] + 1)
      BY <1>1, <2>2, <2>4
    <3>4. d[k] \in Nat /\ d[k] >= d[k - 1] + 1 /\ ~Skipped(d[k])
      BY <1>2, <3>2, <3>3
    <3> QED BY <2>2, <3>2, <3>4
  <2> QED BY <2>2, <2>3, <2>4
<1> QED BY <1>3 DEF d

LEMMA DatesGrow ==
    ASSUME Billable, NEW first \in Nat, NEW n \in Nat, NEW j \in 1 .. n
    PROVE  \A k \in j .. n : Dates(first, n)[j] <= Dates(first, n)[k]
<1> DEFINE d == Dates(first, n)
           Bad == {k \in j .. n : ~(d[j] <= d[k])}
<1>1. \A k \in 1 .. n : d[k] \in Nat /\ (k > 1 => d[k - 1] < d[k])
  BY DatesFollow
<1> HIDE DEF d
<1>2. Bad = {}
  <2> SUFFICES ASSUME Bad # {} PROVE FALSE
    OBVIOUS
  <2>1. Bad \in SUBSET Nat
    OBVIOUS
  <2>2. PICK k \in Bad : \A t \in Bad : k <= t
    <3> HIDE DEF Bad
    <3> QED BY <2>1, LeastNatural
  <2>3. k # j /\ k \in 1 .. n /\ k - 1 \in j .. n
    BY <1>1, <2>2
  <2>4. d[j] <= d[k - 1]
    BY <2>2, <2>3
  <2>5. d[k - 1] < d[k] /\ d[k - 1] \in Nat /\ d[k] \in Nat /\ d[j] \in Nat
    BY <1>1, <2>3
  <2> QED BY <2>2, <2>4, <2>5
<1> QED BY <1>2 DEF d

\* A shorter schedule is the beginning of a longer one.
LEMMA DatesPrefix ==
    ASSUME NEW first \in Nat, NEW n \in Nat, NEW m \in Nat, n <= m
    PROVE  \A k \in 1 .. n : Dates(first, n)[k] = Dates(first, m)[k]
<1> DEFINE d == Dates(first, n)
           e == Dates(first, m)
           Bad == {k \in 1 .. n : d[k] # e[k]}
<1>1. /\ d = [k \in 1 .. n |-> Normalize(IF k = 1 THEN first ELSE d[k - 1] + 1)]
      /\ e = [k \in 1 .. m |-> Normalize(IF k = 1 THEN first ELSE e[k - 1] + 1)]
  BY DatesWalk
<1> HIDE DEF d, e
<1>2. Bad = {}
  <2> SUFFICES ASSUME Bad # {} PROVE FALSE
    OBVIOUS
  <2>1. Bad \in SUBSET Nat
    OBVIOUS
  <2>2. PICK k \in Bad : \A t \in Bad : k <= t
    <3> HIDE DEF Bad
    <3> QED BY <2>1, LeastNatural
  <2>3. k = 1 \/ d[k - 1] = e[k - 1]
    <3> SUFFICES ASSUME k # 1 PROVE k - 1 \in 1 .. n /\ k - 1 \notin Bad
      OBVIOUS
    <3> QED BY <2>2
  <2>4. k \in 1 .. n /\ k \in 1 .. m
    BY <2>2
  <2>5. d[k] = Normalize(IF k = 1 THEN first ELSE d[k - 1] + 1)
    BY <1>1, <2>4
  <2>6. e[k] = Normalize(IF k = 1 THEN first ELSE e[k - 1] + 1)
    BY <1>1, <2>4
  <2> QED BY <2>2, <2>3, <2>5, <2>6
<1> QED BY <1>2 DEF d, e

\* A set that holds all numbers below each of its members begins at 1.
LEMMA CountedFromOne ==
    ASSUME NEW n \in Nat, NEW S \in SUBSET (1 .. n),
           \A k \in S : 1 .. k \subseteq S
    PROVE  Cardinality(S) \in 0 .. n /\ S = 1 .. Cardinality(S)
<1> DEFINE T == {t \in 1 .. (n + 1) : t \notin S}
<1>1. T \in SUBSET Nat /\ n + 1 \in T
  OBVIOUS
<1>2. PICK t \in T : \A u \in T : t <= u
  <2> HIDE DEF T
  <2> QED BY <1>1, LeastNatural
<1>3. t \in 1 .. (n + 1) /\ t \notin S
  BY <1>2
<1>4. ASSUME NEW k \in 1 .. (t - 1) PROVE k \in S
  BY <1>2, <1>3
<1>5. ASSUME NEW k \in S PROVE k \in 1 .. (t - 1)
  BY <1>3
<1>6. S = 1 .. (t - 1)
  BY <1>4, <1>5
<1>7. Cardinality(1 .. (t - 1)) = t - 1
  <2>1. Cardinality(1 .. (t - 1)) = IF 1 > t - 1 THEN 0 ELSE t - 1 - 1 + 1
    BY <1>3, FS_Interval
  <2> QED BY <1>3, <2>1
<1> QED BY <1>3, <1>6, <1>7

\* The months a draft counts are the first of the plan's schedule, all in the
\* first year.
LEMMA CountedInYear ==
    ASSUME plan.count \in Nat, NEW first \in Nat, ~Skipped(first), Year(first) = 0
    PROVE  LET n == YearCount(first)
           IN  /\ n \in 1 .. AtLeastOne(plan.count)
               /\ \A k \in 1 .. n : Year(Dates(first, n)[k]) = 0
<1> DEFINE n == YearCount(first)
           m == AtLeastOne(plan.count)
           d == Dates(first, m)
           S == {k \in 1 .. m : Year(d[k]) = 0}
<1>1. m \in Nat /\ m >= 1
  BY DEF AtLeastOne
<1>2. Billable
  BY DEF Billable
<1>3. d = [k \in 1 .. m |-> Normalize(IF k = 1 THEN first ELSE d[k - 1] + 1)]
  <2> HIDE DEF m
  <2> QED BY <1>1, DatesWalk
<1>4. \A k \in 1 .. m : d[k] \in Nat
  <2> HIDE DEF m
  <2> QED BY <1>1, <1>2, DatesFollow
<1>5. \A j \in 1 .. m : \A k \in j .. m : d[j] <= d[k]
  <2> HIDE DEF m
  <2> QED BY <1>1, <1>2, DatesGrow
<1>6. d[1] = first
  <2>1. d[1] = Normalize(first)
    <3> HIDE DEF m, d
    <3> QED BY <1>1, <1>3
  <2> QED BY <2>1, NormalizeIs
<1>7. n = Cardinality(S)
  <2>1. DOMAIN d = 1 .. m
    <3> HIDE DEF d, m
    <3> QED BY <1>3
  <2>2. {k \in DOMAIN d : Year(d[k]) = Year(first)} = S
    BY <2>1
  <2> QED BY <2>2 DEF YearCount
<1> HIDE DEF m, d, n
<1>8. ASSUME NEW k \in S, NEW j \in 1 .. k PROVE j \in S
  <2>1. j \in 1 .. m /\ k \in j .. m /\ k \in 1 .. m
    BY <1>1
  <2>2. d[j] <= d[k] /\ d[j] \in Nat /\ d[k] \in Nat
    BY <1>4, <1>5, <2>1
  <2>3. d[k] \div 12 = 0
    BY DEF Year
  <2> QED BY <2>1, <2>2, <2>3 DEF Year
<1>9. 1 \in S
  BY <1>1, <1>6
<1>10. n \in 0 .. m /\ S = 1 .. n
  <2>1. S \in SUBSET (1 .. m) /\ \A k \in S : 1 .. k \subseteq S
    BY <1>8
  <2> HIDE DEF S
  <2> QED BY <1>1, <1>7, <2>1, CountedFromOne
<1>11. n \in 1 .. m /\ n \in Nat /\ n <= m
  <2> HIDE DEF S
  <2> QED BY <1>1, <1>9, <1>10
<1>12. \A k \in 1 .. n : Dates(first, n)[k] = d[k]
  BY <1>1, <1>11, DatesPrefix DEF d
<1>13. \A k \in 1 .. n : Year(d[k]) = 0
  BY <1>10
<1> QED BY <1>11, <1>12, <1>13 DEF n, m

\* Even under a plan that bills no month, a draft counts no more months than
\* the plan has installments.
LEMMA YearCountBounds ==
    ASSUME plan.count \in Nat, NEW first \in Nat
    PROVE  YearCount(first) \in 0 .. AtLeastOne(plan.count)
<1> DEFINE m == AtLeastOne(plan.count)
           d == Dates(first, m)
           S == {k \in DOMAIN d : Year(d[k]) = Year(first)}
<1>1. m \in Nat
  BY DEF AtLeastOne
<1>2. DOMAIN d = 1 .. m
  <2>1. d = [k \in 1 .. m |-> Normalize(IF k = 1 THEN first ELSE d[k - 1] + 1)]
    <3> HIDE DEF m
    <3> QED BY <1>1, DatesWalk
  <2> HIDE DEF d, m
  <2> QED BY <2>1
<1>3. S \in SUBSET (1 .. m)
  <2> HIDE DEF d, m
  <2> QED BY <1>2
<1>4. IsFiniteSet(1 .. m) /\ Cardinality(1 .. m) = m
  <2> HIDE DEF m
  <2>1. IsFiniteSet(1 .. m) /\ Cardinality(1 .. m) = IF 1 > m THEN 0 ELSE m - 1 + 1
    BY <1>1, FS_Interval
  <2> QED BY <1>1, <2>1
<1>5. IsFiniteSet(S) /\ Cardinality(S) <= m
  <2> HIDE DEF S, m
  <2> QED BY <1>3, <1>4, FS_Subset
<1>6. Cardinality(S) \in Nat
  <2> HIDE DEF S, m
  <2> QED BY <1>5, FS_CardinalityType
<1>7. YearCount(first) = Cardinality(S)
  BY DEF YearCount
<1> HIDE DEF S, m
<1>8. YearCount(first) \in 0 .. m
  BY <1>1, <1>5, <1>6, <1>7
<1> QED BY <1>8 DEF m

LEMMA NatDiv ==
    ASSUME NEW a \in Nat, NEW b \in Nat, b > 0
    PROVE  a \div b \in Nat /\ b * (a \div b) <= a /\ a < b * (a \div b) + b
OBVIOUS

LEMMA HalfUpNat ==
    ASSUME NEW a \in Nat, NEW b \in Nat, b > 0
    PROVE  HalfUp(a, b) \in Nat /\ 2 * b * HalfUp(a, b) <= 2 * a + b
<1>1. 2 * a + b \in Nat /\ 2 * b \in Nat /\ 2 * b > 0
  OBVIOUS
<1>2. (2 * a + b) \div (2 * b) \in Nat /\ (2 * b) * ((2 * a + b) \div (2 * b)) <= 2 * a + b
  BY <1>1, NatDiv
<1> QED BY <1>2 DEF HalfUp

LEMMA BaseNat ==
    ASSUME NEW annual \in Nat, NEW n \in Nat, NEW of \in Nat
    PROVE  PartialBase(annual, n, of) \in Nat
<1>1. AtLeastOne(n) \in Nat /\ AtLeastOne(of) \in Nat /\ AtLeastOne(of) > 0
  BY DEF AtLeastOne
<1>2. \A x \in Nat, y \in Nat : x * y \in Nat
  OBVIOUS
<1> QED BY <1>1, <1>2, HalfUpNat DEF PartialBase

LEMMA FinalNat ==
    ASSUME NEW base \in Nat, NEW percent \in 0 .. 100
    PROVE  Final(base, percent) \in Nat
<1>1. base * percent \in Nat /\ base * percent <= 100 * base
  OBVIOUS
<1>2. PICK x \in Nat : x = base * percent
  BY <1>1
<1>3. PICK h : h = HalfUp(x, 100)
  OBVIOUS
<1>4. h \in Nat /\ 200 * h <= 2 * x + 100
  BY <1>3, HalfUpNat
<1>5. x <= 100 * base
  BY <1>1, <1>2
<1>6. h <= base
  BY ONLY <1>4, <1>5, base \in Nat, x \in Nat
<1> QED BY <1>2, <1>3, <1>4, <1>6 DEF Final

LEMMA RowsTyped ==
    ASSUME Billable, NEW total \in Nat, NEW month \in Nat, NEW n \in Nat, NEW upfront \in BOOLEAN
    PROVE  Rows(total, month, n, upfront) \in Seq(Row)
<1> DEFINE m == AtLeastOne(n)
<1>1. m \in Nat /\ m >= 1
  BY DEF AtLeastOne
<1> HIDE DEF m
<1>2. /\ Dates(month, m) = [k \in 1 .. m |->
             Normalize(IF k = 1 THEN month ELSE Dates(month, m)[k - 1] + 1)]
      /\ \A k \in 1 .. m : Dates(month, m)[k] \in Nat
  BY <1>1, DatesWalk, DatesFollow
<1>3. PICK d : d = Dates(month, m)
  OBVIOUS
<1>4. DOMAIN d = 1 .. m /\ \A k \in 1 .. m : d[k] \in Nat
  BY <1>2, <1>3
<1>5. PICK a : a = Shares(total, m)
  OBVIOUS
<1>6. \A k \in 1 .. m : a[k] \in Int
  <2>1. HalfUp(total, m) \in Nat
    BY <1>1, HalfUpNat
  <2>2. \A x \in Int, y \in Int : x * y \in Int
    OBVIOUS
  <2>3. total - HalfUp(total, m) * (m - 1) \in Int
    BY <1>1, <2>1, <2>2
  <2> QED BY <1>1, <1>5, <2>1, <2>3 DEF Shares
<1>7. Rows(total, month, n, upfront) =
        IF total = 0 THEN <<>>
        ELSE IF upfront THEN <<[due |-> d[1], amount |-> total]>>
        ELSE [k \in 1 .. m |-> [due |-> d[k], amount |-> a[k]]]
  BY <1>3, <1>4, <1>5 DEF Rows, m
<1>8. [k \in 1 .. m |-> [due |-> d[k], amount |-> a[k]]] \in [1 .. m -> Row]
  BY <1>4, <1>6 DEF Row
<1>9. [due |-> d[1], amount |-> total] \in Row
  BY <1>1, <1>4 DEF Row
<1> QED BY <1>1, <1>7, <1>8, <1>9

\* What the rows of a schedule in the first year are due on.
LEMMA RowsInYear ==
    ASSUME plan.count \in Nat, NEW total \in Nat, NEW month \in Nat, NEW upfront \in BOOLEAN,
           ~Skipped(month), Year(month) = 0,
           NEW r, r = Rows(total, month, YearCount(month), upfront)
    PROVE  \A k \in DOMAIN r : /\ Year(r[k].due) = 0
                               /\ ~Skipped(r[k].due)
                               /\ r[k].due >= month
                               /\ k > 1 => r[k - 1].due < r[k].due
<1> DEFINE n == YearCount(month)
           d == Dates(month, n)
<1>1. n \in Nat /\ n >= 1 /\ \A k \in 1 .. n : Year(d[k]) = 0
  BY CountedInYear
<1>2. AtLeastOne(n) = n
  <2> HIDE DEF n
  <2> QED BY <1>1 DEF AtLeastOne
<1> HIDE DEF n
<1>3. Billable
  BY DEF Billable
<1>4. d = [k \in 1 .. n |-> Normalize(IF k = 1 THEN month ELSE d[k - 1] + 1)]
  BY <1>1, DatesWalk
<1>5. \A k \in 1 .. n : ~Skipped(d[k]) /\ d[k] >= month /\ (k > 1 => d[k - 1] < d[k])
  BY <1>1, <1>3, DatesFollow
<1>6. PICK a : a = Shares(total, n)
  OBVIOUS
<1>7. r = IF total = 0 THEN <<>>
          ELSE IF upfront THEN <<[due |-> d[1], amount |-> total]>>
          ELSE [k \in 1 .. n |-> [due |-> d[k], amount |-> a[k]]]
  <2> HIDE DEF d
  <2>1. DOMAIN d = 1 .. n
    BY <1>4
  <2> QED BY <1>2, <1>6, <2>1 DEF Rows, n, d
<1> HIDE DEF d
<1>8. CASE total = 0
  BY <1>7, <1>8
<1>9. CASE total # 0 /\ upfront
  <2>1. r = <<[due |-> d[1], amount |-> total]>>
    BY <1>7, <1>9
  <2>2. DOMAIN r = {1} /\ r[1].due = d[1]
    BY <2>1
  <2> QED BY <1>1, <1>5, <2>2
<1>10. CASE total # 0 /\ ~upfront
  <2>1. r = [k \in 1 .. n |-> [due |-> d[k], amount |-> a[k]]]
    BY <1>7, <1>10
  <2>2. DOMAIN r = 1 .. n /\ \A k \in 1 .. n : r[k].due = d[k]
    BY <2>1
  <2>3. \A k \in 1 .. n : k > 1 => k - 1 \in 1 .. n
    BY <1>1
  <2>4. \A k \in 1 .. n : k > 1 => r[k - 1].due < r[k].due
    BY <1>5, <2>2, <2>3
  <2>5. \A k \in 1 .. n : Year(r[k].due) = 0 /\ ~Skipped(r[k].due) /\ r[k].due >= month
    BY <1>1, <1>5, <2>2
  <2> QED BY <2>2, <2>4, <2>5
<1> QED BY <1>8, <1>9, <1>10

-----------------------------------------------------------------------------
(* The invariant of the schedule *)

Bill == [phase : Phases, month : {NoMonth} \cup Nat, count : Nat, percent : 0 .. 100,
         base : Nat, override : {NoOverride} \cup OverrideChoices, final : Nat,
         upfront : BOOLEAN, rows : Seq(Row), status : {"draft", "confirmed"},
         pushed : BOOLEAN, reopened : BOOLEAN]

PlanRow == [skip : SkipChoices, count : CountChoices, annual : AmountChoices]

\* The month lies in the first year and, as long as the plan is the one it was
\* chosen under, is one the plan bills.
MonthKept ==
    bill.phase # "setup" => /\ bill.month \in Nat
                            /\ ~edited => ~Skipped(bill.month) /\ Year(bill.month) = 0

CountKept == (bill.phase = "made" /\ ~edited) => bill.count = YearCount(bill.month)

\* Rows and an override are of a record that is made.
MadeHasRows ==
    bill.phase # "made" => /\ bill.rows = <<>> /\ bill.status = "draft"
                           /\ bill.override = NoOverride

ScheduleInv ==
    /\ plan \in PlanRow /\ bill \in Bill /\ edited \in BOOLEAN
    /\ MonthKept
    /\ CountKept
    /\ MadeHasRows
    /\ RowsKeepYear

LEMMA NoRowsKeepYear == bill.rows = <<>> => RowsKeepYear
BY DEF RowsKeepYear

LEMMA ScheduleInvInit == ScheduleInit => ScheduleInv
<1> SUFFICES ASSUME ScheduleInit PROVE ScheduleInv
  OBVIOUS
<1>1. NoBill \in Bill /\ NoBill.phase = "setup" /\ NoBill.rows = <<>> /\ NoBill.status = "draft"
      /\ NoBill.override = NoOverride
  BY DEF NoBill, Bill, Phases
<1> QED BY <1>1, NoRowsKeepYear DEF ScheduleInit, ScheduleInv, MonthKept, CountKept, MadeHasRows, PlanRow

LEMMA PayableNat ==
    ASSUME NEW base \in Nat, NEW percent \in 0 .. 100, NEW override \in {NoOverride} \cup OverrideChoices
    PROVE  Payable(base, percent, override) \in Nat
BY FinalNat DEF Payable

LEMMA PlanTyped ==
    ASSUME plan \in PlanRow
    PROVE  plan.count \in Nat /\ plan.annual \in Nat /\ plan.skip \in SUBSET (1 .. 12)
BY DEF PlanRow

\* A month chosen under the plan as it is.
LEMMA ChosenMonth ==
    ASSUME NEW typed \in Nat, Normalize(typed) # NoMonth
    PROVE  Normalize(typed) \in Nat /\ ~Skipped(Normalize(typed))
BY NormalizeIs

LEMMA MonthsTyped ==
    ASSUME NEW today \in Todays, NEW late \in BOOLEAN
    PROVE  DefaultMonth(today, late) \in Nat
BY DEF DefaultMonth

\* A step that leaves the plan alone and sets the month under it.
LEMMA SetMonthKeeps ==
    ASSUME ScheduleInv, UNCHANGED plan, bill.phase # "made", NEW typed \in Nat, Normalize(typed) # NoMonth,
           Year(Normalize(typed)) = 0, edited' = FALSE,
           bill' = [bill EXCEPT !.phase = "set", !.month = Normalize(typed)]
    PROVE  ScheduleInv'
<1>1. PICK m : m = Normalize(typed)
  OBVIOUS
<1>2. m \in Nat /\ ~Skipped(m) /\ Year(m) = 0
  BY <1>1, ChosenMonth
<1>3. /\ bill' \in Bill /\ bill'.phase = "set" /\ bill'.month = m /\ bill'.rows = bill.rows
      /\ bill'.status = bill.status /\ bill'.override = bill.override
  BY <1>1, <1>2 DEF ScheduleInv, Bill, Phases
<1>4. MonthKept'
  BY <1>2, <1>3 DEF MonthKept, Skipped
<1>5. MadeHasRows' /\ bill'.rows = <<>>
  BY <1>3 DEF ScheduleInv, MadeHasRows
<1>6. RowsKeepYear'
  BY <1>5 DEF RowsKeepYear
<1> QED BY <1>3, <1>4, <1>5, <1>6 DEF ScheduleInv, CountKept

LEMMA ScheduleInvStep == ScheduleInv /\ [ScheduleNext]_scheduleVars => ScheduleInv'
<1> SUFFICES ASSUME ScheduleInv, [ScheduleNext]_scheduleVars PROVE ScheduleInv'
  OBVIOUS
<1>0. plan.count \in Nat /\ plan.annual \in Nat /\ bill \in Bill /\ plan \in PlanRow
  BY PlanTyped DEF ScheduleInv
<1>1. ASSUME NEW today \in Todays, NEW late \in BOOLEAN, Preselect(today, late)
      PROVE  ScheduleInv'
  BY <1>1, MonthsTyped, SetMonthKeeps DEF Preselect
<1>2. ASSUME NEW typed \in TypedMonths, NEW today \in Todays, NEW late \in BOOLEAN,
             Setup(typed, today, late)
      PROVE  ScheduleInv'
  <2>1. typed \in Nat
    OBVIOUS
  <2> QED BY <1>2, <2>1, SetMonthKeeps DEF Setup
<1>3. CASE SignBill
  <2>1. /\ bill' \in Bill /\ bill'.phase = "signed" /\ bill'.month = bill.month /\ bill.phase = "set"
        /\ bill'.rows = bill.rows /\ bill'.status = bill.status /\ bill'.override = bill.override
        /\ UNCHANGED <<plan, edited>>
    BY <1>3 DEF SignBill, ScheduleInv, Bill, Phases
  <2>2. MonthKept'
    BY <2>1 DEF MonthKept, ScheduleInv, Skipped
  <2>3. MadeHasRows' /\ bill'.rows = <<>>
    BY <2>1 DEF ScheduleInv, MadeHasRows
  <2>4. RowsKeepYear'
    BY <2>3 DEF RowsKeepYear
  <2> QED BY <2>1, <2>2, <2>3, <2>4 DEF ScheduleInv, CountKept
<1>4. ASSUME NEW percent \in PercentChoices, NEW upfront \in BOOLEAN, Draft(percent, upfront)
      PROVE  ScheduleInv'
  <2>1. PICK n : n = YearCount(bill.month)
    OBVIOUS
  <2>2. bill.month \in Nat /\ bill.phase = "signed"
    BY <1>4 DEF Draft, ScheduleInv, MonthKept
  <2>3. n \in Nat
    <3>1. AtLeastOne(plan.count) \in Nat
      BY <1>0 DEF AtLeastOne
    <3> QED BY <1>0, <2>1, <2>2, <3>1, YearCountBounds
  <2>4. PICK b \in Nat : b = PartialBase(plan.annual, n, plan.count)
    BY <1>0, <2>3, BaseNat
  <2>5. PICK f \in Nat : f = Final(b, percent)
    BY <1>0, FinalNat
  <2>6. bill' = [bill EXCEPT !.phase = "made", !.count = n, !.percent = percent,
                    !.base = b, !.final = f, !.upfront = upfront]
    BY <1>4, <2>1, <2>4, <2>5 DEF Draft
  <2>7. bill' \in Bill /\ bill'.phase = "made" /\ bill'.month = bill.month /\ bill'.count = n
        /\ bill'.rows = bill.rows /\ UNCHANGED <<plan, edited>>
    <3>1. percent \in 0 .. 100
      OBVIOUS
    <3>2. UNCHANGED <<plan, edited>>
      BY <1>4 DEF Draft
    <3> QED BY <1>0, <2>3, <2>4, <2>5, <2>6, <3>1, <3>2 DEF Bill, Phases
  <2>8. MonthKept'
    BY <2>2, <2>7 DEF MonthKept, ScheduleInv, Skipped
  <2>9. YearCount(bill.month)' = n
    BY <2>1, <2>7 DEF YearCount, Dates, Normalize, Skipped
  <2>10. CountKept'
    BY <2>7, <2>9 DEF CountKept
  <2>11. bill'.rows = <<>>
    BY <2>2, <2>7 DEF ScheduleInv, MadeHasRows
  <2>12. RowsKeepYear'
    BY <2>11 DEF RowsKeepYear
  <2> QED BY <2>7, <2>8, <2>10, <2>12 DEF ScheduleInv, MadeHasRows
<1>5. ASSUME NEW skip \in SkipChoices, NEW count \in CountChoices, NEW annual \in AmountChoices,
             EditPlan(skip, count, annual)
      PROVE  ScheduleInv'
  <2>1. plan' \in PlanRow /\ edited' \in BOOLEAN /\ bill' = bill
    BY <1>5 DEF EditPlan, PlanRow, ScheduleInv
  <2>2. CASE plan' = plan
    <3>1. edited' = edited
      BY <1>5, <2>2 DEF EditPlan, ScheduleInv
    <3> QED BY <2>1, <2>2, <3>1 DEF ScheduleInv, MonthKept, CountKept, MadeHasRows, RowsKeepYear,
               Skipped, YearCount, Dates, Normalize
  <2>3. CASE bill.phase = "setup"
    <3>1. MadeHasRows' /\ bill'.rows = <<>>
      BY <2>1, <2>3 DEF ScheduleInv, MadeHasRows
    <3>2. RowsKeepYear'
      BY <3>1 DEF RowsKeepYear
    <3> QED BY <2>1, <2>3, <3>1, <3>2 DEF ScheduleInv, MonthKept, CountKept
  <2>4. CASE edited'
    BY <2>1, <2>4 DEF ScheduleInv, MonthKept, CountKept, MadeHasRows, RowsKeepYear
  <2>5. plan' = plan \/ bill.phase = "setup" \/ edited'
    BY <1>5 DEF EditPlan
  <2> QED BY <2>2, <2>3, <2>4, <2>5
<1>6. CASE Recompute
  <2>1. PICK b \in Nat : b = PartialBase(plan.annual, bill.count, plan.count)
    <3>1. bill.count \in Nat
      BY <1>0 DEF Bill
    <3> QED BY <1>0, <3>1, BaseNat
  <2>2. PICK f \in Nat : f = Payable(b, bill.percent, bill.override)
    <3>1. bill.percent \in 0 .. 100 /\ bill.override \in {NoOverride} \cup OverrideChoices
      BY <1>0 DEF Bill
    <3> QED BY <1>0, <3>1, PayableNat
  <2>3. bill' = [bill EXCEPT !.base = b, !.final = f]
    BY <1>6, <2>1, <2>2 DEF Recompute
  <2>4. /\ bill' \in Bill /\ bill'.phase = bill.phase /\ bill'.month = bill.month
        /\ bill'.count = bill.count /\ bill.phase = "made" /\ bill'.rows = bill.rows
        /\ UNCHANGED <<plan, edited>>
    BY <1>0, <1>6, <2>3 DEF Recompute, DraftRecord, Bill, Phases
  <2> QED BY <2>4 DEF ScheduleInv, MonthKept, CountKept, MadeHasRows, RowsKeepYear, Skipped,
               YearCount, Dates, Normalize
<1>7. ASSUME NEW typed \in TypedMonths, NEW today \in Todays, NEW late \in BOOLEAN,
             Reassign(typed, today, late)
      PROVE  ScheduleInv'
  <2>1. PICK m : m = Normalize(typed)
    OBVIOUS
  <2>2. m \in Nat /\ ~Skipped(m) /\ Year(m) = 0
    BY <1>7, <2>1, ChosenMonth DEF Reassign
  <2>3. PICK n \in Nat : n = YearCount(m)
    <3>1. AtLeastOne(plan.count) \in Nat
      BY <1>0 DEF AtLeastOne
    <3> QED BY <1>0, <2>2, <3>1, YearCountBounds
  <2>4. PICK b \in Nat : b = PartialBase(plan.annual, n, plan.count)
    BY <1>0, <2>3, BaseNat
  <2>5. PICK f \in Nat : f = Payable(b, bill.percent, bill.override)
    <3>1. bill.percent \in 0 .. 100 /\ bill.override \in {NoOverride} \cup OverrideChoices
      BY <1>0 DEF Bill
    <3> QED BY <1>0, <3>1, PayableNat
  <2>6. bill' = [bill EXCEPT !.month = m, !.count = n, !.base = b, !.rows = <<>>, !.final = f]
    BY <1>7, <2>1, <2>3, <2>4, <2>5 DEF Reassign
  <2>7. /\ bill' \in Bill /\ bill'.phase = "made" /\ bill'.month = m /\ bill'.count = n
        /\ bill'.rows = <<>> /\ plan' = plan /\ edited' = FALSE
    <3>1. <<>> \in Seq(Row)
      OBVIOUS
    <3>2. bill.phase = "made" /\ plan' = plan /\ edited' = FALSE
      BY <1>7 DEF Reassign, DraftRecord
    <3>3. bill' \in Bill
      BY <1>0, <2>2, <2>6, <3>1 DEF Bill, Phases
    <3>4. bill'.phase = bill.phase /\ bill'.month = m /\ bill'.count = n /\ bill'.rows = <<>>
      BY <1>0, <2>6 DEF Bill
    <3> QED BY <3>2, <3>3, <3>4
  <2>8. MonthKept'
    BY <2>2, <2>7 DEF MonthKept, Skipped
  <2>9. YearCount(bill.month)' = n
    BY <2>3, <2>7 DEF YearCount, Dates, Normalize, Skipped
  <2>10. CountKept'
    BY <2>7, <2>9 DEF CountKept
  <2>11. RowsKeepYear'
    BY <2>7 DEF RowsKeepYear
  <2> QED BY <1>0, <2>7, <2>8, <2>10, <2>11 DEF ScheduleInv, MadeHasRows
<1>8. CASE MaterializeRows
  <2>1. PICK r : r = Rows(bill.final, bill.month, bill.count, bill.upfront)
    OBVIOUS
  <2>2. bill.month \in Nat /\ bill.final \in Nat /\ bill.count \in Nat /\ bill.upfront \in BOOLEAN
        /\ bill.phase = "made"
    BY <1>0, <1>8 DEF MaterializeRows, ScheduleInv, MonthKept, Bill
  <2>3. Billable
    BY <1>8, <2>2, ChosenMonth DEF MaterializeRows, Billable
  <2>4. r \in Seq(Row)
    BY <2>1, <2>2, <2>3, RowsTyped
  <2>5. bill' = [bill EXCEPT !.rows = r] /\ UNCHANGED <<plan, edited>>
    BY <1>8, <2>1 DEF MaterializeRows
  <2>6. /\ bill' \in Bill /\ bill'.phase = "made" /\ bill'.month = bill.month /\ bill'.rows = r
        /\ bill'.count = bill.count
    BY <1>0, <2>2, <2>4, <2>5 DEF Bill, Phases
  <2>7. MonthKept'
    BY <2>2, <2>5, <2>6 DEF MonthKept, ScheduleInv, Skipped
  <2>8. ASSUME ~edited
        PROVE  \A k \in DOMAIN r : /\ Year(r[k].due) = 0
                                   /\ ~Skipped(r[k].due)
                                   /\ r[k].due >= bill.month
                                   /\ k > 1 => r[k - 1].due < r[k].due
    <3>1. bill.count = YearCount(bill.month) /\ ~Skipped(bill.month) /\ Year(bill.month) = 0
      BY <2>2, <2>8 DEF ScheduleInv, MonthKept, CountKept
    <3> QED BY <1>0, <2>1, <2>2, <3>1, RowsInYear
  <2>9. RowsKeepYear'
    BY <2>5, <2>6, <2>8 DEF RowsKeepYear, Skipped
  <2>10. YearCount(bill.month)' = YearCount(bill.month)
    BY <2>5, <2>6 DEF YearCount, Dates, Normalize, Skipped
  <2>11. CountKept'
    BY <2>2, <2>5, <2>6, <2>10 DEF ScheduleInv, CountKept
  <2> QED BY <2>5, <2>6, <2>7, <2>9, <2>11 DEF ScheduleInv, MadeHasRows
<1>9. ASSUME NEW override \in {NoOverride} \cup OverrideChoices, NEW status \in {"draft", "confirmed"},
             SaveRecordForm(override, status)
      PROVE  ScheduleInv'
  <2>1. PICK f \in Nat : f = Payable(bill.base, bill.percent, override)
    <3>1. bill.base \in Nat /\ bill.percent \in 0 .. 100
      BY <1>0 DEF Bill
    <3> QED BY <3>1, PayableNat
  <2>2. PICK o \in BOOLEAN : o = (bill.reopened \/ (bill.status = "confirmed" /\ status = "draft"))
    BY <1>0 DEF Bill
  <2>3. bill' = [bill EXCEPT !.override = override, !.status = status, !.final = f, !.reopened = o]
    BY <1>0, <1>9, <2>1, <2>2 DEF SaveRecordForm, Bill
  <2>4. /\ bill' \in Bill /\ bill'.phase = bill.phase /\ bill'.month = bill.month
        /\ bill'.count = bill.count /\ bill.phase = "made" /\ bill'.rows = bill.rows
        /\ UNCHANGED <<plan, edited>>
    BY <1>0, <1>9, <2>3 DEF SaveRecordForm, Bill
  <2> QED BY <2>4 DEF ScheduleInv, MonthKept, CountKept, MadeHasRows, RowsKeepYear, Skipped,
               YearCount, Dates, Normalize
<1>10. CASE PushRows
  <2>1. bill' = [bill EXCEPT !.pushed = TRUE] /\ UNCHANGED <<plan, edited>> /\ bill.phase = "made"
    BY <1>10 DEF PushRows, ScheduleInv, MadeHasRows
  <2>2. /\ bill' \in Bill /\ bill'.phase = bill.phase /\ bill'.month = bill.month
        /\ bill'.count = bill.count /\ bill'.rows = bill.rows
    BY <1>0, <2>1 DEF Bill
  <2> QED BY <2>1, <2>2 DEF ScheduleInv, MonthKept, CountKept, MadeHasRows, RowsKeepYear, Skipped,
               YearCount, Dates, Normalize
<1>11. CASE UNCHANGED scheduleVars
  BY <1>11 DEF scheduleVars, ScheduleInv, MonthKept, CountKept, MadeHasRows, RowsKeepYear, Skipped,
     YearCount, Dates, Normalize
<1> QED BY <1>1, <1>2, <1>3, <1>4, <1>5, <1>6, <1>7, <1>8, <1>9, <1>10, <1>11 DEF ScheduleNext

LEMMA ScheduleAlwaysInv == ScheduleSpec => []ScheduleInv
BY ScheduleInvInit, ScheduleInvStep, PTL DEF ScheduleSpec

\* Types: plan, billing setup, record and rows, whatever is edited in between.
THEOREM ScheduleTypeCorrect == ScheduleSpec => []ScheduleTypeOK
<1>1. ScheduleInv => ScheduleTypeOK
  <2> SUFFICES ASSUME ScheduleInv PROVE ScheduleTypeOK
    OBVIOUS
  <2>1. /\ plan.skip \in SkipChoices /\ plan.count \in CountChoices /\ plan.annual \in AmountChoices
        /\ edited \in BOOLEAN
    BY DEF ScheduleInv, PlanRow
  <2>2. /\ bill.phase \in Phases /\ bill.month \in {NoMonth} \cup Nat
        /\ bill.base \in Nat /\ bill.final \in Nat /\ bill.rows \in Seq(Row)
        /\ bill.override \in {NoOverride} \cup OverrideChoices
        /\ bill.status \in {"draft", "confirmed"}
        /\ bill.pushed \in BOOLEAN /\ bill.reopened \in BOOLEAN
    BY DEF ScheduleInv, Bill
  <2>3. \A k \in DOMAIN bill.rows : bill.rows[k] \in Row
    BY <2>2
  <2> QED BY <2>1, <2>2, <2>3 DEF ScheduleTypeOK
<1> QED BY <1>1, ScheduleAlwaysInv, PTL

\* For plans with any months skipped and any number of installments: unless the
\* plan was edited, every invoice falls in the first year, in a month the plan
\* bills, after the one before it (billing/services.py:273-281).
THEOREM ScheduleKeepsYear == ScheduleSpec => []RowsKeepYear
<1>1. ScheduleInv => RowsKeepYear
  BY DEF ScheduleInv
<1> QED BY <1>1, ScheduleAlwaysInv, PTL

-----------------------------------------------------------------------------
(* The sum of the rows *)

Split(n, per, total) == [k \in 1 .. n |-> IF k < n THEN per ELSE total - per * (n - 1)]

\* Shares of which the last absorbs the remainder add up, in whatever order the
\* fold takes them: each set of shares has the sum its size and its last tell.
LEMMA SharesSum ==
    ASSUME NEW n \in Nat, n >= 1, NEW per \in Int, NEW total \in Int
    PROVE  SumFunction(Split(n, per, total)) = total
<1> DEFINE S == 1 .. n
           f == Split(n, per, total)
           Chosen(s) == CHOOSE x \in s : TRUE
           Iter(g) == g = [s \in SUBSET S |->
                             IF s = {} THEN 0 ELSE f[Chosen(s)] + g[s \ {Chosen(s)}]]
           it == CHOOSE g : Iter(g)
           PartSum(s) == per * Cardinality(s) + IF n \in s THEN total - per * n ELSE 0
           closed == [s \in SUBSET S |-> PartSum(s)]
<1>1. SumFunction(f) = it[S]
  <2>1. DOMAIN f = S
    BY DEF Split
  <2> HIDE DEF f
  <2> QED BY <2>1 DEF SumFunction, SumFunctionOnSet, FoldFunctionOnSet, MapThenFoldSet
<1>0. f = [k \in 1 .. n |-> IF k < n THEN per ELSE total - per * (n - 1)]
  BY DEF Split
<1> HIDE DEF f
<1>2. IsFiniteSet(S) /\ Cardinality(S) = n
  BY FS_Interval
<1>3. ASSUME NEW s \in SUBSET S, s # {}
      PROVE  /\ Chosen(s) \in s
             /\ s \ {Chosen(s)} \in SUBSET S
             /\ Cardinality(s) \in Nat
             /\ Cardinality(s \ {Chosen(s)}) \in Nat
             /\ Cardinality(s \ {Chosen(s)}) = Cardinality(s) - 1
  <2>1. Chosen(s) \in s
    BY <1>3
  <2>2. IsFiniteSet(s)
    BY <1>2, FS_Subset
  <2> HIDE DEF Chosen
  <2>3. IsFiniteSet(s \ {Chosen(s)}) /\ Cardinality(s \ {Chosen(s)}) = Cardinality(s) - 1
    BY <2>1, <2>2, FS_RemoveElement
  <2> QED BY <2>1, <2>2, <2>3, FS_CardinalityType
<1> HIDE DEF Chosen
<1>4. PartSum({}) = 0
  BY FS_EmptySet
<1>5. ASSUME NEW s \in SUBSET S, s # {}
      PROVE  PartSum(s) = f[Chosen(s)] + PartSum(s \ {Chosen(s)})
  <2>1. PICK c : c = Cardinality(s)
    OBVIOUS
  <2>2. PICK x : x = Chosen(s)
    OBVIOUS
  <2>3. c \in Nat /\ x \in s /\ x \in 1 .. n /\ Cardinality(s \ {x}) = c - 1
    BY <1>3, <1>5, <2>1, <2>2
  <2>4. /\ per * (c - 1) = per * c - per
        /\ per * (n - 1) = per * n - per
        /\ per * c \in Int /\ per * n \in Int
    BY <2>3
  <2>5. CASE x = n
    <3>1. f[x] = total - per * (n - 1)
      BY <1>0, <2>3, <2>5
    <3>2. PartSum(s) = per * c + (total - per * n)
      BY <2>1, <2>3, <2>5
    <3>3. PartSum(s \ {x}) = per * (c - 1)
      BY <2>3, <2>4, <2>5
    <3> HIDE DEF PartSum
    <3> QED BY ONLY <2>2, <2>4, <3>1, <3>2, <3>3, per \in Int, total \in Int
  <2>6. CASE x # n
    <3>1. f[x] = per
      BY <1>0, <2>3, <2>6
    <3>2. PICK rest \in Int : rest = IF n \in s THEN total - per * n ELSE 0
      <4>1. total - per * n \in Int
        <5>1. PICK q \in Int : q = per * n
          BY <2>4
        <5> QED BY <5>1
      <4>2. CASE n \in s
        BY <4>1, <4>2
      <4>3. CASE n \notin s
        BY <4>3
      <4> QED BY <4>2, <4>3
    <3>3. PartSum(s) = per * c + rest
      BY <2>1, <3>2
    <3>4. PartSum(s \ {x}) = per * (c - 1) + rest
      BY <2>3, <2>6, <3>2
    <3> HIDE DEF PartSum
    <3> QED BY ONLY <2>2, <2>4, <3>1, <3>3, <3>4, per \in Int, rest \in Int
  <2> QED BY <2>5, <2>6
<1> HIDE DEF PartSum
<1>6. Iter(closed)
  <2>1. ASSUME NEW s \in SUBSET S
        PROVE  PartSum(s) = IF s = {} THEN 0 ELSE f[Chosen(s)] + closed[s \ {Chosen(s)}]
    BY <1>3, <1>4, <1>5
  <2> QED BY <2>1
<1>7. Iter(it)
  BY <1>6
<1> HIDE DEF it, closed
<1>8. \A s \in SUBSET S : it[s] = PartSum(s)
  <2> DEFINE Bad == {s \in SUBSET S : it[s] # PartSum(s)}
             Sizes == {Cardinality(s) : s \in Bad}
  <2> SUFFICES ASSUME Bad # {} PROVE FALSE
    OBVIOUS
  <2>1. Sizes \in SUBSET Nat /\ Sizes # {}
    <3>1. ASSUME NEW s \in Bad PROVE Cardinality(s) \in Nat
      BY <1>2, FS_Subset, FS_CardinalityType
    <3> QED BY <3>1
  <2>2. PICK z \in Sizes : \A u \in Sizes : z <= u
    <3> HIDE DEF Sizes
    <3> QED BY <2>1, LeastNatural
  <2>3. PICK s \in Bad : z = Cardinality(s)
    BY <2>2
  <2>4. CASE s = {}
    <3>1. it[s] = 0
      BY <1>7, <2>3, <2>4
    <3> QED BY <1>4, <2>3, <2>4, <3>1
  <2>5. CASE s # {}
    <3>1. PICK r : r = s \ {Chosen(s)}
      OBVIOUS
    <3>2. r \in SUBSET S /\ Cardinality(r) \in Nat /\ Cardinality(r) = z - 1
      BY <1>3, <2>3, <2>5, <3>1
    <3>3. r \notin Bad
      <4>1. ~(z <= z - 1)
        BY <2>1, <2>2
      <4> QED BY <2>2, <3>2, <4>1
    <3>4. it[s] = f[Chosen(s)] + it[r]
      BY <1>7, <2>3, <2>5, <3>1
    <3>5. it[r] = PartSum(r)
      BY <3>2, <3>3
    <3> QED BY <1>5, <2>3, <2>5, <3>1, <3>4, <3>5
  <2> QED BY <2>4, <2>5
<1>9. PartSum(S) = total
  <2>1. per * n + (total - per * n) = total
    OBVIOUS
  <2> QED BY <1>2, <2>1 DEF PartSum
<1> QED BY <1>1, <1>8, <1>9 DEF f

LEMMA EmptySum == SumFunction([k \in {} |-> 0]) = 0
<1> DEFINE f == [k \in {} |-> 0]
           Iter(g) == g = [s \in SUBSET (DOMAIN f) |->
                             IF s = {} THEN 0 ELSE f[CHOOSE x \in s : TRUE]
                                                    + g[s \ {CHOOSE x \in s : TRUE}]]
           it == CHOOSE g : Iter(g)
<1>1. SumFunction(f) = it[DOMAIN f]
  BY DEF SumFunction, SumFunctionOnSet, FoldFunctionOnSet, MapThenFoldSet
<1>2. DOMAIN f = {}
  OBVIOUS
<1>3. Iter([s \in SUBSET {} |-> 0])
  OBVIOUS
<1>4. Iter(it)
  BY <1>3
<1> HIDE DEF it
<1> QED BY <1>1, <1>2, <1>4

\* A total that is nothing, or more than the rounding of its shares can use up.
Ample(total, n) == total = 0 \/ 2 * total > n * (n - 1)

LEMMA SharesPositive ==
    ASSUME NEW n \in Nat, n >= 1, NEW total \in Nat, 2 * total > n * (n - 1), NEW per, per = HalfUp(total, n)
    PROVE  per \in Nat /\ per > 0 /\ total - per * (n - 1) > 0
<1>1. per \in Nat /\ 2 * n * per <= 2 * total + n /\ 2 * total + n < 2 * n * per + 2 * n
  <2>1. 2 * total + n \in Nat /\ 2 * n \in Nat /\ 2 * n > 0
    OBVIOUS
  <2>2. PICK a \in Nat, b \in Nat : a = 2 * total + n /\ b = 2 * n /\ b > 0
    BY <2>1
  <2>3. a \div b \in Nat /\ b * (a \div b) <= a /\ a < b * (a \div b) + b
    BY <2>2, NatDiv
  <2>4. per = a \div b
    BY <2>2 DEF HalfUp
  <2> QED BY <2>2, <2>3, <2>4
<1>2. n * (n - 1) = n * n - n /\ n * n \in Nat
  OBVIOUS
<1>3. per > 0
  <2>1. CASE n = 1
    BY <1>1, <2>1
  <2>2. CASE n > 1
    <3>1. n * (n - 1) >= n
      BY <2>2
    <3>2. 2 * total > n
      BY <3>1
    <3>3. per # 0
      <4> SUFFICES ASSUME per = 0 PROVE FALSE
        OBVIOUS
      <4>1. 2 * n * per = 0
        OBVIOUS
      <4> QED BY <1>1, <3>2, <4>1
    <3> QED BY <1>1, <3>3
  <2> QED BY <2>1, <2>2
<1>4. total - per * (n - 1) > 0
  <2>1. PICK q \in Int : q = per * (n - 1)
    BY <1>1
  <2>2. (2 * n * per) * (n - 1) = 2 * n * q
    BY <1>1, <2>1
  <2>3. (2 * n * per) * (n - 1) <= (2 * total + n) * (n - 1)
    <3>1. PICK x \in Int, y \in Int : x = 2 * n * per /\ y = 2 * total + n
      BY <1>1
    <3>2. x <= y
      BY <1>1, <3>1
    <3>3. x * (n - 1) <= y * (n - 1)
      BY ONLY <3>2, x \in Int, y \in Int, n \in Nat, n >= 1
    <3> QED BY <3>1, <3>3
  <2>4. (2 * total + n) * (n - 1) = 2 * n * total - 2 * total + n * (n - 1)
    OBVIOUS
  <2>5. 2 * n * q < 2 * n * total
    <3>1. PICK u \in Int, v \in Int, w \in Int : u = 2 * n * q /\ v = 2 * n * total /\ w = n * (n - 1)
      BY <2>1
    <3>2. u <= v - 2 * total + w
      BY <2>2, <2>3, <2>4, <3>1
    <3>3. w < 2 * total
      BY <3>1
    <3>4. u < v
      BY ONLY <3>2, <3>3, total \in Nat, u \in Int, v \in Int, w \in Int
    <3> QED BY <3>1, <3>4
  <2>6. q < total
    <3> SUFFICES ASSUME total <= q PROVE FALSE
      BY <2>1
    <3>1. 2 * n * total <= 2 * n * q
      BY <2>1
    <3> QED BY <2>1, <2>5, <3>1
  <2> QED BY <2>1, <2>6
<1> QED BY <1>1, <1>3, <1>4

LEMMA RowsSum ==
    ASSUME NEW total \in Nat, NEW month \in Nat, NEW n \in Nat, NEW upfront \in BOOLEAN,
           NEW r, r = Rows(total, month, n, upfront)
    PROVE  /\ SumFunction([k \in DOMAIN r |-> r[k].amount]) = total
           /\ Ample(total, AtLeastOne(n)) => \A k \in DOMAIN r : r[k].amount > 0
<1> DEFINE m == AtLeastOne(n)
           per == HalfUp(total, m)
           d == Dates(month, m)
<1>1. m \in Nat /\ m >= 1
  BY DEF AtLeastOne
<1> HIDE DEF m
<1>2. per \in Nat
  BY <1>1, HalfUpNat
<1>3. DOMAIN d = 1 .. m
  <2>1. d = [k \in 1 .. m |-> Normalize(IF k = 1 THEN month ELSE d[k - 1] + 1)]
    BY <1>1, DatesWalk
  <2> HIDE DEF d
  <2> QED BY <2>1
<1>4. PICK a : a = [k \in 1 .. m |-> IF k < m THEN per ELSE total - per * (m - 1)]
               /\ a = Split(m, per, total)
  BY DEF Split
<1>5. r = IF total = 0 THEN <<>>
          ELSE IF upfront THEN <<[due |-> d[1], amount |-> total]>>
          ELSE [k \in 1 .. m |-> [due |-> d[k], amount |-> a[k]]]
  BY <1>3, <1>4 DEF Rows, Shares, m
<1>6. CASE total = 0
  <2>1. r = <<>> /\ DOMAIN r = {}
    BY <1>5, <1>6
  <2>2. [k \in DOMAIN r |-> r[k].amount] = [k \in {} |-> 0]
    BY <2>1
  <2>3. SumFunction([k \in {} |-> 0]) = 0
    BY EmptySum
  <2> QED BY <1>6, <2>1, <2>2, <2>3
<1>7. CASE total # 0 /\ upfront
  <2>1. DOMAIN r = 1 .. 1 /\ r[1].amount = total
    BY <1>5, <1>7
  <2>2. [k \in DOMAIN r |-> r[k].amount] = Split(1, 0, total)
    BY <2>1 DEF Split
  <2>3. SumFunction(Split(1, 0, total)) = total
    <3>1. 1 \in Nat /\ 1 >= 1 /\ 0 \in Int /\ total \in Int
      OBVIOUS
    <3> QED BY ONLY <3>1, SharesSum, Zenon
  <2>4. \A k \in DOMAIN r : r[k].amount > 0
    <3>1. total > 0
      BY <1>7
    <3> QED BY <2>1, <3>1
  <2> QED BY <2>2, <2>3, <2>4
<1>8. CASE total # 0 /\ ~upfront
  <2>1. DOMAIN r = 1 .. m /\ \A k \in 1 .. m : r[k].amount = a[k]
    BY <1>5, <1>8
  <2>2. [k \in DOMAIN r |-> r[k].amount] = a
    BY <1>4, <2>1
  <2>3. SumFunction(a) = total
    <3>1. m \in Nat /\ m >= 1 /\ per \in Int /\ total \in Int
      BY <1>1, <1>2
    <3> HIDE DEF per
    <3>2. SumFunction(Split(m, per, total)) = total
      BY ONLY <3>1, SharesSum, Zenon
    <3> QED BY <1>4, <3>2
  <2>4. ASSUME Ample(total, m) PROVE \A k \in 1 .. m : a[k] > 0
    <3>1. 2 * total > m * (m - 1)
      BY <1>8, <2>4 DEF Ample
    <3>2. per > 0 /\ total - per * (m - 1) > 0
      BY <1>1, <3>1, SharesPositive
    <3> HIDE DEF per
    <3> QED BY <1>4, <3>2
  <2> QED BY <2>1, <2>2, <2>3, <2>4 DEF m
<1> QED BY <1>6, <1>7, <1>8

\* No plan, for no part of a year and no discount, and no amount staff type is
\* for fewer cents than the rounding of its shares can use up: 45 of them for
\* ten installments.
DearPlans ==
    \A was \in CountChoices : \A n \in 0 .. AtLeastOne(was) :
        /\ \A annual \in AmountChoices, of \in CountChoices, percent \in PercentChoices :
              Ample(Final(PartialBase(annual, n, of), percent), AtLeastOne(n))
        /\ \A override \in OverrideChoices : Ample(override, AtLeastOne(n))

\* A record's amount is what staff typed, or that of a plan as it was when last
\* computed.
MadeFromPlan ==
    bill.phase = "made" =>
        /\ bill.percent \in PercentChoices
        /\ \E was \in CountChoices : bill.count \in 0 .. AtLeastOne(was)
        /\ \E annual \in AmountChoices, of \in CountChoices :
              bill.base = PartialBase(annual, bill.count, of)
        /\ bill.final = Payable(bill.base, bill.percent, bill.override)

\* Rows of a record that was never set back to draft: it is confirmed.
SumsHold ==
    (bill.rows # <<>> /\ ~bill.reopened) =>
        /\ bill.status = "confirmed"
        /\ RowSum = bill.final
        /\ \A k \in DOMAIN bill.rows : bill.rows[k].amount > 0

LEMMA MadeFromPlanStep ==
    ASSUME ScheduleInv, MadeFromPlan, [ScheduleNext]_scheduleVars
    PROVE  MadeFromPlan'
<1>0. /\ plan \in PlanRow /\ plan.count \in CountChoices /\ plan.annual \in AmountChoices
      /\ plan.count \in Nat /\ bill \in Bill
  BY PlanTyped DEF ScheduleInv, PlanRow
<1>1. CASE bill' = bill
  BY <1>1 DEF MadeFromPlan
<1>2. CASE bill'.phase # "made"
  BY <1>2 DEF MadeFromPlan
<1>3. ASSUME NEW percent \in PercentChoices, NEW upfront \in BOOLEAN, Draft(percent, upfront)
      PROVE  MadeFromPlan'
  <2>1. PICK n : n = YearCount(bill.month)
    OBVIOUS
  <2>2. n \in 0 .. AtLeastOne(plan.count)
    <3>1. bill.month \in Nat
      BY <1>3 DEF Draft, ScheduleInv, MonthKept
    <3> QED BY <1>0, <2>1, <3>1, YearCountBounds
  <2>3. PICK b : b = PartialBase(plan.annual, n, plan.count)
    OBVIOUS
  <2>4. PICK f : f = Final(b, percent)
    OBVIOUS
  <2>5. /\ bill'.count = n /\ bill'.percent = percent /\ bill'.base = b /\ bill'.final = f
        /\ bill'.override = bill.override
    BY <1>0, <1>3, <2>1, <2>3, <2>4 DEF Draft, Bill
  <2>6. bill.override = NoOverride
    BY <1>3 DEF Draft, ScheduleInv, MadeHasRows
  <2> QED BY <2>2, <2>3, <2>4, <2>5, <2>6 DEF MadeFromPlan, Payable, ScheduleInv, PlanRow
<1>4. CASE Recompute
  <2>1. PICK b : b = PartialBase(plan.annual, bill.count, plan.count)
    OBVIOUS
  <2>2. PICK f : f = Payable(b, bill.percent, bill.override)
    OBVIOUS
  <2>3. /\ bill'.count = bill.count /\ bill'.percent = bill.percent /\ bill'.base = b
        /\ bill'.override = bill.override /\ bill'.final = f /\ bill.phase = "made"
    BY <1>0, <1>4, <2>1, <2>2 DEF Recompute, DraftRecord, Bill
  <2> QED BY <1>0, <2>1, <2>2, <2>3 DEF MadeFromPlan
<1>5. ASSUME NEW typed \in TypedMonths, NEW today \in Todays, NEW late \in BOOLEAN,
             Reassign(typed, today, late)
      PROVE  MadeFromPlan'
  <2>1. PICK m : m = Normalize(typed)
    OBVIOUS
  <2>2. m \in Nat
    BY <1>5, <2>1, ChosenMonth DEF Reassign
  <2>3. PICK n : n = YearCount(m)
    OBVIOUS
  <2>4. n \in 0 .. AtLeastOne(plan.count)
    BY <1>0, <2>2, <2>3, YearCountBounds
  <2>5. PICK b : b = PartialBase(plan.annual, n, plan.count)
    OBVIOUS
  <2>6. PICK f : f = Payable(b, bill.percent, bill.override)
    OBVIOUS
  <2>7. /\ bill'.count = n /\ bill'.percent = bill.percent /\ bill'.base = b
        /\ bill'.override = bill.override /\ bill'.final = f /\ bill.phase = "made"
    BY <1>0, <1>5, <2>1, <2>3, <2>5, <2>6 DEF Reassign, DraftRecord, Bill
  <2> QED BY <1>0, <2>4, <2>5, <2>6, <2>7 DEF MadeFromPlan
<1>6. ASSUME NEW today \in Todays, NEW late \in BOOLEAN, Preselect(today, late)
      PROVE  bill'.phase # "made"
  BY <1>0, <1>6 DEF Preselect, Bill
<1>7. ASSUME NEW typed \in TypedMonths, NEW today \in Todays, NEW late \in BOOLEAN,
             Setup(typed, today, late)
      PROVE  bill'.phase # "made"
  BY <1>0, <1>7 DEF Setup, Bill
<1>8. SignBill => bill'.phase # "made"
  BY <1>0 DEF SignBill, Bill
<1>9. ASSUME MaterializeRows \/ PushRows
      PROVE  MadeFromPlan'
  <2>1. /\ bill'.phase = bill.phase /\ bill'.count = bill.count /\ bill'.percent = bill.percent
        /\ bill'.base = bill.base /\ bill'.override = bill.override /\ bill'.final = bill.final
    <3>1. CASE MaterializeRows
      <4>1. PICK r : bill' = [bill EXCEPT !.rows = r]
        BY <3>1 DEF MaterializeRows
      <4> QED BY <1>0, <4>1 DEF Bill
    <3>2. CASE PushRows
      BY <1>0, <3>2 DEF PushRows, Bill
    <3> QED BY <1>9, <3>1, <3>2
  <2> QED BY <2>1 DEF MadeFromPlan
<1>10. ASSUME NEW override \in {NoOverride} \cup OverrideChoices, NEW status \in {"draft", "confirmed"},
              SaveRecordForm(override, status)
       PROVE  MadeFromPlan'
  <2>1. PICK f : f = Payable(bill.base, bill.percent, override)
    OBVIOUS
  <2>2. /\ bill'.count = bill.count /\ bill'.percent = bill.percent /\ bill'.base = bill.base
        /\ bill'.override = override /\ bill'.final = f /\ bill.phase = "made"
    BY <1>0, <1>10, <2>1 DEF SaveRecordForm, Bill
  <2> QED BY <2>1, <2>2 DEF MadeFromPlan
<1> QED BY <1>1, <1>2, <1>3, <1>4, <1>5, <1>6, <1>7, <1>8, <1>9, <1>10
        DEF ScheduleNext, EditPlan, scheduleVars

LEMMA MadeIsAmple ==
    ASSUME DearPlans, ScheduleInv, MadeFromPlan, bill.phase = "made"
    PROVE  Ample(bill.final, AtLeastOne(bill.count))
<1>1. PICK was \in CountChoices : bill.count \in 0 .. AtLeastOne(was)
  BY DEF MadeFromPlan
<1>2. PICK annual \in AmountChoices, of \in CountChoices : bill.base = PartialBase(annual, bill.count, of)
  BY DEF MadeFromPlan
<1>3. /\ bill.percent \in PercentChoices /\ bill.override \in {NoOverride} \cup OverrideChoices
      /\ bill.final = Payable(bill.base, bill.percent, bill.override)
  BY DEF MadeFromPlan, ScheduleInv, Bill
<1>4. CASE bill.override = NoOverride
  BY <1>1, <1>2, <1>3, <1>4 DEF DearPlans, Payable
<1>5. CASE bill.override # NoOverride
  BY <1>1, <1>3, <1>5 DEF DearPlans, Payable
<1> QED BY <1>4, <1>5

LEMMA SumsStep ==
    ASSUME DearPlans, ScheduleInv, MadeFromPlan, SumsHold, [ScheduleNext]_scheduleVars
    PROVE  SumsHold'
<1>0. bill \in Bill
  BY DEF ScheduleInv
<1>1. CASE MaterializeRows
  <2>1. PICK r : r = Rows(bill.final, bill.month, bill.count, bill.upfront)
    OBVIOUS
  <2>2. /\ bill.phase = "made" /\ bill.month \in Nat /\ bill.final \in Nat
        /\ bill.count \in Nat /\ bill.upfront \in BOOLEAN /\ bill.status = "confirmed"
    BY <1>0, <1>1 DEF MaterializeRows, ScheduleInv, MonthKept, Bill
  <2>3. bill' = [bill EXCEPT !.rows = r]
    BY <1>1, <2>1 DEF MaterializeRows
  <2>4. bill'.rows = r /\ bill'.final = bill.final /\ bill'.status = bill.status
    BY <1>0, <2>3 DEF Bill
  <2>5. /\ SumFunction([k \in DOMAIN r |-> r[k].amount]) = bill.final
        /\ \A k \in DOMAIN r : r[k].amount > 0
    BY <2>1, <2>2, RowsSum, MadeIsAmple
  <2>6. RowSum' = SumFunction([k \in DOMAIN r |-> r[k].amount])
    BY <2>4 DEF RowSum
  <2> QED BY <2>2, <2>4, <2>5, <2>6 DEF SumsHold
<1>2. ASSUME bill'.rows = bill.rows, bill'.final = bill.final, bill'.status = bill.status,
             bill'.reopened = bill.reopened
      PROVE  SumsHold'
  BY <1>2 DEF SumsHold, RowSum
<1>3. ASSUME bill'.rows = <<>>
      PROVE  SumsHold'
  BY <1>3 DEF SumsHold
<1>4. ASSUME bill.phase # "made", bill'.rows = bill.rows
      PROVE  SumsHold'
  BY <1>3, <1>4 DEF ScheduleInv, MadeHasRows
<1>5. ASSUME NEW today \in Todays, NEW late \in BOOLEAN, Preselect(today, late)
      PROVE  SumsHold'
  BY <1>0, <1>4, <1>5 DEF Preselect, Bill
<1>6. ASSUME NEW typed \in TypedMonths, NEW today \in Todays, NEW late \in BOOLEAN,
             Setup(typed, today, late)
      PROVE  SumsHold'
  BY <1>0, <1>4, <1>6 DEF Setup, Bill
<1>7. CASE SignBill
  BY <1>0, <1>4, <1>7 DEF SignBill, Bill
<1>8. ASSUME NEW percent \in PercentChoices, NEW upfront \in BOOLEAN, Draft(percent, upfront)
      PROVE  SumsHold'
  BY <1>0, <1>4, <1>8 DEF Draft, Bill
<1>9. CASE Recompute
  <2>1. bill.status = "draft"
    BY <1>9 DEF Recompute, DraftRecord
  <2>2. PICK b, f : bill' = [bill EXCEPT !.base = b, !.final = f]
    BY <1>9 DEF Recompute
  <2>3. bill'.rows = bill.rows /\ bill'.reopened = bill.reopened
    BY <1>0, <2>2 DEF Bill
  <2> QED BY <2>1, <2>3 DEF SumsHold
<1>10. ASSUME NEW typed \in TypedMonths, NEW today \in Todays, NEW late \in BOOLEAN,
              Reassign(typed, today, late)
       PROVE  SumsHold'
  <2>1. PICK m, n, b, f : bill' = [bill EXCEPT !.month = m, !.count = n, !.base = b, !.rows = <<>>,
                                               !.final = f]
    BY <1>10 DEF Reassign
  <2>2. bill'.rows = <<>>
    BY <1>0, <2>1 DEF Bill
  <2> QED BY <1>3, <2>2
<1>11. ASSUME NEW override \in {NoOverride} \cup OverrideChoices, NEW status \in {"draft", "confirmed"},
              SaveRecordForm(override, status)
       PROVE  SumsHold'
  <2>1. PICK f : f = Payable(bill.base, bill.percent, override)
    OBVIOUS
  <2>2. PICK o : o = (bill.reopened \/ (bill.status = "confirmed" /\ status = "draft"))
    OBVIOUS
  <2>3. bill' = [bill EXCEPT !.override = override, !.status = status, !.final = f, !.reopened = o]
    BY <1>0, <1>11, <2>1, <2>2 DEF SaveRecordForm, Bill
  <2>4. /\ bill'.rows = bill.rows /\ bill'.final = f /\ bill'.status = status /\ bill'.reopened = o
    BY <1>0, <2>3 DEF Bill
  <2>5. CASE bill.rows = <<>>
    BY <1>3, <2>4, <2>5
  <2>6. CASE o
    BY <2>4, <2>6 DEF SumsHold
  <2>7. CASE bill.rows # <<>> /\ ~o
    <3>1. ~bill.reopened /\ bill.status = "confirmed" /\ status = "confirmed"
      BY <2>2, <2>7 DEF SumsHold
    <3>2. override = bill.override
      BY <1>11, <3>1 DEF SaveRecordForm
    <3>3. f = bill.final
      BY <1>11, <2>1, <3>2 DEF MadeFromPlan, SaveRecordForm
    <3> QED BY <1>2, <2>2, <2>4, <2>7, <3>1, <3>3, <1>0 DEF Bill
  <2> QED BY <2>5, <2>6, <2>7
<1>12. CASE PushRows
  BY <1>0, <1>2, <1>12 DEF PushRows, Bill
<1>13. CASE bill' = bill
  BY <1>2, <1>13
<1> QED BY <1>1, <1>5, <1>6, <1>7, <1>8, <1>9, <1>10, <1>11, <1>12, <1>13
        DEF ScheduleNext, EditPlan, scheduleVars

\* Whatever the plan has become, the rows add up to the record's final amount,
\* to the cent, and none is for nothing, where no plan and no typed amount is
\* cheaper than the rounding of its installments (billing/services.py:270-276),
\* until staff set a confirmed record back to draft.
THEOREM InvoicesAddUp ==
    ASSUME DearPlans
    PROVE  ScheduleSpec => []RowsSumToFinal
<1>1. ScheduleInit => SumsHold /\ MadeFromPlan
  BY DEF ScheduleInit, NoBill, SumsHold, MadeFromPlan
<1>2. /\ ScheduleInv /\ MadeFromPlan /\ SumsHold /\ [ScheduleNext]_scheduleVars
      => MadeFromPlan' /\ SumsHold'
  BY MadeFromPlanStep, SumsStep
<1>3. SumsHold => RowsSumToFinal
  BY DEF SumsHold, RowsSumToFinal
<1> QED BY <1>1, <1>2, <1>3, ScheduleAlwaysInv, PTL DEF ScheduleSpec

HIDE ScheduleAssumption

-----------------------------------------------------------------------------
(* The cockpit of one application *)

USE CockpitAssumption

-----------------------------------------------------------------------------
(* The inductive invariant *)

\* Before the approval there is neither agreement nor record; as long as there
\* is one agreement, every record is that agreement's, and until it is signed
\* there is none. A signed agreement has its plan.
OneAgreement ==
    /\ stage # "approved" => current = 0
    /\ current = 0 => \A s \in Seasons : ~books[s].exists
    /\ current = 1 => \A s \in Seasons : books[s].exists => books[s].contract = 1
    /\ (current = 1 /\ CurrentState \in {"generated", "sent"}) => \A s \in Seasons : ~books[s].exists
    /\ CurrentState = "signed" => CurrentSeason # NoPlan
    /\ FirstAgreementHasItsRecord

CockpitInv == CockpitTypeOK /\ OneAgreement

LEMMA Constants == /\ 1 \in Slots /\ NoPlan \notin Seasons /\ NoPlan \in Plan
                   /\ Unused \in Contract /\ NoBook \in Book /\ ~NoBook.exists
BY DEF Slots, NoPlan, Plan, Unused, Contract, ContractState, NoBook, Book

LEMMA CockpitInvInit == CockpitInit => CockpitInv
<1> SUFFICES ASSUME CockpitInit
             PROVE  CockpitInv
    OBVIOUS
<1>1. CockpitTypeOK
    BY Constants DEF CockpitInit, CockpitTypeOK
<1>2. OneAgreement
    BY Constants DEF CockpitInit, OneAgreement, FirstAgreementHasItsRecord, CurrentState
<1>3. QED
    BY <1>1, <1>2 DEF CockpitInv

-----------------------------------------------------------------------------
(* What the parts of a step keep *)

\* A contract of the current slot is written.
LEMMA ContractTyped ==
    ASSUME CockpitTypeOK, NEW c \in Slots, NEW row \in Contract,
           contracts' = [contracts EXCEPT ![c] = row]
    PROVE  contracts' \in [Slots -> Contract] /\ contracts'[c] = row
BY DEF CockpitTypeOK

LEMMA FreshTyped == \A choice \in Plan : Fresh(choice) \in Contract /\ Fresh(choice).state = "generated"
BY DEF Fresh, Contract, ContractState

\* The draft of a season is made, or was there: either way there is one, and
\* it is the current agreement's if all of them were.
LEMMA DraftMade ==
    ASSUME CockpitTypeOK, NEW choice \in Seasons, books' = WithDraft(choice)
    PROVE  /\ books' \in [Seasons -> Book]
           /\ books'[choice].exists
           /\ \A s \in Seasons : books[s].exists => books'[s] = books[s]
           /\ \A s \in Seasons : (books'[s].exists /\ ~books[s].exists) => books'[s].contract = current
<1>. PICK new : new = [NoBook EXCEPT !.exists = TRUE, !.contract = current]
    OBVIOUS
<1>1. new \in Book /\ new.exists /\ new.contract = current
    BY DEF NoBook, Book, CockpitTypeOK
<1>2. CASE books[choice].exists
    BY <1>2 DEF WithDraft, CockpitTypeOK
<1>3. CASE ~books[choice].exists
    <2>1. books' = [books EXCEPT ![choice] = new]
        BY <1>3 DEF WithDraft
    <2>2. QED
        BY <1>1, <1>3, <2>1 DEF CockpitTypeOK
<1>4. QED
    BY <1>2, <1>3

\* CurrentSeason and CurrentState are about the agreement in the current slot.
LEMMA CurrentIsSlot ==
    CockpitTypeOK => /\ current # 0 => /\ current \in Slots
                                       /\ CurrentState = contracts[current].state
                                       /\ CurrentSeason = contracts[current].plan
                     /\ current = 0 => CurrentState = "unused"
BY DEF CockpitTypeOK, Slots, CurrentState, CurrentSeason

\* The current agreement is written, the records are not.
LEMMA AgreementPart ==
    ASSUME CockpitInv, current # 0, NEW row \in Contract, row.state # "signed",
           row.state \in {"generated", "sent"} => contracts[current].state \in {"generated", "sent"},
           contracts' = [contracts EXCEPT ![current] = row],
           standing' \in {"none", "active", "discontinued"},
           UNCHANGED <<stage, current, books, onSale>>
    PROVE  CockpitInv'
<1>1. current \in Slots /\ CockpitTypeOK
    BY CurrentIsSlot DEF CockpitInv
<1>2. contracts' \in [Slots -> Contract] /\ contracts'[current] = row
    BY <1>1, ContractTyped
<1>3. CockpitTypeOK'
    BY <1>1, <1>2 DEF CockpitTypeOK
<1>4. /\ CurrentState' # "signed"
      /\ CurrentState' \in {"generated", "sent"} => CurrentState \in {"generated", "sent"}
    BY <1>2, CurrentIsSlot DEF CurrentState, CockpitInv
<1>5. QED
    BY <1>3, <1>4 DEF CockpitInv, OneAgreement, FirstAgreementHasItsRecord, SignedHasItsRecord

\* Another agreement becomes current: it is not the first.
LEMMA AnotherPart ==
    ASSUME CockpitInv, current # 0, current' = current + 1, current < MaxContracts,
           contracts' \in [Slots -> Contract], contracts'[current + 1].state = "generated",
           UNCHANGED <<stage, standing, books, onSale>>
    PROVE  CockpitInv'
<1>1. current \in 1 .. MaxContracts /\ MaxContracts \in Nat
    BY DEF CockpitInv, CockpitTypeOK
<1>2. current' \in 0 .. MaxContracts /\ current' # 0 /\ current' # 1
    BY <1>1
<1>3. CockpitTypeOK'
    BY <1>2 DEF CockpitInv, CockpitTypeOK
<1>4. CurrentState' = "generated"
    BY <1>2 DEF CurrentState
<1>5. OneAgreement'
    BY <1>2, <1>4 DEF CockpitInv, OneAgreement, FirstAgreementHasItsRecord
<1>6. QED
    BY <1>3, <1>5 DEF CockpitInv

-----------------------------------------------------------------------------
(* Every step keeps the invariant *)

LEMMA StepKeepsCockpitInv == CockpitInv /\ [CockpitNext]_cockpitVars => CockpitInv'
<1> SUFFICES ASSUME CockpitInv, [CockpitNext]_cockpitVars
             PROVE  CockpitInv'
    OBVIOUS
<1> USE DEF CockpitInv
<1>0. CockpitTypeOK /\ OneAgreement
    OBVIOUS
<1>1. CASE CockpitSubmit \/ CockpitReview
    <2>1. CockpitTypeOK'
        BY <1>1 DEF CockpitSubmit, CockpitReview, CockpitTypeOK
    <2>2. OneAgreement'
        BY <1>1 DEF CockpitSubmit, CockpitReview, OneAgreement, FirstAgreementHasItsRecord,
                    SignedHasItsRecord, CurrentState, CurrentSeason, Booked
    <2>3. QED
        BY <2>1, <2>2
<1>2. CASE CockpitApprove
    <2>. PICK choice \in Preselected : contracts' = [contracts EXCEPT ![1] = Fresh(choice)]
        BY <1>2 DEF CockpitApprove
    <2>1. Fresh(choice) \in Contract /\ Fresh(choice).state = "generated"
        BY FreshTyped DEF Preselected, Plan, CockpitTypeOK
    <2>2. contracts' \in [Slots -> Contract] /\ contracts'[1] = Fresh(choice)
        BY <2>1, ContractTyped, Constants
    <2>3. current = 0 /\ current' = 1 /\ 1 \in 0 .. MaxContracts
        BY <1>2 DEF CockpitApprove, OneAgreement
    <2>4. CockpitTypeOK'
        BY <1>2, <2>2, <2>3 DEF CockpitApprove, CockpitTypeOK
    <2>5. CurrentState' = "generated"
        BY <2>1, <2>2, <2>3 DEF CurrentState
    <2>6. OneAgreement'
        BY <1>2, <2>3, <2>5 DEF CockpitApprove, OneAgreement, FirstAgreementHasItsRecord,
                                SignedHasItsRecord
    <2>7. QED
        BY <2>4, <2>6
<1>3. ASSUME NEW choice \in Seasons, CockpitSetup(choice)
      PROVE  CockpitInv'
    <2>. PICK row : row = [contracts[current] EXCEPT !.plan = choice]
        OBVIOUS
    <2>1. current # 0 /\ current \in Slots /\ contracts[current].state \notin Locked
        BY <1>3, CurrentIsSlot DEF CockpitSetup
    <2>2. row \in Contract /\ row.state # "signed" /\ row.state = contracts[current].state
        BY <2>1 DEF CockpitTypeOK, Contract, Plan, Locked
    <2>3. contracts' = [contracts EXCEPT ![current] = row]
        BY <1>3 DEF CockpitSetup, CockpitTypeOK
    <2>4. QED
        BY <1>3, <2>1, <2>2, <2>3, AgreementPart DEF CockpitSetup, CockpitTypeOK
<1>4. CASE CockpitSent
    <2>. PICK row : row = [contracts[current] EXCEPT !.state = "sent", !.sent = TRUE]
        OBVIOUS
    <2>1. current # 0 /\ current \in Slots /\ contracts[current].state = "generated"
        BY <1>4, CurrentIsSlot DEF CockpitSent
    <2>2. row \in Contract /\ row.state # "signed"
        BY <2>1 DEF CockpitTypeOK, Contract, ContractState
    <2>3. contracts' = [contracts EXCEPT ![current] = row]
        BY <1>4 DEF CockpitSent, CockpitTypeOK
    <2>4. QED
        BY <1>4, <2>1, <2>2, <2>3, AgreementPart DEF CockpitSent, CockpitTypeOK
<1>5. CASE CockpitVoid
    <2>. PICK row : row = [contracts[current] EXCEPT !.state = "void"]
        OBVIOUS
    <2>1. current # 0 /\ current \in Slots
        BY <1>5, CurrentIsSlot DEF CockpitVoid
    <2>2. row \in Contract /\ row.state = "void"
        BY <2>1 DEF CockpitTypeOK, Contract, ContractState
    <2>3. contracts' = [contracts EXCEPT ![current] = row]
        BY <1>5 DEF CockpitVoid, CockpitTypeOK
    <2>4. QED
        BY <1>5, <2>1, <2>2, <2>3, AgreementPart DEF CockpitVoid, CockpitTypeOK
<1>6. CASE CockpitDiscontinue
    <2>. PICK row : row = [contracts[current] EXCEPT !.state = "discontinued"]
        OBVIOUS
    <2>1. current # 0 /\ current \in Slots
        BY <1>6, CurrentIsSlot DEF CockpitDiscontinue, SignedActive
    <2>2. row \in Contract /\ row.state = "discontinued"
        BY <2>1 DEF CockpitTypeOK, Contract, ContractState
    <2>3. contracts' = [contracts EXCEPT ![current] = row]
        BY <1>6 DEF CockpitDiscontinue, CockpitTypeOK
    <2>4. QED
        BY <1>6, <2>1, <2>2, <2>3, AgreementPart DEF CockpitDiscontinue
<1>7. CASE CockpitSigned
    <2>. PICK row : row = [contracts[current] EXCEPT !.state = "signed"]
        OBVIOUS
    <2>1. current # 0 /\ current \in Slots /\ CurrentSeason = contracts[current].plan
        BY <1>7, CurrentIsSlot DEF CockpitSigned
    <2>2. CurrentSeason \in Seasons
        BY <1>7 DEF CockpitSigned, CockpitTypeOK
    <2>3. row \in Contract /\ row.plan = CurrentSeason /\ row.state = "signed"
        BY <2>1 DEF CockpitTypeOK, Contract, ContractState
    <2>4. contracts' = [contracts EXCEPT ![current] = row]
        BY <1>7 DEF CockpitSigned, CockpitTypeOK
    <2>5. contracts' \in [Slots -> Contract] /\ contracts'[current] = row
        BY <2>1, <2>3, <2>4, ContractTyped
    <2>6. /\ books' \in [Seasons -> Book]
          /\ books'[CurrentSeason].exists
          /\ \A s \in Seasons : books[s].exists => books'[s] = books[s]
          /\ \A s \in Seasons : (books'[s].exists /\ ~books[s].exists) => books'[s].contract = current
        BY <1>7, <2>2, DraftMade DEF CockpitSigned
    <2>7. CockpitTypeOK'
        BY <1>7, <2>5, <2>6 DEF CockpitSigned, CockpitTypeOK
    <2>8. CurrentSeason' = CurrentSeason /\ CurrentSeason # NoPlan /\ CurrentState' = "signed"
        BY <1>7, <2>1, <2>2, <2>3, <2>5, Constants DEF CockpitSigned, CurrentSeason, CurrentState
    <2>9. OneAgreement'
        BY <1>7, <2>1, <2>2, <2>6, <2>8
           DEF CockpitSigned, OneAgreement, FirstAgreementHasItsRecord, SignedHasItsRecord, Booked
    <2>10. QED
        BY <2>7, <2>9
<1>8. CASE CockpitRegenerate
    <2>. PICK choice \in Preselected : contracts' = [contracts EXCEPT ![current + 1] = Fresh(choice)]
        BY <1>8 DEF CockpitRegenerate
    <2>1. current # 0 /\ current + 1 \in Slots
        BY <1>8, CurrentIsSlot DEF CockpitRegenerate, CockpitTypeOK, Slots
    <2>2. Fresh(choice) \in Contract /\ Fresh(choice).state = "generated"
        BY FreshTyped DEF Preselected, Plan, CockpitTypeOK
    <2>3. contracts' \in [Slots -> Contract] /\ contracts'[current + 1].state = "generated"
        BY <2>1, <2>2, ContractTyped
    <2>4. QED
        BY <1>8, <2>1, <2>3, AnotherPart DEF CockpitRegenerate
<1>9. CASE CockpitAmend
    <2>. PICK old : old = [contracts[current] EXCEPT !.state = "superseded"]
        OBVIOUS
    <2>1. current # 0 /\ current \in Slots /\ current + 1 \in Slots
        BY <1>9, CurrentIsSlot DEF CockpitAmend, CockpitTypeOK, Slots
    <2>2. old \in Contract
        BY <2>1 DEF CockpitTypeOK, Contract, ContractState
    <2>3. Fresh(CurrentSeason) \in Contract /\ Fresh(CurrentSeason).state = "generated"
        BY <2>1, CurrentIsSlot, FreshTyped DEF CockpitTypeOK, Contract
    <2>4. contracts' = [contracts EXCEPT ![current] = old, ![current + 1] = Fresh(CurrentSeason)]
        BY <1>9 DEF CockpitAmend, CockpitTypeOK
    <2>5. contracts' \in [Slots -> Contract] /\ contracts'[current + 1].state = "generated"
        BY <2>1, <2>2, <2>3, <2>4 DEF CockpitTypeOK
    <2>6. QED
        BY <1>9, <2>1, <2>5, AnotherPart DEF CockpitAmend
<1>10. ASSUME NEW choice \in Seasons, books' = WithDraft(choice), SignedActive,
              UNCHANGED <<stage, standing, contracts, current, onSale>>
       PROVE  CockpitInv'
    <2>1. /\ books' \in [Seasons -> Book]
          /\ \A s \in Seasons : books[s].exists => books'[s] = books[s]
          /\ \A s \in Seasons : (books'[s].exists /\ ~books[s].exists) => books'[s].contract = current
        BY <1>10, DraftMade
    <2>2. CockpitTypeOK'
        BY <1>10, <2>1 DEF CockpitTypeOK
    <2>3. current # 0 /\ CurrentState = "signed"
        BY <1>10, CurrentIsSlot DEF SignedActive
    <2>4. CurrentState' = CurrentState /\ CurrentSeason' = CurrentSeason
        BY <1>10 DEF CurrentState, CurrentSeason
    <2>5. OneAgreement'
        BY <1>10, <2>1, <2>3, <2>4
           DEF OneAgreement, FirstAgreementHasItsRecord, SignedHasItsRecord, Booked
    <2>6. QED
        BY <2>2, <2>5
<1>11. ASSUME NEW choice \in Seasons, CockpitRenew(choice)
       PROVE  CockpitInv'
    BY <1>10, <1>11 DEF CockpitRenew
<1>12. CASE CockpitRecreate
    <2>1. CurrentSeason \in Seasons
        BY <1>12, CurrentIsSlot DEF CockpitRecreate, CockpitTypeOK, Contract, Plan, CurrentSeason
    <2>2. QED
        BY <1>10, <1>12, <2>1 DEF CockpitRecreate
<1>13. ASSUME NEW s \in Seasons, NEW choice \in Seasons, CockpitReassign(s, choice)
       PROVE  CockpitInv'
    <2>. PICK c : c = books[s].contract
        OBVIOUS
    <2>1. /\ books[s].exists
          /\ books' = Moved(s, choice)
          /\ contracts' = [contracts EXCEPT ![c].plan = choice]
          /\ UNCHANGED <<stage, standing, current, onSale>>
        BY <1>13 DEF CockpitReassign
    <2>2. books' \in [Seasons -> Book] /\ books'[choice] = books[s]
        BY <2>1, Constants DEF Moved, CockpitTypeOK
    <2>3. \A t \in Seasons : books'[t].exists => books'[t] = books[t] \/ books'[t] = books[s]
        BY <2>1, Constants DEF Moved, CockpitTypeOK
    <2>4. contracts' \in [Slots -> Contract]
        BY <2>1 DEF CockpitTypeOK, Contract, Plan
    <2>5. CockpitTypeOK'
        BY <2>1, <2>2, <2>4 DEF CockpitTypeOK
    <2>6. current # 0
        BY <2>1 DEF OneAgreement
    <2>7. CASE current = 1
        <3>1. c = 1 /\ current' = 1
            BY <2>1, <2>7 DEF OneAgreement
        <3>2. contracts'[1].plan = choice
            BY <2>1, <3>1, Constants DEF CockpitTypeOK, Contract
        <3>3. /\ CurrentSeason' = choice /\ choice \in Booked' /\ choice # NoPlan
              /\ CurrentState \notin {"generated", "sent"}
            BY <2>1, <2>2, <2>7, <3>1, <3>2, Constants DEF CurrentSeason, Booked, OneAgreement
        <3>4. \A t \in Seasons : books'[t].exists => books'[t].contract = 1
            BY <2>1, <2>3, <2>7 DEF OneAgreement
        <3>5. CurrentState' = CurrentState
            BY <2>1, <2>7, Constants DEF CurrentState, CockpitTypeOK, Contract
        <3>6. OneAgreement'
            BY <2>1, <2>7, <3>1, <3>3, <3>4, <3>5
               DEF OneAgreement, FirstAgreementHasItsRecord, SignedHasItsRecord
        <3>7. QED
            BY <2>5, <3>6
    <2>8. CASE current # 1
        <3>1. current \in Slots /\ choice # NoPlan
            BY <2>6, CurrentIsSlot, Constants
        <3>2. CurrentState' = CurrentState /\ (CurrentSeason' = CurrentSeason \/ CurrentSeason' = choice)
            BY <2>1, <2>6, <3>1 DEF CurrentState, CurrentSeason, CockpitTypeOK, Contract
        <3>3. QED
            BY <2>1, <2>5, <2>6, <2>8, <3>1, <3>2 DEF OneAgreement, FirstAgreementHasItsRecord
    <2>9. QED
        BY <2>7, <2>8
<1>14. ASSUME NEW s \in Seasons, NEW row \in Book, books' = [books EXCEPT ![s] = row],
              row.exists = books[s].exists, row.contract = books[s].contract,
              UNCHANGED <<stage, standing, contracts, current, onSale>>
       PROVE  CockpitInv'
    <2>1. books' \in [Seasons -> Book]
        BY <1>14 DEF CockpitTypeOK
    <2>2. \A t \in Seasons : books'[t].exists = books[t].exists /\ books'[t].contract = books[t].contract
        BY <1>14 DEF CockpitTypeOK, Book
    <2>3. CockpitTypeOK'
        BY <1>14, <2>1 DEF CockpitTypeOK
    <2>4. CurrentState' = CurrentState /\ CurrentSeason' = CurrentSeason /\ Booked' = Booked
        BY <1>14, <2>2 DEF CurrentState, CurrentSeason, Booked
    <2>5. OneAgreement'
        BY <1>14, <2>2, <2>4 DEF OneAgreement, FirstAgreementHasItsRecord, SignedHasItsRecord
    <2>6. QED
        BY <2>3, <2>5
<1>15. ASSUME NEW s \in Seasons, CockpitPush(s)
       PROVE  CockpitInv'
    <2>. PICK issued \in BOOLEAN, synced \in BOOLEAN :
            books' = [books EXCEPT ![s].status = "confirmed", ![s].issued = issued, ![s].synced = synced]
        BY <1>15 DEF CockpitPush
    <2>. PICK row : row = [books[s] EXCEPT !.status = "confirmed", !.issued = issued, !.synced = synced]
        OBVIOUS
    <2>1. /\ row \in Book /\ books' = [books EXCEPT ![s] = row]
          /\ row.exists = books[s].exists /\ row.contract = books[s].contract
        BY DEF CockpitTypeOK, Book
    <2>2. QED
        BY <1>14, <1>15, <2>1 DEF CockpitPush
<1>16. ASSUME NEW s \in Seasons, CockpitRecordForm(s)
       PROVE  CockpitInv'
    <2>. PICK status \in {"draft", "confirmed"} : books' = [books EXCEPT ![s].status = status]
        BY <1>16 DEF CockpitRecordForm
    <2>. PICK row : row = [books[s] EXCEPT !.status = status]
        OBVIOUS
    <2>1. /\ row \in Book /\ books' = [books EXCEPT ![s] = row]
          /\ row.exists = books[s].exists /\ row.contract = books[s].contract
        BY DEF CockpitTypeOK, Book
    <2>2. QED
        BY <1>14, <1>16, <2>1 DEF CockpitRecordForm
<1>17. ASSUME NEW choice \in Seasons, CockpitSell(choice)
       PROVE  CockpitInv'
    <2>1. CockpitTypeOK'
        BY <1>17 DEF CockpitSell, CockpitTypeOK
    <2>2. OneAgreement'
        BY <1>17 DEF CockpitSell, OneAgreement, FirstAgreementHasItsRecord, SignedHasItsRecord,
                     CurrentState, CurrentSeason, Booked
    <2>3. QED
        BY <2>1, <2>2
<1>18. CASE UNCHANGED cockpitVars
    BY <1>18 DEF cockpitVars, CockpitTypeOK, OneAgreement, FirstAgreementHasItsRecord,
                 SignedHasItsRecord, CurrentState, CurrentSeason, Booked
<1>19. QED
    BY <1>1, <1>2, <1>3, <1>4, <1>5, <1>6, <1>7, <1>8, <1>9, <1>11, <1>12, <1>13, <1>15, <1>16,
       <1>17, <1>18 DEF CockpitNext

LEMMA CockpitAlwaysInv == CockpitSpec => []CockpitInv
BY CockpitInvInit, StepKeepsCockpitInv, PTL DEF CockpitSpec

-----------------------------------------------------------------------------

\* Every variable keeps its type.
THEOREM CockpitTypeCorrect == CockpitSpec => []CockpitTypeOK
<1>1. CockpitInv => CockpitTypeOK
    BY DEF CockpitInv
<1>2. QED
    BY <1>1, CockpitAlwaysInv, PTL

\* A signed first agreement has the record of its season, wherever staff move
\* the record (billing/services.py:907-918).
THEOREM FirstAgreementKeepsRecord == CockpitSpec => []FirstAgreementHasItsRecord
<1>1. CockpitInv => FirstAgreementHasItsRecord
    BY DEF CockpitInv, OneAgreement
<1>2. QED
    BY <1>1, CockpitAlwaysInv, PTL

\* The record a page shows is one that exists.
LEMMA ShownIsBooked == ShownBook # NoPlan => ShownBook \in Booked
<1>1. Booked # {} => Least(Booked) \in Booked
  <2> SUFFICES ASSUME Booked # {} PROVE Least(Booked) \in Booked
    OBVIOUS
  <2>1. Booked \in SUBSET Nat
    BY DEF Booked
  <2>2. \E s \in Booked : \A t \in Booked : s <= t
    BY <2>1, LeastNatural
  <2> QED BY <2>2 DEF Least
<1>2. CASE CurrentSeason \in Booked
  <2>1. CurrentSeason # NoPlan
    BY <1>2 DEF Booked, NoPlan
  <2> QED BY <1>2, <2>1 DEF ShownBook
<1>3. CASE CurrentSeason \notin Booked /\ CurrentSeason = NoPlan /\ Booked # {}
  BY <1>1, <1>3 DEF ShownBook
<1>4. CASE CurrentSeason \notin Booked /\ ~(CurrentSeason = NoPlan /\ Booked # {})
  BY <1>4 DEF ShownBook
<1> QED BY <1>2, <1>3, <1>4

\* In every reachable set of rows, for any seasons and any number of
\* agreements, the endpoint accepts what a page of the Hub offers, or refuses it
\* for the plan or the ended agreement that HubOffersWork names.
THEOREM OffersAreAccepted == CockpitSpec => []HubOffersWork
<1>1. CockpitInv => HubOffersWork
  <2> SUFFICES ASSUME CockpitInv, NEW c \in Controls, Offers(c)
               PROVE  Accepts(c) \/ Dangling(c)
    BY DEF HubOffersWork
  <2> USE DEF Offers, CockpitOffers, AgreementOffers, BillingOffers, Accepts
  <2>1. CASE c \in {"approve", "request_fix", "reject", "resolve_corrections",
                    "mark_agreement_sent", "regenerate_agreement", "discontinue_member"}
    BY <2>1
  <2>2. CASE c = "set_billing_setup"
    BY <2>2 DEF PlanEditable
  <2>3. CASE c = "void_agreement"
    BY <2>3
  <2>4. CASE c = "push"
    BY <2>4, ShownIsBooked
  <2>5. CASE c = "create_next_season_billing"
    <3>1. SignedActive => CurrentSeason # NoPlan
      BY DEF SignedActive, CockpitInv, OneAgreement
    <3> QED BY <2>5, <3>1 DEF Dangling
  <2>6. CASE c = "mark_agreement_signed"
    <3>1. current # 0 /\ CurrentState \in {"generated", "sent"} /\ PreviewPlan # NoPlan
      BY <2>6 DEF StepActionable, StepAvailable
    <3>2. CurrentSeason \in Seasons \cup {NoPlan}
      BY <3>1, CurrentIsSlot DEF CockpitInv, CockpitTypeOK, Contract, Plan
    <3>3. CurrentSeason = NoPlan => ShownBook \in Booked
      BY <3>1, ShownIsBooked DEF PreviewPlan
    <3>4. current = 1 => Booked = {}
      BY <3>1 DEF CockpitInv, OneAgreement, Booked
    <3>5. current \in Nat
      BY DEF CockpitInv, CockpitTypeOK
    <3> QED BY <2>6, <3>1, <3>2, <3>3, <3>4, <3>5 DEF Dangling
  <2> QED BY <2>1, <2>2, <2>3, <2>4, <2>5, <2>6 DEF Controls
<1> QED BY <1>1, CockpitAlwaysInv, PTL

-----------------------------------------------------------------------------
(* The six of them side by side *)

\* A step of MCOffice is one of the module in focus and leaves the others as
\* they are, so each of them behaves as its own specification says, and what is
\* proved from that holds of what the run explores.
THEOREM OfficeRunsParts ==
    OfficeSpec => /\ CockpitSpec /\ FamilyHubSpec /\ FamilySpec
                  /\ ScheduleSpec /\ PermitSpec /\ ArtifactSpec
<1>1. OfficeInit => /\ CockpitInit /\ FamilyHubInit /\ FamilyInit
                    /\ ScheduleInit /\ PermitInit /\ ArtifactInit
  BY DEF OfficeInit
<1>2. [OfficeNext]_officeVars => [CockpitNext]_cockpitVars
  BY DEF OfficeNext, officeVars
<1>3. [OfficeNext]_officeVars => [FamilyHubNext]_familyHubVars
  BY DEF OfficeNext, officeVars
<1>4. [OfficeNext]_officeVars => [FamilyNext]_familyVars
  BY DEF OfficeNext, officeVars
<1>5. [OfficeNext]_officeVars => [ScheduleNext]_scheduleVars
  BY DEF OfficeNext, officeVars
<1>6. [OfficeNext]_officeVars => [PermitNext]_permitVars
  BY DEF OfficeNext, officeVars
<1>7. [OfficeNext]_officeVars => [ArtifactNext]_artifactVars
  BY DEF OfficeNext, officeVars
<1> QED
  BY <1>1, <1>2, <1>3, <1>4, <1>5, <1>6, <1>7, PTL
  DEF OfficeSpec, CockpitSpec, FamilyHubSpec, FamilySpec, ScheduleSpec, PermitSpec, ArtifactSpec

\* Every component's rows keep their types, whatever staff do with them.
THEOREM OfficeTypeCorrect == OfficeSpec => []OfficeTypeOK
<1>1. HubInv => FamilyHubTypeOK
  BY DEF HubInv
<1>2. ArtifactInv => ArtifactTypeOK
  BY DEF ArtifactInv
<1>3. ArtifactSpec => []ArtifactInv
  BY ArtifactInvInit, ArtifactInvStep, PTL DEF ArtifactSpec
<1> QED
  BY <1>1, <1>2, <1>3, OfficeRunsParts, CockpitTypeCorrect, HubAlwaysInv, FamilyTypeCorrect,
     ScheduleTypeCorrect, PermitTypeCorrect, PTL DEF OfficeTypeOK
=============================================================================

---------------------------- MODULE FamilyBilling ----------------------------
(***************************************************************************)
(* The billing drafts of one family: siblings' agreements are signed by     *)
(* requests that overlap, and each draft's discount is the rank of its       *)
(* member among the family's signed agreements, counted under the guardian's *)
(* row lock when the draft is made and never again (billing/services.py).   *)
(***************************************************************************)
EXTENDS Naturals, FiniteSets

CONSTANTS
    Siblings,     \* member ids of one guardian's children
    BillSeasons,  \* seasons a plan may be of
    OptedOut,     \* siblings whose application opted out of the discount
    MaxClock      \* bound: instants at which agreements are signed

ASSUME FamilyAssumption ==
    /\ Siblings \subseteq Nat /\ IsFiniteSet(Siblings)
    /\ OptedOut \subseteq Siblings
    /\ MaxClock \in Nat

VARIABLES
    deals,    \* each sibling's current agreement
    signer,   \* the request that signs it
    drafts,   \* BillingRecord by sibling and season
    clock,    \* timezone.now()
    steady    \* history: every agreement stands as signed, no record is renewed
              \* or in another season than its agreement's

familyVars == <<deals, signer, drafts, clock, steady>>

-----------------------------------------------------------------------------

Deal == [state : {"generated", "signed", "void", "discontinued"}, signedAt : 0 .. MaxClock,
         season : BillSeasons]

\* at: about to save the stamp it took, or to make the draft.
Signer == [at : {"idle", "stamped", "saved"}, stamp : 0 .. MaxClock]

Tiers == {0, 50, 75, 100}
NoDraft == [exists |-> FALSE, percent |-> 0]

FamilyTypeOK ==
    /\ deals \in [Siblings -> Deal]
    /\ signer \in [Siblings -> Signer]
    /\ drafts \in [Siblings \X BillSeasons -> [exists : BOOLEAN, percent : Tiers]]
    /\ clock \in 0 .. MaxClock
    /\ steady \in BOOLEAN

IdleSigner == [at |-> "idle", stamp |-> 0]

FamilyInit ==
    /\ deals \in [Siblings -> {[state |-> "generated", signedAt |-> 0, season |-> s] :
                                  s \in BillSeasons}]
    /\ signer = [m \in Siblings |-> IdleSigner]
    /\ drafts = [d \in Siblings \X BillSeasons |-> NoDraft]
    /\ clock = 0
    /\ steady = TRUE

-----------------------------------------------------------------------------
(* The tier *)

\* order_by signed_at, member_id.
Before(n, m) ==
    \/ deals[n].signedAt < deals[m].signedAt
    \/ deals[n].signedAt = deals[m].signedAt /\ n < m

SignedFamily == {n \in Siblings : deals[n].state = "signed"}

\* Variant: every other signed sibling counts, whenever it signed.
RankAmongAll(m, scope) ==
    IF m \in scope THEN Cardinality(scope \ {m}) ELSE 0

\* compute_family_tier: how many of the family signed before; a member who has
\* no signed agreement is rank 0.
Rank(m, scope) ==
    IF m \in scope THEN Cardinality({n \in scope : Before(n, m)}) ELSE 0

Discount(rank) == CASE rank = 0 -> 0 [] rank = 1 -> 50 [] rank = 2 -> 75 [] OTHER -> 100

\* _tiered_billing_amounts.
TierPercent(m, scope) == IF m \in OptedOut THEN 0 ELSE Discount(Rank(m, scope))

InSeason(s) == {n \in SignedFamily : deals[n].season = s}

\* The transaction under the guardian's lock: an existing record is kept.
MakeDraft(m, s, scope) ==
    drafts' = IF drafts[<<m, s>>].exists THEN drafts
              ELSE [drafts EXCEPT ![<<m, s>>] =
                  [exists |-> TRUE, percent |-> TierPercent(m, scope)]]

-----------------------------------------------------------------------------
(* Signing *)

\* mark_agreement_signed takes now(),
StampSigned(m) ==
    /\ signer[m].at = "idle"
    /\ deals[m].state = "generated"
    /\ signer' = [signer EXCEPT ![m] = [at |-> "stamped", stamp |-> clock]]
    /\ UNCHANGED <<deals, drafts, clock, steady>>

\* saves state and stamp,
SaveStamp(m) ==
    /\ signer[m].at = "stamped"
    /\ deals' = [deals EXCEPT ![m].state = "signed", ![m].signedAt = signer[m].stamp]
    /\ signer' = [signer EXCEPT ![m].at = "saved"]
    /\ UNCHANGED <<drafts, clock, steady>>

\* and its signal makes the draft: create_draft_billing_for_member.
DraftSigned(m) ==
    /\ signer[m].at = "saved"
    /\ MakeDraft(m, deals[m].season, InSeason(deals[m].season))
    /\ signer' = [signer EXCEPT ![m] = IdleSigner]
    /\ UNCHANGED <<deals, clock, steady>>

\* The e-mail before the signal raises, or the process dies.
SigningEnds(m) ==
    /\ signer[m].at # "idle"
    /\ signer' = [signer EXCEPT ![m] = IdleSigner]
    /\ UNCHANGED <<deals, drafts, clock, steady>>

Tick ==
    /\ clock < MaxClock
    /\ clock' = clock + 1
    /\ UNCHANGED <<deals, signer, drafts, steady>>

-----------------------------------------------------------------------------
(* What staff do to records and agreements *)

\* recreate_missing_billing_record, and backfill_billing's wider net.
RecreateDraft(m) ==
    /\ deals[m].state = "signed"
    /\ ~drafts[<<m, deals[m].season>>].exists
    /\ MakeDraft(m, deals[m].season, InSeason(deals[m].season))
    /\ UNCHANGED <<deals, signer, clock, steady>>

\* renew_member_billing ranks over the family signed in any season.
RenewDraft(m, s) ==
    /\ deals[m].state = "signed"
    /\ s # deals[m].season
    /\ MakeDraft(m, s, SignedFamily)
    /\ steady' = FALSE
    /\ UNCHANGED <<deals, signer, clock>>

\* recompute_billing_record and reassign_draft_billing_record: the amounts
\* anew, from the stored percentage; the latter may move the record to another
\* season and the agreement it names, which Cockpit keeps track of, along. Both
\* want a draft; the record's form sets any record back to one, so its status
\* excludes no sequence of steps and is left out.
MoveDraft(m, s, t) ==
    /\ drafts[<<m, s>>].exists
    /\ t # s => ~drafts[<<m, t>>].exists
    /\ drafts' = [drafts EXCEPT ![<<m, s>>] = NoDraft, ![<<m, t>>] = drafts[<<m, s>>]]
    /\ deals' \in {deals, [deals EXCEPT ![m].season = t]}
    /\ steady' = (steady /\ t = s)
    /\ UNCHANGED <<signer, clock>>

VoidDeal(m) ==
    /\ deals[m].state \in {"generated", "signed"}
    /\ deals' = [deals EXCEPT ![m].state = "void"]
    /\ steady' = FALSE
    /\ UNCHANGED <<signer, drafts, clock>>

RegenerateDeal(m, s) ==
    /\ deals[m].state = "void"
    /\ signer[m].at = "idle"
    /\ deals' = [deals EXCEPT ![m] = [state |-> "generated", signedAt |-> 0, season |-> s]]
    /\ UNCHANGED <<signer, drafts, clock, steady>>

DiscontinueDeal(m) ==
    /\ deals[m].state = "signed"
    /\ deals' = [deals EXCEPT ![m].state = "discontinued"]
    /\ steady' = FALSE
    /\ UNCHANGED <<signer, drafts, clock>>

-----------------------------------------------------------------------------

FamilyNext ==
    \/ \E m \in Siblings :
          \/ StampSigned(m)
          \/ SaveStamp(m)
          \/ DraftSigned(m)
          \/ SigningEnds(m)
          \/ RecreateDraft(m)
          \/ VoidDeal(m)
          \/ DiscontinueDeal(m)
          \/ \E s \in BillSeasons :
                \/ RenewDraft(m, s)
                \/ RegenerateDeal(m, s)
                \/ \E t \in BillSeasons : MoveDraft(m, s, t)
    \/ Tick

FamilySpec == FamilyInit /\ [][FamilyNext]_familyVars

-----------------------------------------------------------------------------
(* Properties *)

Drafted(s) == \A m \in InSeason(s) : drafts[<<m, s>>].exists

\* However signings overlap and break off, a family whose siblings all have
\* their draft of a season has one at full price: the discount never reaches
\* the first child (billing/services.py:41-55).
FullPricePayer ==
    \A s \in BillSeasons :
        (steady /\ InSeason(s) # {} /\ Drafted(s))
            => \E m \in InSeason(s) : drafts[<<m, s>>].percent = 0

\* The guardian's lock keeps siblings signed at once from claiming the same
\* rank (billing/services.py:447-448).
RanksDistinct ==
    \A s \in BillSeasons : \A m, n \in InSeason(s) \ OptedOut :
        (steady /\ m # n /\ drafts[<<m, s>>].exists /\ drafts[<<n, s>>].exists)
            => drafts[<<m, s>>].percent # drafts[<<n, s>>].percent

\* Where the lock does not keep ranks apart, stamps crossed: the draft made
\* second takes the percentage of another sibling's only if its own agreement
\* is stamped before, although that sibling's draft was made first. Everybody
\* from the fourth child on is free (billing/services.py:41-55, :447-466).
TieMeansCrossing ==
    [][\A s \in BillSeasons : \A m, n \in InSeason(s)' \ OptedOut :
        (/\ steady' /\ m # n
         /\ drafts[<<n, s>>].exists /\ ~drafts[<<m, s>>].exists /\ drafts'[<<m, s>>].exists
         /\ drafts'[<<m, s>>].percent = drafts[<<n, s>>].percent
         /\ drafts'[<<m, s>>].percent < 100) => Before(m, n)']_drafts
=============================================================================

------------------------------ MODULE MCOffice ------------------------------
(***************************************************************************)
(* A small instance of what staff work with: the application as the Admin    *)
(* Hub shows it, the family's hub in Django admin, a family's discounts, the  *)
(* schedule of one record, and the two kinds of private files they replace:   *)
(* a medical permit and the signed copy of an agreement. The modules share   *)
(* no variable, so TLC explores them one at a time.                          *)
(***************************************************************************)
EXTENDS Cockpit, FamilyHub, FamilyBilling, BillingSchedule, PermitStore, SignedArtifact

LOCAL INSTANCE TLC

VARIABLE focus

\* The modules out of focus stay in one initial state.
OfficeInit ==
    /\ focus \in {"cockpit", "family_hub", "family_billing", "schedule", "permit", "artifact"}
    /\ CockpitInit
    /\ FamilyHubInit
    /\ focus # "family_hub" => hubSells
    /\ FamilyInit
    /\ focus # "family_billing" => \A m, n \in Siblings : deals[m].season <= deals[n].season
                                   /\ deals[m].season = Min(BillSeasons)
    /\ ScheduleInit
    /\ focus # "schedule" => plan = [skip |-> CHOOSE skip \in SkipChoices : TRUE,
                                     count |-> Min(CountChoices), annual |-> Min(AmountChoices)]
    /\ PermitInit
    /\ ArtifactInit

OfficeNext ==
    /\ UNCHANGED focus
    /\ \/ focus = "cockpit" /\ CockpitNext
          /\ UNCHANGED <<familyHubVars, familyVars, scheduleVars, permitVars, artifactVars>>
       \/ focus = "family_hub" /\ FamilyHubNext
          /\ UNCHANGED <<cockpitVars, familyVars, scheduleVars, permitVars, artifactVars>>
       \/ focus = "family_billing" /\ FamilyNext
          /\ UNCHANGED <<cockpitVars, familyHubVars, scheduleVars, permitVars, artifactVars>>
       \/ focus = "schedule" /\ ScheduleNext
          /\ UNCHANGED <<cockpitVars, familyHubVars, familyVars, permitVars, artifactVars>>
       \/ focus = "permit" /\ PermitNext
          /\ UNCHANGED <<cockpitVars, familyHubVars, familyVars, scheduleVars, artifactVars>>
       \/ focus = "artifact" /\ ArtifactNext
          /\ UNCHANGED <<cockpitVars, familyHubVars, familyVars, scheduleVars, permitVars>>

officeVars == <<focus, cockpitVars, familyHubVars, familyVars, scheduleVars, permitVars, artifactVars>>

OfficeSpec == OfficeInit /\ [][OfficeNext]_officeVars

-----------------------------------------------------------------------------

\* Every component's rows keep their types, whatever staff do with them.
OfficeTypeOK ==
    /\ CockpitTypeOK
    /\ FamilyHubTypeOK
    /\ FamilyTypeOK
    /\ ScheduleTypeOK
    /\ PermitTypeOK
    /\ ArtifactTypeOK

\* One request is as good as another, here and in ArtifactRequests.
RequestSymmetry == Permutations(PermitRequests)
=============================================================================

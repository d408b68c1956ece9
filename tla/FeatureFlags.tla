------------------------------ MODULE FeatureFlags ------------------------------
(***************************************************************************)
(* Feature flags (core/feature_flags.py, api/v1/admin.py): what a tier has *)
(* by default, and a tenant's overrides, kept in the memory of a process.  *)
(***************************************************************************)
EXTENDS Naturals, FiniteSets

CONSTANTS
    FlagTenants,
    Switched        \* bound: the flags that a superadmin overrides

Tiers == {"free", "starter", "professional", "enterprise"}
Rank == [free |-> 0, starter |-> 1, professional |-> 2, enterprise |-> 3]

ForAll == {"export_csv"}
FromStarter == {"webhooks", "media_library", "api_access", "branding", "email_campaigns",
                "landing_pages", "crm", "social_media"}
FromProfessional == {"ai_agents", "advanced_analytics", "billing", "workflow_automation",
                     "audit_log", "seo_tools"}
EnterpriseOnly == {"sso_auth", "marketplace", "white_label", "custom_roles", "multi_workspace"}
Features == ForAll \cup FromStarter \cup FromProfessional \cup EnterpriseOnly

ASSUME FlagsAssumption == Switched \subseteq Features

VARIABLES
    overrides,      \* _tenant_overrides
    asked           \* history: what a superadmin last asked of each flag, in this process

flagVars == <<overrides, asked>>

\* "none" stands for the absence of an override.
FlagsTypeOK ==
    /\ overrides \in [FlagTenants -> [Switched -> {"on", "off", "none"}]]
    /\ asked \in [FlagTenants -> [Switched -> {"on", "off", "none"}]]

FlagsInit ==
    /\ overrides = [t \in FlagTenants |-> [f \in Switched |-> "none"]]
    /\ asked = overrides

-----------------------------------------------------------------------------
\* FEATURE_FLAG_DEFINITIONS.
DefaultTiers(f) ==
    CASE f \in ForAll -> Tiers
      [] f \in FromStarter -> {"starter", "professional", "enterprise"}
      [] f \in FromProfessional -> {"professional", "enterprise"}
      [] f \in EnterpriseOnly -> {"enterprise"}

\* Mutant: an override that says no is taken for none.
EnabledOr(t, f, tier) == overrides[t][f] = "on" \/ tier \in DefaultTiers(f)

\* is_enabled: the override, else the tier.
IsEnabled(t, f, tier) == IF overrides[t][f] # "none" THEN overrides[t][f] = "on"
                         ELSE tier \in DefaultTiers(f)

\* set_override and clear_override.
SetOverride(t, f, value) == overrides' = [overrides EXCEPT ![t][f] = value]
ClearOverride(t, f) == overrides' = [overrides EXCEPT ![t][f] = "none"]

\* The PATCH of a flag: on, off, or no override any more.  It answers with what
\* the flag is for the lowest tier, whatever the tenant's.
SetFeatureFlagOverride(t, f, value) ==
    /\ IF value = "none" THEN ClearOverride(t, f) ELSE SetOverride(t, f, value)
    /\ asked' = [asked EXCEPT ![t][f] = value]
Answered(t, f) == IsEnabled(t, f, "free")

\* What the list shows: the overrides that there are.
ListFeatureFlags == {x \in FlagTenants \X Switched : overrides[x[1]][x[2]] # "none"}

\* The overrides do not outlive their process.
FlagsRestart ==
    /\ overrides' = [t \in FlagTenants |-> [f \in Switched |-> "none"]]
    /\ asked' = overrides'

FlagsNext ==
    \/ \E t \in FlagTenants, f \in Switched, value \in {"on", "off", "none"} :
        SetFeatureFlagOverride(t, f, value)
    \/ FlagsRestart

FlagsSpec == FlagsInit /\ [][FlagsNext]_flagVars

-----------------------------------------------------------------------------
\* A flag is what a superadmin last asked for since the process started, and no
\* tenant's overrides are another's; without an override a higher tier has what
\* a lower one has.  The list shows the flags that differ from the tier's rule,
\* and the answer to a PATCH is right for every tier as long as it overrides.
FlagViewsAgree == \A t \in FlagTenants, f \in Switched :
    /\ \A tier \in Tiers : asked[t][f] # "none"
        => IsEnabled(t, f, tier) = (asked[t][f] = "on") /\ Answered(t, f) = IsEnabled(t, f, tier)
    /\ asked[t][f] = "none" => \A low, high \in Tiers :
        Rank[low] <= Rank[high] /\ IsEnabled(t, f, low) => IsEnabled(t, f, high)
    /\ <<t, f>> \in ListFeatureFlags <=> asked[t][f] # "none"
=============================================================================

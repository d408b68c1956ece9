--------------------------------- MODULE Deals ---------------------------------
(***************************************************************************)
(* Pipelines, their stages and the deals in them (services/crm.py,         *)
(* api/v1/crm.py) as one session sees them.  Every pipeline has the same   *)
(* stages; those called closed_won and closed_lost decide a deal.          *)
(***************************************************************************)
EXTENDS TenantRows

CONSTANTS
    MaxPipelines, MaxDeals      \* bounds

ASSUME DealsAssumption == {MaxPipelines, MaxDeals} \subseteq Nat

StageNames == {"open", "closed_won", "closed_lost"}

VARIABLES
    pipelines,      \* rows of pipelines
    deals,          \* rows of deals
    patched,        \* history: deals that the generic update has written
    defaulted       \* history: tenants whose default update has set

dealVars == <<pipelines, deals, patched, defaulted>>

Pipeline == [tenant : Tenants, deleted : BOOLEAN, default : BOOLEAN]
Stage == [pipeline : Nat, name : StageNames]
Deal == [tenant : Tenants, deleted : BOOLEAN, stage : Stage, home : Nat,
         wonReason : BOOLEAN, wonAt : BOOLEAN, lostReason : BOOLEAN, lostAt : BOOLEAN]

DealsTypeOK ==
    /\ pipelines \in Seq(Pipeline)
    /\ deals \in Seq(Deal)
    /\ patched \subseteq DOMAIN deals /\ defaulted \subseteq Tenants

DealsInit == pipelines = <<>> /\ deals = <<>> /\ patched = {} /\ defaulted = {}

\* A pipeline's stages exist as long as its row does, deleted or not.
Stages == [pipeline : DOMAIN pipelines, name : StageNames]

-----------------------------------------------------------------------------
Defaults(t) == {p \in Listed(pipelines, t) : pipelines[p].default}

\* Mutant: the old default stays.
CreatePipelineOnly(t, default) ==
    /\ Len(pipelines) < MaxPipelines
    /\ default => Cardinality(Defaults(t)) <= 1
    /\ pipelines' = Append(pipelines, [tenant |-> t, deleted |-> FALSE, default |-> default])
    /\ UNCHANGED <<deals, patched, defaulted>>

\* create_with_stages: a new default takes the place of the old one.  If there
\* are two, scalar_one_or_none raises.
CreatePipeline(t, default) ==
    /\ Len(pipelines) < MaxPipelines
    /\ default => Cardinality(Defaults(t)) <= 1
    /\ pipelines' = Append(
        [p \in DOMAIN pipelines |->
            [pipelines[p] EXCEPT !.default = @ /\ ~(default /\ p \in Defaults(t))]],
        [tenant |-> t, deleted |-> FALSE, default |-> default])
    /\ UNCHANGED <<deals, patched, defaulted>>

\* update sets is_default and takes it from no other pipeline.
UpdatePipeline(t, p, default) ==
    /\ Gets(pipelines, p, t)
    /\ pipelines' = [pipelines EXCEPT ![p].default = default]
    /\ defaulted' = IF default THEN defaulted \cup {t} ELSE defaulted
    /\ UNCHANGED <<deals, patched>>

\* A deleted pipeline keeps its stages, and its deals go on moving.
DeletePipeline(t, p) ==
    /\ Gets(pipelines, p, t)
    /\ pipelines' = SoftDeleted(pipelines, p)
    /\ UNCHANGED <<deals, patched, defaulted>>

\* PipelineService.list.
PipelinesOf(t) == Listed(pipelines, t)
ListPipelines(t, page, limit) == Page(PipelinesOf(t), page, limit)

\* get_with_stages asks for no tenant.
GetPipeline(p) == p \in DOMAIN pipelines /\ ~pipelines[p].deleted

-----------------------------------------------------------------------------
\* The service's create; the handler's call of it names the workspace twice
\* and raises.  The stage is any that exists.
CreateDeal(t, stage) ==
    /\ Len(deals) < MaxDeals
    /\ deals' = Append(deals, [tenant |-> t, deleted |-> FALSE, stage |-> stage,
        home |-> stage.pipeline, wonReason |-> FALSE, wonAt |-> FALSE,
        lostReason |-> FALSE, lostAt |-> FALSE])
    /\ UNCHANGED <<pipelines, patched, defaulted>>

\* Mutant: a deal that is won keeps why it was lost.
DecidedOnly(deal, stage, reason) ==
    CASE stage.name = "closed_won"  -> [deal EXCEPT !.wonReason = @ \/ reason, !.wonAt = @ \/ reason]
      [] stage.name = "closed_lost" -> [deal EXCEPT !.lostReason = @ \/ reason, !.lostAt = @ \/ reason]
      [] OTHER -> deal

\* What a stage decides: reason and time of its own outcome, if a reason is
\* given, and none of the other.
Decided(deal, stage, reason) ==
    LET won == stage.name = "closed_won"
        lost == stage.name = "closed_lost"
    IN  [deal EXCEPT !.wonReason = won /\ (@ \/ reason), !.wonAt = won /\ (@ \/ reason),
                     !.lostReason = lost /\ (@ \/ reason), !.lostAt = lost /\ (@ \/ reason)]

\* move_stage, within the pipeline of the deal's stage.
MoveStage(d, stage, reason) ==
    /\ stage.pipeline = deals[d].stage.pipeline
    /\ deals' = [deals EXCEPT ![d] = Decided([deals[d] EXCEPT !.stage = stage], stage, reason)]

ChangeDealStage(t, d, stage, reason) ==
    /\ Gets(deals, d, t) /\ MoveStage(d, stage, reason)
    /\ UNCHANGED <<pipelines, patched, defaulted>>

\* update_win_loss: a reason decides, and clears the other outcome; a time
\* alone is taken where there is no reason for it.
UpdateWinLoss(t, d, given) ==
    /\ Gets(deals, d, t)
    /\ deals' = [deals EXCEPT ![d] =
        CASE given = "won_reason"  -> [@ EXCEPT !.wonReason = TRUE, !.wonAt = TRUE,
                                                !.lostReason = FALSE, !.lostAt = FALSE]
          [] given = "lost_reason" -> [@ EXCEPT !.lostReason = TRUE, !.lostAt = TRUE,
                                                !.wonReason = FALSE, !.wonAt = FALSE]
          [] given = "won_at"      -> [@ EXCEPT !.wonAt = @ \/ ~deals[d].wonReason]
          [] given = "lost_at"     -> [@ EXCEPT !.lostAt = @ \/ ~deals[d].lostReason]]
    /\ UNCHANGED <<pipelines, patched, defaulted>>

\* The PATCH of a deal sets what its payload has: any stage, any outcome.
UpdateDeal(t, d) ==
    /\ Gets(deals, d, t)
    /\ \E stage \in Stages : deals' = [deals EXCEPT ![d].stage = stage]
       \/ deals' = [deals EXCEPT ![d].wonReason = TRUE] \/ deals' = [deals EXCEPT ![d].lostReason = TRUE]
    /\ patched' = patched \cup {d}
    /\ UNCHANGED <<pipelines, defaulted>>

DeleteDeal(t, d) ==
    /\ Gets(deals, d, t)
    /\ deals' = SoftDeleted(deals, d)
    /\ UNCHANGED <<pipelines, patched, defaulted>>

ListDeals(t, page, limit) == Page(Listed(deals, t), page, limit)
GetDeal(t, d) == Gets(deals, d, t)

-----------------------------------------------------------------------------
PipelinesNext == \E t \in Tenants :
    \/ \E default \in BOOLEAN :
        CreatePipeline(t, default) \/ \E p \in 1 .. MaxPipelines : UpdatePipeline(t, p, default)
    \/ \E p \in 1 .. MaxPipelines : DeletePipeline(t, p)

SalesNext == \E t \in Tenants :
    \/ \E stage \in Stages :
        \/ CreateDeal(t, stage)
        \/ \E d \in 1 .. MaxDeals, reason \in BOOLEAN : ChangeDealStage(t, d, stage, reason)
    \/ \E d \in 1 .. MaxDeals :
        \/ UpdateDeal(t, d) \/ DeleteDeal(t, d)
        \/ \E given \in {"won_reason", "won_at", "lost_reason", "lost_at"} :
            UpdateWinLoss(t, d, given)

\* Moves need a stage, so sales follow the pipelines.
DealsNext == PipelinesNext \/ SalesNext

DealsSpec == DealsInit /\ [][DealsNext]_dealVars

-----------------------------------------------------------------------------
\* A deal is won or lost for a reason and not both, and stays in the pipeline
\* it was created in, whatever moves it makes, unless a PATCH has written it:
\* move_stage and update_win_loss clear what the other left.
DealsDecided == \A d \in DOMAIN deals \ patched : LET deal == deals[d] IN
    /\ ~(deal.wonReason /\ deal.lostReason)
    /\ (deal.wonReason => deal.wonAt) /\ (deal.lostReason => deal.lostAt)
    /\ deal.stage.pipeline = deal.home

\* A tenant has one default pipeline, unless update has set one: then creating
\* a default, which looks for one to replace, may fail for good.
OneDefault == \A t \in Tenants \ defaulted : Cardinality(Defaults(t)) <= 1

\* What a sequence of moves and replacements leaves behind is consistent.
DealsConsistent == DealsDecided /\ OneDefault

\* The differently written queries agree on what there is.
DealViewsAgree == \A t \in Tenants :
    /\ {d \in 1 .. MaxDeals : GetDeal(t, d)} = Walk(LAMBDA p, l : ListDeals(t, p, l), MaxDeals)
    /\ Walk(LAMBDA p, l : ListPipelines(t, p, l), MaxPipelines)
        = {p \in OfTenant(pipelines, t) : GetPipeline(p)}
=============================================================================

----------------------------- MODULE MCServices -----------------------------
(***************************************************************************)
(* Small instances of the services.  They share no state in the code and   *)
(* none here, so that a behaviour exercises one of them, chosen in the     *)
(* beginning: TLC takes the sum of their state spaces, not the product.    *)
(***************************************************************************)
EXTENDS Billing, Contacts, Deals, EmailMessages, EmailLimiter, Outreach, Tenancy,
        Agents, Analytics, FeatureFlags, Inbox, KnowledgeIndex, LeadScoring, Media, TLC

CONSTANT t1, t2, w1, w2, k1, a1, p1, u1, u2, r1, r2, n1, n2, e1, e2, i1, s1,
    c1, c2, c3, m1, m2, m3

VARIABLE service

\* Tenants are alike.
Symmetry == Permutations(Tenants)

\* Full text takes one word for another, and does not know the third.
OneWord == {<<w1, w2>>}

\* Two types may be uploaded; texts may be larger than pictures.
TwoTypes == {[major |-> "image", document |-> FALSE], [major |-> "text", document |-> FALSE]}
Limits == [c \in Categories |-> IF c = "image" THEN 1 ELSE 2]

\* Two requests of one worker, a campaign and a mail, and a mail of another worker.
Served == m1 :> 1 @@ m2 :> 1 @@ m3 :> 2
Lists == m1 :> 3 @@ m2 :> 1 @@ m3 :> 1

vars == <<
    service, billingVars, contactVars, dealVars, messageVars, limiterVars,
    outreachVars, tenancyVars, agentVars, analyticsVars, flagVars, inboxVars,
    knowledgeVars, leadVars, mediaVars >>

Init ==
    /\ service \in {
        "wallet", "subscriptions", "contacts", "pipelines", "sales",
        "templates", "mail", "limiter", "social", "marketplace",
        "collections", "accounts", "keys", "agents", "events", "reports",
        "flags", "inbox", "knowledge", "scoring", "media"}
    /\ BillingInit /\ ContactsInit /\ DealsInit /\ MessagesInit
    /\ LimiterInit /\ OutreachInit /\ TenancyInit /\ AgentsInit
    /\ AnalyticsInit /\ FlagsInit /\ InboxInit /\ KnowledgeInit /\ LeadInit
    /\ MediaInit

\* Calls of Tenancy are alike, so it is enough that they begin in this order.
CallsBeginInOrder ==
    /\ stage[c1] = "idle" => stage'[c2] = "idle"
    /\ stage[c2] = "idle" => stage'[c3] = "idle"

\* Sales read no defaults, which are the pipelines' own matter.
WithoutDefaults == \A p \in DOMAIN pipelines' : ~pipelines'[p].default

\* One service takes a step; the others rest.
Next ==
    /\ UNCHANGED service
    /\ \/ /\ \/ service = "wallet" /\ WalletNext
             \/ service = "subscriptions" /\ SubscriptionsNext
          /\ UNCHANGED <<
                contactVars, dealVars, messageVars, limiterVars,
                outreachVars, tenancyVars, agentVars, analyticsVars,
                flagVars, inboxVars, knowledgeVars, leadVars, mediaVars >>
       \/ /\ service = "contacts" /\ ContactsNext
          /\ UNCHANGED <<
                billingVars, dealVars, messageVars, limiterVars,
                outreachVars, tenancyVars, agentVars, analyticsVars,
                flagVars, inboxVars, knowledgeVars, leadVars, mediaVars >>
       \/ /\ \/ service = "pipelines" /\ PipelinesNext
             \/ service = "sales" /\ DealsNext /\ WithoutDefaults
          /\ UNCHANGED <<
                billingVars, contactVars, messageVars, limiterVars,
                outreachVars, tenancyVars, agentVars, analyticsVars,
                flagVars, inboxVars, knowledgeVars, leadVars, mediaVars >>
       \/ /\ \/ service = "templates" /\ TemplatesNext
             \/ service = "mail" /\ MailNext
          /\ UNCHANGED <<
                billingVars, contactVars, dealVars, limiterVars,
                outreachVars, tenancyVars, agentVars, analyticsVars,
                flagVars, inboxVars, knowledgeVars, leadVars, mediaVars >>
       \/ /\ service = "limiter" /\ LimiterNext
          /\ UNCHANGED <<
                billingVars, contactVars, dealVars, messageVars,
                outreachVars, tenancyVars, agentVars, analyticsVars,
                flagVars, inboxVars, knowledgeVars, leadVars, mediaVars >>
       \/ /\ \/ service = "social" /\ SocialNext
             \/ service = "marketplace" /\ MarketplaceNext
             \/ service = "collections" /\ CollectionsNext
          /\ UNCHANGED <<
                billingVars, contactVars, dealVars, messageVars, limiterVars,
                tenancyVars, agentVars, analyticsVars, flagVars, inboxVars,
                knowledgeVars, leadVars, mediaVars >>
       \/ /\ \/ service = "accounts" /\ AccountsNext /\ CallsBeginInOrder
             \/ service = "keys" /\ KeysNext /\ CallsBeginInOrder
          /\ UNCHANGED <<
                billingVars, contactVars, dealVars, messageVars, limiterVars,
                outreachVars, agentVars, analyticsVars, flagVars, inboxVars,
                knowledgeVars, leadVars, mediaVars >>
       \/ /\ service = "agents" /\ AgentsNext
          /\ UNCHANGED <<
                billingVars, contactVars, dealVars, messageVars, limiterVars,
                outreachVars, tenancyVars, analyticsVars, flagVars,
                inboxVars, knowledgeVars, leadVars, mediaVars >>
       \/ /\ \/ service = "events" /\ EventsNext
             \/ service = "reports" /\ ReportsNext
          /\ UNCHANGED <<
                billingVars, contactVars, dealVars, messageVars, limiterVars,
                outreachVars, tenancyVars, agentVars, flagVars, inboxVars,
                knowledgeVars, leadVars, mediaVars >>
       \/ /\ service = "flags" /\ FlagsNext
          /\ UNCHANGED <<
                billingVars, contactVars, dealVars, messageVars, limiterVars,
                outreachVars, tenancyVars, agentVars, analyticsVars,
                inboxVars, knowledgeVars, leadVars, mediaVars >>
       \/ /\ service = "inbox" /\ InboxNext
          /\ UNCHANGED <<
                billingVars, contactVars, dealVars, messageVars, limiterVars,
                outreachVars, tenancyVars, agentVars, analyticsVars,
                flagVars, knowledgeVars, leadVars, mediaVars >>
       \/ /\ service = "knowledge" /\ KnowledgeNext
          /\ UNCHANGED <<
                billingVars, contactVars, dealVars, messageVars, limiterVars,
                outreachVars, tenancyVars, agentVars, analyticsVars,
                flagVars, inboxVars, leadVars, mediaVars >>
       \/ /\ service = "scoring" /\ LeadNext
          /\ UNCHANGED <<
                billingVars, contactVars, dealVars, messageVars, limiterVars,
                outreachVars, tenancyVars, agentVars, analyticsVars,
                flagVars, inboxVars, knowledgeVars, mediaVars >>
       \/ /\ service = "media" /\ MediaNext
          /\ UNCHANGED <<
                billingVars, contactVars, dealVars, messageVars, limiterVars,
                outreachVars, tenancyVars, agentVars, analyticsVars,
                flagVars, inboxVars, knowledgeVars, leadVars >>

Spec == Init /\ [][Next]_vars

-----------------------------------------------------------------------------
TypeOK ==
    /\ service \in {"wallet", "subscriptions"} => BillingTypeOK
    /\ service = "contacts" => ContactsTypeOK
    /\ service \in {"pipelines", "sales"} => DealsTypeOK
    /\ service \in {"templates", "mail"} => MessagesTypeOK
    /\ service = "limiter" => LimiterTypeOK
    /\ service \in {"social", "marketplace", "collections"} => OutreachTypeOK
    /\ service \in {"accounts", "keys"} => TenancyTypeOK
    /\ service = "agents" => AgentsTypeOK
    /\ service \in {"events", "reports"} => AnalyticsTypeOK
    /\ service = "flags" => FlagsTypeOK
    /\ service = "inbox" => InboxTypeOK
    /\ service = "knowledge" => KnowledgeTypeOK
    /\ service = "scoring" => LeadTypeOK
    /\ service = "media" => MediaTypeOK

\* CRM: the score that is shown is the history's, and deals are as their moves
\* have left them.
CrmConsistent == ScoreTellsHistory /\ DealsConsistent

\* What the readers of a service show agrees with each other, page by page and
\* tenant by tenant, and with what has been written.
ViewsAgree ==
    /\ service \in {"wallet", "subscriptions"} => BillingViewsAgree
    /\ service = "contacts" => ContactViewsAgree
    /\ service \in {"pipelines", "sales"} => DealViewsAgree
    /\ service \in {"templates", "mail"} => MessageViewsAgree
    /\ service \in {"social", "marketplace", "collections"} => OutreachViewsAgree
    /\ service \in {"accounts", "keys"} => TenancyViewsAgree
    /\ service = "agents" => AgentViewsAgree
    /\ service \in {"events", "reports"} => AnalyticsViewsAgree
    /\ service = "flags" => FlagViewsAgree
    /\ service = "inbox" => InboxViewsAgree
    /\ service = "knowledge" => KnowledgeViewsAgree
    /\ service = "media" => MediaViewsAgree
=============================================================================

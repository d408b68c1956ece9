----------------------------- MODULE EmailMessages -----------------------------
(***************************************************************************)
(* Templates, campaigns and messages (services/email_service.py and        *)
(* api/v1/email.py) as one session sees them, handler by handler: the      *)
(* service flushes and never commits.  Rows are numbered in the order of   *)
(* their creation.                                                         *)
(***************************************************************************)
EXTENDS TenantRows

CONSTANTS
    Addresses,      \* of recipients
    MaxMessages, MaxCampaigns, MaxTemplates     \* bounds

ASSUME MessagesAssumption == {MaxMessages, MaxCampaigns, MaxTemplates} \subseteq Nat

VARIABLES
    templates,      \* rows of email_templates
    messages,       \* rows of email_messages
    campaigns       \* rows of email_campaigns; blank: recipients without a row,
                    \* which only the response tells; missed (history): those
                    \* whose turn did not come, for an error ended the campaign

messageVars == <<templates, messages, campaigns>>

Template == [tenant : Tenants, deleted : BOOLEAN]
MessageStatuses == {"queued", "sent", "delivered", "opened", "clicked",
                    "bounced", "complained", "failed"}
Message == [tenant : Tenants, to : Addresses, campaign : 0 .. MaxCampaigns,
            status : MessageStatuses, sent : BOOLEAN, opened : BOOLEAN, clicked : BOOLEAN]
Campaign == [tenant : Tenants, total : Nat, sent : Nat, failed : Nat,
             blank : Nat, missed : Nat]

MessagesTypeOK ==
    /\ templates \in Seq(Template)
    /\ messages \in Seq(Message)
    /\ campaigns \in Seq(Campaign)

MessagesInit == templates = <<>> /\ messages = <<>> /\ campaigns = <<>>

-----------------------------------------------------------------------------
\* _get_template finds deleted templates too, and so do the handlers that
\* show, change and delete one.
FindTemplate(t, i) == i \in OfTenant(templates, t)
GetTemplate(t, i) == FindTemplate(t, i)
TemplatesOf(t) == Listed(templates, t)
ListTemplates(t, page, limit) == Page(TemplatesOf(t), page, limit)

NewTemplate(t) == templates' = Inserted(templates, [tenant |-> t, deleted |-> FALSE])

CreateTemplate(t) ==
    /\ Len(templates) < MaxTemplates
    /\ NewTemplate(t)
    /\ UNCHANGED <<messages, campaigns>>

DeleteTemplate(t, i) ==
    /\ FindTemplate(t, i)
    /\ templates' = SoftDeleted(templates, i)
    /\ UNCHANGED <<messages, campaigns>>

\* A mail has its own body, or a template's.
HasBody(t) == \E own \in BOOLEAN : own \/ \E i \in DOMAIN templates : FindTemplate(t, i)

-----------------------------------------------------------------------------
\* What becomes of a mail: the limit keeps it back, the backend takes it or fails.
Outcomes == {"queued", "sent", "failed"}

\* Mutant: the campaign is not noted.
NewMessageAlone(t, to, k, outcome) ==
    [tenant |-> t, to |-> to, campaign |-> 0, status |-> outcome,
     sent |-> outcome = "sent", opened |-> FALSE, clicked |-> FALSE]

\* The row that send_email leaves.
NewMessage(t, to, k, outcome) ==
    [tenant |-> t, to |-> to, campaign |-> k, status |-> outcome,
     sent |-> outcome = "sent", opened |-> FALSE, clicked |-> FALSE]

\* The handler of a single mail, which belongs to no campaign.
SendEmail(t, to) == \E outcome \in Outcomes :
    /\ HasBody(t)
    /\ Len(messages) < MaxMessages
    /\ messages' = Inserted(messages, NewMessage(t, to, 0, outcome))
    /\ UNCHANGED <<templates, campaigns>>

Count(ms, k, S) == Cardinality({i \in DOMAIN ms : ms[i].campaign = k /\ ms[i].status \in S})

\* _refresh_campaign_stats, once, at the end of send_bulk.
Refreshed(c, ms, k) == [c EXCEPT
    !.sent = Count(ms, k, {"sent", "delivered", "opened", "clicked"}),
    !.failed = Count(ms, k, {"failed"})]

\* send_bulk: recipients in turn; the blank ones, whose template renders to
\* nothing, leave no row.  A schedule in the request is noted, not kept.
Mails(t, k, recipients, outcome) ==
    [i \in DOMAIN recipients |-> NewMessage(t, recipients[i], k, outcome[i])]

\* The row of a campaign as it is first written, for n mails in the end.
CampaignRow(t, n, blank, missed) ==
    [tenant |-> t, total |-> n + blank + missed, sent |-> 0, failed |-> 0,
     blank |-> blank, missed |-> missed]

\* Its numbers are summed up last, so an error in between leaves it with some
\* mails and no numbers.
NewCampaign(t, mails, blank, missed) ==
    LET row == CampaignRow(t, Len(mails), blank, missed)
    IN  /\ messages' = messages \o mails
        /\ campaigns' = Inserted(campaigns,
            IF missed > 0 THEN row ELSE Refreshed(row, messages', Len(campaigns) + 1))
        /\ UNCHANGED templates

\* The handler of a campaign.  A template that does not exist fails at the
\* first recipient, one that cannot be rendered at any: nobody else is mailed.
SendBulk(t, recipients, outcome, blank, missed) ==
    /\ Len(campaigns) < MaxCampaigns /\ Len(messages) + Len(recipients) <= MaxMessages
    /\ recipients # <<>> => HasBody(t)
    /\ missed > 0 /\ Len(recipients) + blank > 0 => OfTenant(templates, t) # {}
    /\ NewCampaign(t, Mails(t, Len(campaigns) + 1, recipients, outcome), blank, missed)

-----------------------------------------------------------------------------
\* What a tenant sees of its deliveries and campaigns; nothing deletes either.
DeliveriesOf(t) == OfTenant(messages, t)
ListDeliveries(t, page, limit) == Page(DeliveriesOf(t), page, limit)
FindDelivery(t, i) == i \in DOMAIN messages /\ messages[i].tenant = t
GetDelivery(t, i) == FindDelivery(t, i)
CampaignsOf(t) == OfTenant(campaigns, t)
ListCampaigns(t, page, limit) == Page(CampaignsOf(t), page, limit)
FindCampaign(t, k) == k \in DOMAIN campaigns /\ campaigns[k].tenant = t
GetCampaign(t, k) == FindCampaign(t, k)

\* _find_message: by the provider's id, which a message has once it is sent;
\* else the newest to the address, whoever sent it.
FindMessage(i, to) ==
    IF i \in DOMAIN messages /\ messages[i].sent THEN {i}
    ELSE NewestOf({j \in DOMAIN messages : messages[j].to = to})

Changed(i, m) == messages' = [messages EXCEPT ![i] = m] /\ UNCHANGED <<templates, campaigns>>

ProcessBounce(i) == Changed(i, [messages[i] EXCEPT !.status = "bounced"])

ProcessComplaint(i) == Changed(i, [messages[i] EXCEPT !.status = "complained"])

\* A delivery notice overwrites whatever came before it.
ProcessDelivery(i) ==
    Changed(i, [messages[i] EXCEPT !.status = "delivered"])

\* process_sns_notification, for one of the recipients it names.  A bounce or a
\* complaint that comes with the provider's payload raises once the status is
\* set, at the `metadata` of the row: the status stays in the session, or is
\* gone with it as if nothing had come.
ProcessSnsNotification(j) == ProcessBounce(j) \/ ProcessComplaint(j) \/ ProcessDelivery(j)

\* The events of another provider have the same effects.
BounceWebhook(i, to) == \E j \in FindMessage(i, to) : ProcessSnsNotification(j)

\* Mutant: the first open counts whatever the status.
OpenedAnyway(m) == [m EXCEPT !.opened = TRUE, !.status = IF m.opened THEN @ ELSE "opened"]

\* record_open: the first open marks a message that is out.
Opened(m) == [m EXCEPT !.opened = TRUE,
    !.status = IF ~m.opened /\ @ \in {"sent", "delivered"} THEN "opened" ELSE @]

\* record_click, likewise.
Clicked(m) == [m EXCEPT !.clicked = TRUE,
    !.status = IF ~m.clicked /\ @ \in {"sent", "delivered", "opened"} THEN "clicked" ELSE @]

\* Only a mail that went to the backend can be opened; one that failed may
\* have been taken all the same.
TrackOpen(i) == messages[i].status # "queued" /\ Changed(i, Opened(messages[i]))
TrackClick(i) == messages[i].status # "queued" /\ Changed(i, Clicked(messages[i]))

-----------------------------------------------------------------------------
TemplatesNext == \E t \in Tenants :
    CreateTemplate(t) \/ \E i \in 1 .. MaxTemplates : DeleteTemplate(t, i)

MailNext ==
    \/ \E t \in Tenants :
        \/ \E to \in Addresses : SendEmail(t, to)
        \/ \E n \in 0 .. MaxMessages :
            \E recipients \in [1 .. n -> Addresses], outcome \in [1 .. n -> Outcomes],
               blank, missed \in 0 .. MaxMessages - n :
                /\ n + blank + missed \in 1 .. MaxMessages
                /\ SendBulk(t, recipients, outcome, blank, missed)
    \/ \E i \in DOMAIN messages : TrackOpen(i) \/ TrackClick(i)
    \/ \E i \in 0 .. MaxMessages, to \in Addresses : BounceWebhook(i, to)

\* A mail has its text from the request or from a template, and keeps it: the
\* two write no row of each other.
MessagesNext == TemplatesNext \/ MailNext

MessagesSpec == MessagesInit /\ [][MessagesNext]_messageVars

-----------------------------------------------------------------------------
\* Opens and clicks, in any order with the provider's events, never take a
\* bounce, a complaint or a failure back: only a later event does.
OutcomesStand == [][\A i \in DOMAIN messages :
    messages[i].status \in {"queued", "failed", "bounced", "complained"}
        => messages'[i].status \in {messages[i].status, "bounced", "complained", "delivered"}]_messageVars

\* A campaign accounts for every recipient: sent, failed, blank, kept back by
\* the limit and still among its messages, or missed by an error, and then it
\* shows no numbers but has the rows of all that went out before.
CampaignsAccount == \A t \in Tenants : \A k \in CampaignsOf(t) :
    LET c == campaigns[k]
        rows == {i \in DeliveriesOf(t) : messages[i].campaign = k}
    IN  /\ Cardinality(rows) + c.blank + c.missed = c.total
        /\ IF c.missed > 0 THEN c.sent = 0 /\ c.failed = 0
           ELSE /\ Cardinality({i \in rows : messages[i].sent}) = c.sent
                /\ c.sent + c.failed <= Cardinality(rows)
                /\ (\E i \in rows : messages[i].status = "queued")
                        => c.sent + c.failed < Cardinality(rows)

\* The differently written queries agree: a delivery and a campaign is got by
\* its id if and only if some page of the list has it, and every template that
\* is listed can be used.
MessageViewsAgree == \A t \in Tenants :
    /\ {i \in 1 .. MaxMessages : GetDelivery(t, i)}
        = Walk(LAMBDA p, l : ListDeliveries(t, p, l), MaxMessages)
    /\ {k \in 1 .. MaxCampaigns : GetCampaign(t, k)}
        = Walk(LAMBDA p, l : ListCampaigns(t, p, l), MaxCampaigns)
    /\ Walk(LAMBDA p, l : ListTemplates(t, p, l), MaxTemplates)
        \subseteq {i \in 1 .. MaxTemplates : GetTemplate(t, i)}
=============================================================================

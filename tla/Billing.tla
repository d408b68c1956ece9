-------------------------------- MODULE Billing --------------------------------
(***************************************************************************)
(* Subscriptions, invoices, credit wallets and Stripe's events             *)
(* (services/billing.py, api/v1/billing.py) as one session sees them,      *)
(* handler by handler: the service flushes and never commits.  Rows are    *)
(* numbered in the order of their creation.                                *)
(***************************************************************************)
EXTENDS TenantRows

CONSTANTS
    Plans,              \* PLAN_TIERS
    StripeStatuses,     \* what Stripe may report of a subscription
    Amounts,            \* of a top-up
    MaxSubscriptions, MaxInvoices, MaxUsage, MaxBalance  \* bounds

ASSUME BillingAssumption ==
    /\ StripeStatuses \subseteq STRING
    /\ Amounts \subseteq Nat \ {0}
    /\ {MaxSubscriptions, MaxInvoices, MaxUsage, MaxBalance} \subseteq Nat

VARIABLES
    subscriptions,      \* rows of subscriptions
    invoices,           \* rows of invoices
    wallet,             \* the row of each tenant in credit_wallets
    usage,              \* units recorded for each subscription
    settled, topped     \* history: payments that settled an invoice, money put in

billingVars == <<subscriptions, invoices, wallet, usage, settled, topped>>

Running == {"active", "trialing", "cancel_at_period_end"}
Statuses == Running \cup {"cancelled"} \cup StripeStatuses

Subscription == [tenant : Tenants, plan : Plans, status : Statuses,
                 linked : BOOLEAN, synced : BOOLEAN]
Invoice == [tenant : Tenants, subscription : Nat \ {0},
            status : {"pending", "paid", "past_due"}]
Wallet == [balance : Nat, lifetime : Nat]
NoWallet == [balance |-> 0, lifetime |-> 0]

BillingTypeOK ==
    /\ subscriptions \in Seq(Subscription)
    /\ invoices \in Seq(Invoice)
    /\ \A i \in DOMAIN invoices : invoices[i].subscription \in DOMAIN subscriptions
    /\ wallet \in [Tenants -> Wallet]
    /\ usage \in [1 .. MaxSubscriptions -> 0 .. MaxUsage]
    /\ settled \in [1 .. MaxSubscriptions -> Nat]
    /\ topped \in [Tenants -> Nat]

BillingInit ==
    /\ subscriptions = <<>> /\ invoices = <<>>
    /\ wallet = [t \in Tenants |-> NoWallet]
    /\ usage = [s \in 1 .. MaxSubscriptions |-> 0]
    /\ settled = [s \in 1 .. MaxSubscriptions |-> 0]
    /\ topped = [t \in Tenants |-> 0]

-----------------------------------------------------------------------------
\* Mutant: a trial does not count as a subscription.
ActiveOnlyOf(t) == {s \in DOMAIN subscriptions :
    subscriptions[s].tenant = t /\ subscriptions[s].status = "active"}

\* _get_active_subscription.
ActiveOf(t) == {s \in DOMAIN subscriptions :
    subscriptions[s].tenant = t /\ subscriptions[s].status \in Running}

\* _get_subscription, scoped to the caller's tenant.
IsSubscription(s, t) == s \in DOMAIN subscriptions /\ subscriptions[s].tenant = t

\* create_subscription inserts the row and makes sure of a wallet.
NewSubscription(t, p, trial) ==
    /\ ActiveOf(t) = {}
    /\ Len(subscriptions) < MaxSubscriptions
    /\ subscriptions' = Append(subscriptions,
        [tenant |-> t, plan |-> p, status |-> IF trial THEN "trialing" ELSE "active",
         linked |-> FALSE, synced |-> FALSE])

CreateSubscription(t, p, trial) ==
    /\ NewSubscription(t, p, trial)
    /\ UNCHANGED <<invoices, wallet, usage, settled, topped>>

\* The provider's id is set by nothing in the application.
Link(s) ==
    /\ s \in DOMAIN subscriptions
    /\ subscriptions' = [subscriptions EXCEPT ![s].linked = TRUE]
    /\ UNCHANGED <<invoices, wallet, usage, settled, topped>>

\* cancel_subscription: what is to end later cannot be ended at once any more.
Cancelled(s, immediate) ==
    /\ subscriptions[s].status \notin {"cancelled", "cancel_at_period_end"}
    /\ subscriptions' = [subscriptions EXCEPT ![s].status =
        IF immediate THEN "cancelled" ELSE "cancel_at_period_end"]

CancelSubscription(t, s, immediate) ==
    /\ IsSubscription(s, t) /\ Cancelled(s, immediate)
    /\ UNCHANGED <<invoices, wallet, usage, settled, topped>>

\* upgrade_downgrade: an upgrade and a downgrade both take effect at once.
PlanChanged(s, p) ==
    /\ subscriptions[s].status \in Running
    /\ subscriptions' = [subscriptions EXCEPT ![s].plan = p]

UpdateSubscriptionPlan(t, s, p) ==
    /\ IsSubscription(s, t) /\ PlanChanged(s, p)
    /\ UNCHANGED <<invoices, wallet, usage, settled, topped>>

\* What a tenant sees: its list, and a row by its id.
SubscriptionsOf(t) == OfTenant(subscriptions, t)
ListSubscriptions(t, page, limit) == Page(SubscriptionsOf(t), page, limit)
GetSubscription(t, s) == IsSubscription(s, t)

-----------------------------------------------------------------------------
\* generate_invoice, for one of the tenant's running subscriptions.  Nothing
\* asks whether the period has an invoice already.
GenerateInvoice(t) == \E s \in ActiveOf(t) :
    /\ Len(invoices) < MaxInvoices
    /\ invoices' = Append(invoices, [tenant |-> t, subscription |-> s, status |-> "pending"])
    /\ UNCHANGED <<subscriptions, wallet, usage, settled, topped>>

\* record_usage: not for a subscription that is to end.
RecordUsage(s) ==
    /\ s \in DOMAIN subscriptions /\ subscriptions[s].status \in {"active", "trialing"}
    /\ usage[s] < MaxUsage
    /\ usage' = [usage EXCEPT ![s] = @ + 1]
    /\ UNCHANGED <<subscriptions, invoices, wallet, settled, topped>>

InvoicesOf(t) == OfTenant(invoices, t)

\* The paid invoices; their handler leaves the metadata out, on which the
\* responses of the other invoice handlers fail.
PaymentHistory(t) == {i \in InvoicesOf(t) : invoices[i].status = "paid"}
ListPaymentHistory(t, page, limit) == Page(PaymentHistory(t), page, limit)

\* The usage of the subscription that is named, anyone's; else of the tenant's
\* running one.
UsageOf(s) == usage[s]
GetUsageSummary(t, named) ==
    {UsageOf(s) : s \in IF named # {} THEN named \cap DOMAIN subscriptions ELSE ActiveOf(t)}

-----------------------------------------------------------------------------
\* calculate_credits, and what the handler shows of it; _ensure_wallet creates
\* a wallet, empty, where there is none.
Credits(t) == wallet[t]
GetWallet(t) == Credits(t).balance

Credited(t, a) == wallet' = [wallet EXCEPT ![t].balance = @ + a, ![t].lifetime = @ + a]

TopUpWallet(t, a) ==
    /\ wallet[t].lifetime + a <= MaxBalance
    /\ Credited(t, a)
    /\ topped' = [topped EXCEPT ![t] = @ + a]
    /\ UNCHANGED <<subscriptions, invoices, usage, settled>>

-----------------------------------------------------------------------------
\* An event of Stripe finds its subscription by the provider's id.
Linked(s) == s \in DOMAIN subscriptions /\ subscriptions[s].linked

\* Mutant: an event takes the subscription's newest invoice.
NewestInvoice(s) ==
    LET own == {i \in DOMAIN invoices : invoices[i].subscription = s}
    IN  NewestOf(own)

\* The subscription's newest invoice that is pending.
PendingInvoice(s) ==
    LET pending == {i \in DOMAIN invoices :
            invoices[i].subscription = s /\ invoices[i].status = "pending"}
    IN  NewestOf(pending)

\* invoice.paid and invoice.payment_succeeded, which Stripe sends both.
InvoicePaid(s) ==
    /\ Linked(s)
    /\ \E i \in PendingInvoice(s) : invoices' = [invoices EXCEPT ![i].status = "paid"]
    /\ settled' = [settled EXCEPT ![s] = @ + 1]
    /\ UNCHANGED <<subscriptions, wallet, usage, topped>>

\* The invoice is past due and flushed; then dunning_process raises, because
\* it asks the model's metadata for its retries.
InvoicePaymentFailed(s) ==
    /\ Linked(s)
    /\ \E i \in PendingInvoice(s) : invoices' = [invoices EXCEPT ![i].status = "past_due"]
    /\ UNCHANGED <<subscriptions, wallet, usage, settled, topped>>

SubscriptionUpdated(s, status) ==
    /\ Linked(s)
    /\ subscriptions' = [subscriptions EXCEPT ![s].status = status, ![s].synced = TRUE]
    /\ UNCHANGED <<invoices, wallet, usage, settled, topped>>

SubscriptionDeleted(s) ==
    /\ Linked(s)
    /\ subscriptions' = [subscriptions EXCEPT ![s].status = "cancelled"]
    /\ UNCHANGED <<invoices, wallet, usage, settled, topped>>

\* handle_stripe_webhook, by the type of the event.
HandleStripeWebhook(s) ==
    \/ InvoicePaid(s) \/ InvoicePaymentFailed(s) \/ SubscriptionDeleted(s)
    \/ \E status \in StripeStatuses : SubscriptionUpdated(s, status)

\* The route asks for no signature: events come again, late and in any order.
StripeWebhook == \E s \in DOMAIN subscriptions : HandleStripeWebhook(s)

-----------------------------------------------------------------------------
WalletNext == \E t \in Tenants, a \in Amounts : TopUpWallet(t, a)

SubscriptionsNext ==
    \/ \E t \in Tenants :
        \/ \E p \in Plans, trial \in BOOLEAN : CreateSubscription(t, p, trial)
        \/ GenerateInvoice(t)
        \/ \E s \in 1 .. MaxSubscriptions :
            \/ \E p \in Plans : UpdateSubscriptionPlan(t, s, p)
            \/ \E immediate \in BOOLEAN : CancelSubscription(t, s, immediate)
    \/ \E s \in 1 .. MaxSubscriptions : Link(s) \/ RecordUsage(s)
    \/ StripeWebhook

\* The two share no row.
BillingNext == WalletNext \/ SubscriptionsNext

BillingSpec == BillingInit /\ [][BillingNext]_billingVars

-----------------------------------------------------------------------------
\* A tenant has one running subscription, unless Stripe has revived another:
\* the check of create_subscription covers trials and what is to end later.
OneRunning == \A t \in Tenants :
    LET running == {s \in SubscriptionsOf(t) : subscriptions[s].status \in Running}
    IN  Cardinality(running) > 1 => \E s \in running : subscriptions[s].synced

\* The ledger: the pages of a tenant's payment history have, of each of its
\* subscriptions and of no other, as many invoices as payments have settled,
\* whatever failures and repeated events come after, and its wallet shows what
\* was put in.
LedgerBalances == \A t \in Tenants :
    LET shown == Walk(LAMBDA p, l : ListPaymentHistory(t, p, l), MaxInvoices)
    IN  /\ \A i \in shown : invoices[i].subscription \in SubscriptionsOf(t)
        /\ \A s \in SubscriptionsOf(t) :
            Cardinality({i \in shown : invoices[i].subscription = s}) = settled[s]
        /\ GetWallet(t) = topped[t]

\* Money is asked for once, and is in the books when it has come.
BillingConsistent == OneRunning /\ LedgerBalances

\* The differently written queries agree: a subscription is got by its id if
\* and only if some page of the list has it, and the usage that a tenant sees
\* without naming a subscription is that of a listed one.
BillingViewsAgree == \A t \in Tenants :
    LET shown == Walk(LAMBDA p, l : ListSubscriptions(t, p, l), MaxSubscriptions)
    IN  /\ {s \in 1 .. MaxSubscriptions : GetSubscription(t, s)} = shown
        /\ GetUsageSummary(t, {}) \subseteq UNION {GetUsageSummary(t, {s}) : s \in shown}
=============================================================================

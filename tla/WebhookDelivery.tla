--------------------------- MODULE WebhookDelivery ---------------------------
(***************************************************************************)
(* A tenant's webhooks and the ledger of their deliveries                  *)
(* (services/webhooks.py, api/v1/webhooks.py), as one database session     *)
(* sees them.  A handler awaits nothing but its own session and its own    *)
(* POSTs, so each is one step; RequestSession says what becomes of its     *)
(* writes.  A POST is answered 2xx ("accepted"), is answered otherwise,    *)
(* times out or meets a network error ("failed"), or raises anything else, *)
(* such as httpx.InvalidURL for the URLs that WebhookCreate lets pass      *)
(* ("raised").                                                             *)
(***************************************************************************)
EXTENDS Naturals, Sequences, FiniteSets

CONSTANTS
    Webhooks, Urls, Events,
    TestEvent,          \* "webhook.test"
    Limits,             \* values of retry_config's max_retries
    MaxDeliveries,      \* bound: deliveries recorded
    MaxAttempts         \* bound: attempts of a delivery

ASSUME WebhookAssumption ==
    /\ IsFiniteSet(Webhooks) /\ TestEvent \in Events
    /\ Limits \subseteq Nat
    /\ MaxDeliveries \in Nat /\ MaxAttempts \in Nat

VARIABLES
    webhook,    \* the webhooks' rows
    delivery,   \* the deliveries' rows, in the order of created_at
    posts       \* history: the POSTs of each delivery

vars == <<webhook, delivery, posts>>

Outcomes == {"accepted", "failed", "raised"}
\* "removed" stands for a row that has been deleted.
Statuses == {"pending", "delivering", "succeeded", "failed", "retrying", "removed"}

\* Of a deleted row only the time of its deletion is read again: "stale" is
\* long enough ago for the clean-up.
Webhook == [state : {"live"}, url : Urls, events : SUBSET Events, is_active : BOOLEAN,
            max_retries : Limits]
Gone == [state : {"absent", "deleted", "stale"}]
Delivery == [webhook : Webhooks, event_type : Events, status : Statuses, attempt : Nat,
             next_retry_at : BOOLEAN, completed_at : BOOLEAN]
Post == [attempt : Nat, limit : Limits, outcome : Outcomes]

TypeOK ==
    /\ webhook \in [Webhooks -> Webhook \cup Gone]
    /\ delivery \in Seq(Delivery)
    /\ posts \in Seq(Seq(Post)) /\ Len(posts) = Len(delivery)

Init ==
    /\ webhook = [w \in Webhooks |-> [state |-> "absent"]]
    /\ delivery = <<>> /\ posts = <<>>

Live(w) == webhook[w].state = "live"
Recorded == {d \in DOMAIN delivery : delivery[d].status # "removed"}

-----------------------------------------------------------------------------
\* Registration.  The URL is not that of another webhook of the tenant.
CreateWebhook(w, url, events, active, limit) ==
    /\ webhook[w].state = "absent" /\ events # {}
    /\ \A v \in Webhooks : Live(v) => webhook[v].url # url
    /\ webhook' = [webhook EXCEPT ![w] =
           [state |-> "live", url |-> url, events |-> events, is_active |-> active,
            max_retries |-> limit]]
    /\ UNCHANGED <<delivery, posts>>

\* The fields given are set, and nothing is checked again.
UpdateWebhook(w, url, events, active, limit) ==
    /\ Live(w)
    /\ webhook' = [webhook EXCEPT ![w] =
           [state |-> "live", url |-> url, events |-> events, is_active |-> active,
            max_retries |-> limit]]
    /\ UNCHANGED <<delivery, posts>>

DeleteWebhook(w) ==
    /\ Live(w)
    /\ webhook' = [webhook EXCEPT ![w] = [state |-> "deleted"]]
    /\ UNCHANGED <<delivery, posts>>

\* The retention period of the deleted webhooks passes.
Age(w) ==
    /\ webhook[w].state = "deleted"
    /\ webhook' = [webhook EXCEPT ![w] = [state |-> "stale"]]
    /\ UNCHANGED <<delivery, posts>>

StaleWebhooks == {w \in Webhooks : webhook[w].state = "stale"}

\* Mutant: only the webhooks' rows are removed.
CleanUpWebhooksOnly ==
    /\ StaleWebhooks # {}
    /\ webhook' = [w \in Webhooks |->
           IF w \in StaleWebhooks THEN [state |-> "absent"] ELSE webhook[w]]
    /\ UNCHANGED <<delivery, posts>>

\* Stale webhooks are removed with their deliveries.
CleanUpStaleWebhooks ==
    /\ StaleWebhooks # {}
    /\ webhook' = [w \in Webhooks |->
           IF w \in StaleWebhooks THEN [state |-> "absent"] ELSE webhook[w]]
    /\ delivery' = [d \in DOMAIN delivery |->
           IF delivery[d].webhook \in StaleWebhooks
           THEN [delivery[d] EXCEPT !.status = "removed"] ELSE delivery[d]]
    /\ UNCHANGED posts

-----------------------------------------------------------------------------
\* Mutant: the delivery gives up one attempt early.
GiveUpEarly(r, w) ==
    IF r.attempt + 1 >= webhook[w].max_retries
    THEN [r EXCEPT !.status = "failed", !.completed_at = TRUE]
    ELSE [r EXCEPT !.status = "retrying", !.next_retry_at = TRUE]

\* A failed attempt: give up, or schedule the next one.
HandleFailedDelivery(r, w) ==
    IF r.attempt >= webhook[w].max_retries
    THEN [r EXCEPT !.status = "failed", !.completed_at = TRUE]
    ELSE [r EXCEPT !.status = "retrying", !.next_retry_at = TRUE]

\* The row after its attempt at webhook w had the outcome.
AttemptDelivery(r, w, outcome) ==
    CASE outcome = "accepted" -> [r EXCEPT !.status = "succeeded", !.completed_at = TRUE]
      [] outcome = "failed" -> HandleFailedDelivery(r, w)
      [] outcome = "raised" -> [r EXCEPT !.status = "delivering"]

PostOf(r, w, outcome) ==
    [attempt |-> r.attempt, limit |-> webhook[w].max_retries, outcome |-> outcome]

\* The row that dispatch_event inserts.
NewDelivery(w, event) ==
    [webhook |-> w, event_type |-> event, status |-> "pending", attempt |-> 1,
     next_retry_at |-> FALSE, completed_at |-> FALSE]

Subscribed(event) ==
    {w \in Webhooks : Live(w) /\ webhook[w].is_active /\ event \in webhook[w].events}

\* Every subscriber in some order, up to the first POST that raises.
DispatchEvent(event) ==
    \E n \in 1..Cardinality(Subscribed(event)) :
    \E to \in [1..n -> Subscribed(event)], outcome \in [1..n -> Outcomes] :
    /\ Len(delivery) + n <= MaxDeliveries
    /\ \A i, j \in 1..n : to[i] = to[j] => i = j
    /\ \A i \in 1..n : outcome[i] = "raised" => i = n
    /\ n = Cardinality(Subscribed(event)) \/ outcome[n] = "raised"
    /\ delivery' = delivery \o
           [i \in 1..n |-> AttemptDelivery(NewDelivery(to[i], event), to[i], outcome[i])]
    /\ posts' = posts \o
           [i \in 1..n |-> <<PostOf(NewDelivery(to[i], event), to[i], outcome[i])>>]
    /\ UNCHANGED webhook

\* POST /webhooks/{id}/test dispatches the test event, whatever the id.
SendTestEvent(w) == DispatchEvent(TestEvent)

\* Mutant: a repeated attempt keeps the number of the first.
SameAttempt(r) == r

NextAttempt(r) == [r EXCEPT !.attempt = r.attempt + 1]

\* The row d is posted again, to webhook w, which the request names.
Attempted(d, w, outcome) ==
    LET r == NextAttempt(delivery[d]) IN
    /\ delivery' = [delivery EXCEPT ![d] = AttemptDelivery(r, w, outcome)]
    /\ posts' = [posts EXCEPT ![d] = Append(@, PostOf(r, w, outcome))]

\* Mutant: what has succeeded can be repeated.
ProcessAny(w, d) ==
    /\ Live(w) /\ d \in Recorded /\ delivery[d].attempt < MaxAttempts
    /\ \E outcome \in Outcomes : Attempted(d, w, outcome)
    /\ UNCHANGED webhook

\* POST /webhooks/{id}/redeliver/{delivery_id}: from any status but
\* "succeeded", whatever webhook the delivery is of.
ProcessDelivery(w, d) ==
    /\ Live(w) /\ d \in Recorded /\ delivery[d].attempt < MaxAttempts
    /\ delivery[d].status # "succeeded"
    /\ \E outcome \in Outcomes : Attempted(d, w, outcome)
    /\ UNCHANGED webhook

\* The deliveries of w that have failed or wait for a retry.
Retriable(w) == {d \in Recorded :
    delivery[d].webhook = w /\ delivery[d].status \in {"failed", "retrying"}}

\* All of them in some order, up to the first POST that raises.
RetryFailedDeliveries(w) ==
    \E ds \in SUBSET Retriable(w) : \E outcome \in [ds -> Outcomes] :
    /\ Live(w) /\ ds # {}
    /\ \A d \in ds : delivery[d].attempt < MaxAttempts
    /\ Cardinality({d \in ds : outcome[d] = "raised"}) <= 1
    /\ ds = Retriable(w) \/ \E d \in ds : outcome[d] = "raised"
    /\ delivery' = [d \in DOMAIN delivery |->
           IF d \in ds THEN AttemptDelivery(NextAttempt(delivery[d]), w, outcome[d])
           ELSE delivery[d]]
    /\ posts' = [d \in DOMAIN posts |->
           IF d \in ds THEN Append(posts[d], PostOf(NextAttempt(delivery[d]), w, outcome[d]))
           ELSE posts[d]]
    /\ UNCHANGED webhook

Next ==
    \/ \E w \in Webhooks, url \in Urls, events \in SUBSET Events, active \in BOOLEAN,
          limit \in Limits :
          \/ CreateWebhook(w, url, events, active, limit)
          \/ UpdateWebhook(w, url, events, active, limit)
    \/ \E w \in Webhooks : DeleteWebhook(w) \/ Age(w) \/ SendTestEvent(w)
                           \/ RetryFailedDeliveries(w)
    \/ CleanUpStaleWebhooks
    \/ \E event \in Events : DispatchEvent(event)
    \/ \E w \in Webhooks, d \in DOMAIN delivery : ProcessDelivery(w, d)

Spec == Init /\ [][Next]_vars

-----------------------------------------------------------------------------
Last(d) == posts[d][Len(posts[d])]

\* The receiver can tell repetitions apart: X-Webhook-Attempt counts the
\* POSTs of a delivery, over dispatches, redeliveries and bulk retries.
AttemptsNumbered == \A d \in Recorded :
    /\ delivery[d].attempt = Len(posts[d])
    /\ \A i \in DOMAIN posts[d] : posts[d][i].attempt = i

\* A delivery that the receiver has accepted is never posted again.
NothingAfterSuccess == \A d \in Recorded : \A i \in DOMAIN posts[d] :
    posts[d][i].outcome = "accepted" => i = Len(posts[d])

\* A row tells how its last attempt ended, by the limit of the webhook it
\* went to: given up, to be retried at a time that is set, or interrupted.
StatusTellsLastAttempt == \A d \in Recorded :
    LET r == delivery[d] IN
    /\ r.status = "succeeded" <=> Last(d).outcome = "accepted"
    /\ r.status = "delivering" <=> Last(d).outcome = "raised"
    /\ r.status = "failed" => r.attempt >= Last(d).limit /\ r.completed_at
    /\ r.status = "retrying" => r.attempt < Last(d).limit /\ r.next_retry_at
    /\ r.status # "pending"

\* A recorded delivery is of a webhook that has a row.
DeliveriesHaveWebhooks == \A d \in Recorded :
    webhook[delivery[d].webhook].state # "absent"
=============================================================================

----------------------- MODULE WebhookDeliveryProofs -----------------------
(***************************************************************************)
(* The ledger of deliveries, for any webhooks, limits and number of        *)
(* deliveries and attempts.  The invariant is one about a row and the      *)
(* history of its own POSTs (RowOK): every handler makes rows that satisfy *)
(* it from rows that do.                                                   *)
(***************************************************************************)
EXTENDS WebhookDelivery, FiniteSetTheorems, TLAPS

\* A row r and the history p of its POSTs.
Numbered(r, p) ==
    /\ r.attempt = Len(p) /\ Len(p) >= 1
    /\ \A i \in DOMAIN p : p[i].attempt = i
AcceptedLast(p) == \A i \in DOMAIN p : p[i].outcome = "accepted" => i = Len(p)
Tells(r, p) ==
    /\ r.status = "succeeded" <=> p[Len(p)].outcome = "accepted"
    /\ r.status = "delivering" <=> p[Len(p)].outcome = "raised"
    /\ r.status = "failed" => r.attempt >= p[Len(p)].limit /\ r.completed_at
    /\ r.status = "retrying" => r.attempt < p[Len(p)].limit /\ r.next_retry_at
    /\ r.status # "pending"
RowOK(r, p) ==
    /\ r \in Delivery /\ p \in Seq(Post)
    /\ r.status # "removed" => Numbered(r, p) /\ AcceptedLast(p) /\ Tells(r, p)

IInv ==
    /\ webhook \in [Webhooks -> Webhook \cup Gone]
    /\ delivery \in Seq(Delivery) /\ posts \in Seq(Seq(Post))
    /\ Len(posts) = Len(delivery)
    /\ \A d \in DOMAIN delivery : RowOK(delivery[d], posts[d])
    /\ DeliveriesHaveWebhooks

\* The invariant is the conjunction of what the runs check.
LEMMA IInvImplies ==
    IInv => TypeOK /\ AttemptsNumbered /\ NothingAfterSuccess /\ StatusTellsLastAttempt
  <1>. SUFFICES ASSUME IInv
                PROVE  TypeOK /\ AttemptsNumbered /\ NothingAfterSuccess /\ StatusTellsLastAttempt
    OBVIOUS
  <1>1. TypeOK
    BY DEF IInv, TypeOK
  <1>2. \A d \in Recorded : RowOK(delivery[d], posts[d]) /\ delivery[d].status # "removed"
    BY DEF IInv, Recorded
  <1>3. AttemptsNumbered
    BY <1>2 DEF AttemptsNumbered, RowOK, Numbered
  <1>4. NothingAfterSuccess
    BY <1>2 DEF NothingAfterSuccess, RowOK, AcceptedLast
  <1>5. StatusTellsLastAttempt
    BY <1>2 DEF StatusTellsLastAttempt, Last, RowOK, Tells
  <1>. QED
    BY <1>1, <1>3, <1>4, <1>5

\* A live webhook has a limit.
LEMMA LiveRow ==
    ASSUME IInv, NEW w \in Webhooks, Live(w)
    PROVE  webhook[w] \in Webhook /\ webhook[w].max_retries \in Limits
                                  /\ webhook[w].max_retries \in Nat
  <1>1. webhook[w] \in Webhook
    BY DEF IInv, Live, Gone
  <1>. QED
    BY <1>1, WebhookAssumption DEF Webhook

\* What an attempt makes of a row.
LEMMA AttemptedRow ==
    ASSUME NEW n \in Delivery, NEW w \in Webhooks, webhook[w].max_retries \in Nat,
           NEW outcome \in Outcomes
    PROVE  LET r == AttemptDelivery(n, w, outcome) IN
           /\ r \in Delivery /\ r.attempt = n.attempt /\ r.webhook = n.webhook
           /\ r.status = "succeeded" <=> outcome = "accepted"
           /\ r.status = "delivering" <=> outcome = "raised"
           /\ r.status = "failed" => n.attempt >= webhook[w].max_retries /\ r.completed_at
           /\ r.status = "retrying" => n.attempt < webhook[w].max_retries /\ r.next_retry_at
           /\ r.status # "pending"
  <1>. n.attempt \in Nat
    BY DEF Delivery
  <1>1. CASE outcome = "accepted"
    <2>1. AttemptDelivery(n, w, outcome) = [n EXCEPT !.status = "succeeded", !.completed_at = TRUE]
      BY <1>1 DEF AttemptDelivery
    <2>. QED
      BY <1>1, <2>1 DEF Delivery, Statuses
  <1>2. CASE outcome = "raised"
    <2>1. AttemptDelivery(n, w, outcome) = [n EXCEPT !.status = "delivering"]
      BY <1>2 DEF AttemptDelivery
    <2>. QED
      BY <1>2, <2>1 DEF Delivery, Statuses
  <1>3. CASE outcome = "failed" /\ n.attempt >= webhook[w].max_retries
    <2>1. AttemptDelivery(n, w, outcome) = [n EXCEPT !.status = "failed", !.completed_at = TRUE]
      BY <1>3 DEF AttemptDelivery, HandleFailedDelivery
    <2>. QED
      BY <1>3, <2>1 DEF Delivery, Statuses
  <1>4. CASE outcome = "failed" /\ n.attempt < webhook[w].max_retries
    <2>1. AttemptDelivery(n, w, outcome) = [n EXCEPT !.status = "retrying", !.next_retry_at = TRUE]
      BY <1>4 DEF AttemptDelivery, HandleFailedDelivery
    <2>. QED
      BY <1>4, <2>1 DEF Delivery, Statuses
  <1>. QED
    BY <1>1, <1>2, <1>3, <1>4 DEF Outcomes

\* The first attempt of a row that is inserted.
LEMMA FirstAttempt ==
    ASSUME IInv, NEW w \in Webhooks, Live(w), NEW event \in Events, NEW outcome \in Outcomes
    PROVE  LET r == AttemptDelivery(NewDelivery(w, event), w, outcome)
               p == <<PostOf(NewDelivery(w, event), w, outcome)>>
           IN  RowOK(r, p) /\ r.webhook = w
  <1>. DEFINE n == NewDelivery(w, event)
              r == AttemptDelivery(n, w, outcome)
              q == PostOf(n, w, outcome)
  <1>1. webhook[w].max_retries \in Limits /\ webhook[w].max_retries \in Nat
    BY LiveRow
  <1>2. n \in Delivery /\ n.attempt = 1 /\ n.webhook = w
    BY DEF NewDelivery, Delivery, Statuses
  <1>3. q \in Post /\ q.attempt = 1 /\ q.limit = webhook[w].max_retries /\ q.outcome = outcome
    BY <1>1, <1>2 DEF PostOf, Post
  <1>4. /\ r \in Delivery /\ r.attempt = 1 /\ r.webhook = w
        /\ r.status = "succeeded" <=> outcome = "accepted"
        /\ r.status = "delivering" <=> outcome = "raised"
        /\ r.status = "failed" => 1 >= webhook[w].max_retries /\ r.completed_at
        /\ r.status = "retrying" => 1 < webhook[w].max_retries /\ r.next_retry_at
        /\ r.status # "pending"
    BY <1>1, <1>2, AttemptedRow
  <1>. HIDE DEF n, r, q
  <1>5. RowOK(r, <<q>>)
    BY <1>3, <1>4 DEF RowOK, Numbered, AcceptedLast, Tells
  <1>. QED
    BY <1>4, <1>5 DEF n, r, q

\* One more attempt of a recorded row that has not succeeded.
LEMMA AnotherAttempt ==
    ASSUME IInv, NEW w \in Webhooks, Live(w), NEW d \in Recorded,
           delivery[d].status # "succeeded", NEW outcome \in Outcomes
    PROVE  LET n == NextAttempt(delivery[d])
               r == AttemptDelivery(n, w, outcome)
               p == Append(posts[d], PostOf(n, w, outcome))
           IN  RowOK(r, p) /\ r.webhook = delivery[d].webhook
  <1>. DEFINE n == NextAttempt(delivery[d])
              r == AttemptDelivery(n, w, outcome)
              q == PostOf(n, w, outcome)
              o == posts[d]
  <1>1. webhook[w].max_retries \in Limits /\ webhook[w].max_retries \in Nat
    BY LiveRow
  <1>2. /\ delivery[d] \in Delivery /\ o \in Seq(Post)
        /\ Numbered(delivery[d], o) /\ AcceptedLast(o) /\ Tells(delivery[d], o)
    BY DEF IInv, Recorded, RowOK
  <1>3. /\ n \in Delivery /\ n.attempt = Len(o) + 1 /\ n.webhook = delivery[d].webhook
        /\ n.status # "succeeded"
    BY <1>2 DEF NextAttempt, Delivery, Numbered
  <1>4. /\ q \in Post /\ q.attempt = Len(o) + 1 /\ q.limit = webhook[w].max_retries
        /\ q.outcome = outcome
    BY <1>1, <1>3 DEF PostOf, Post
  <1>5. /\ r \in Delivery /\ r.attempt = Len(o) + 1 /\ r.webhook = delivery[d].webhook
        /\ r.status = "succeeded" <=> outcome = "accepted"
        /\ r.status = "delivering" <=> outcome = "raised"
        /\ r.status = "failed" => Len(o) + 1 >= webhook[w].max_retries /\ r.completed_at
        /\ r.status = "retrying" => Len(o) + 1 < webhook[w].max_retries /\ r.next_retry_at
        /\ r.status # "pending"
    BY <1>1, <1>3, AttemptedRow
  <1>6. \A i \in DOMAIN o : o[i].attempt = i /\ o[i].outcome # "accepted"
    BY <1>2 DEF Numbered, AcceptedLast, Tells
  <1>. HIDE DEF n, r, q, o
  <1>7. /\ Append(o, q) \in Seq(Post) /\ Len(Append(o, q)) = Len(o) + 1 /\ Len(o) \in Nat
        /\ Append(o, q)[Len(o) + 1] = q
        /\ \A i \in DOMAIN Append(o, q) : i # Len(o) + 1 => i \in DOMAIN o /\ Append(o, q)[i] = o[i]
    BY <1>2, <1>4
  <1>8. RowOK(r, Append(o, q))
    BY <1>4, <1>5, <1>6, <1>7 DEF RowOK, Numbered, AcceptedLast, Tells
  <1>. QED
    BY <1>5, <1>8 DEF n, r, q, o

\* No webhook, no delivery.
LEMMA InitIInv == Init => IInv
  BY DEF Init, IInv, Gone, DeliveriesHaveWebhooks, Recorded

\* The webhook of a row.
LEMMA WebhooksOfRows ==
    IInv => \A d \in DOMAIN delivery : d \in Recorded => delivery[d].webhook \in Webhooks
  <1>. SUFFICES ASSUME IInv, NEW d \in DOMAIN delivery PROVE delivery[d].webhook \in Webhooks
    OBVIOUS
  <1>1. delivery[d] \in Delivery
    BY DEF IInv, RowOK
  <1>. QED
    BY <1>1 DEF Delivery

\* Registration, updates and deletions leave the deliveries alone.
LEMMA WebhooksIInv ==
    ASSUME IInv, NEW w \in Webhooks,
           \/ \E url \in Urls, events \in SUBSET Events, active \in BOOLEAN, limit \in Limits :
                 CreateWebhook(w, url, events, active, limit)
                 \/ UpdateWebhook(w, url, events, active, limit)
           \/ DeleteWebhook(w) \/ Age(w)
    PROVE  IInv'
  <1>1. /\ UNCHANGED <<delivery, posts>>
        /\ webhook' \in [Webhooks -> Webhook \cup Gone]
        /\ \A v \in Webhooks : webhook[v].state # "absent" => webhook'[v].state # "absent"
    <2>1. \A url \in Urls, events \in SUBSET Events, active \in BOOLEAN, limit \in Limits :
             [state |-> "live", url |-> url, events |-> events, is_active |-> active,
              max_retries |-> limit] \in Webhook
      BY DEF Webhook
    <2>2. webhook \in [Webhooks -> Webhook \cup Gone]
      BY DEF IInv
    <2>3. CASE \E url \in Urls, events \in SUBSET Events, active \in BOOLEAN, limit \in Limits :
                 CreateWebhook(w, url, events, active, limit)
                 \/ UpdateWebhook(w, url, events, active, limit)
      BY <2>1, <2>2, <2>3 DEF CreateWebhook, UpdateWebhook
    <2>4. CASE DeleteWebhook(w) \/ Age(w)
      BY <2>2, <2>4 DEF DeleteWebhook, Age, Gone
    <2>. QED
      BY <2>3, <2>4
  <1>2. \A d \in Recorded : delivery[d].webhook \in Webhooks
    BY WebhooksOfRows DEF Recorded
  <1>3. DeliveriesHaveWebhooks'
    BY <1>1, <1>2 DEF IInv, DeliveriesHaveWebhooks, Recorded
  <1>. QED
    BY <1>1, <1>3 DEF IInv, RowOK, Numbered, AcceptedLast, Tells

\* The clean-up removes a webhook's row together with those of its deliveries.
LEMMA CleanUpIInv == IInv /\ CleanUpStaleWebhooks => IInv'
  <1>. SUFFICES ASSUME IInv, CleanUpStaleWebhooks PROVE IInv'
    OBVIOUS
  <1>. USE DEF CleanUpStaleWebhooks
  <1>1. webhook' \in [Webhooks -> Webhook \cup Gone]
    BY DEF IInv, Gone
  <1>2. /\ DOMAIN delivery' = DOMAIN delivery
        /\ \A d \in DOMAIN delivery : RowOK(delivery[d], posts[d]) /\ delivery[d] \in Delivery
    BY DEF IInv, RowOK
  <1>3. \A d \in DOMAIN delivery :
           /\ delivery'[d] \in Delivery /\ delivery'[d].webhook = delivery[d].webhook
           /\ \/ delivery[d].webhook \notin StaleWebhooks /\ delivery'[d] = delivery[d]
              \/ delivery'[d].status = "removed"
    BY <1>2 DEF Delivery, Statuses
  <1>4. delivery' \in Seq(Delivery) /\ Len(delivery') = Len(delivery) /\ UNCHANGED posts
    BY <1>3 DEF IInv
  <1>5. \A d \in DOMAIN delivery' : RowOK(delivery'[d], posts'[d])
    BY <1>2, <1>3, <1>4 DEF RowOK
  <1>6. DeliveriesHaveWebhooks'
    BY <1>2, <1>3 DEF IInv, DeliveriesHaveWebhooks, Recorded, Delivery
  <1>. QED
    BY <1>1, <1>4, <1>5, <1>6 DEF IInv

\* A function on 1..n is a sequence of length n.
LEMMA FunctionIsSeq ==
    ASSUME NEW S, NEW n \in Nat, NEW f \in [1..n -> S]
    PROVE  f \in Seq(S) /\ Len(f) = n
  OBVIOUS

\* A dispatch appends rows of subscribers, each after its first attempt.
LEMMA DispatchIInv ==
    ASSUME IInv, NEW event \in Events, DispatchEvent(event)
    PROVE  IInv'
  <1>1. IsFiniteSet(Subscribed(event)) /\ Cardinality(Subscribed(event)) \in Nat
    BY WebhookAssumption, FS_Subset, FS_CardinalityType DEF Subscribed
  <1>2. PICK n \in 1..Cardinality(Subscribed(event)) :
        \E to \in [1..n -> Subscribed(event)], outcome \in [1..n -> Outcomes] :
        /\ delivery' = delivery \o
               [i \in 1..n |-> AttemptDelivery(NewDelivery(to[i], event), to[i], outcome[i])]
        /\ posts' = posts \o
               [i \in 1..n |-> <<PostOf(NewDelivery(to[i], event), to[i], outcome[i])>>]
        /\ UNCHANGED webhook
    BY DEF DispatchEvent
  <1>3. PICK to \in [1..n -> Subscribed(event)], outcome \in [1..n -> Outcomes] :
        /\ delivery' = delivery \o
               [i \in 1..n |-> AttemptDelivery(NewDelivery(to[i], event), to[i], outcome[i])]
        /\ posts' = posts \o
               [i \in 1..n |-> <<PostOf(NewDelivery(to[i], event), to[i], outcome[i])>>]
        /\ UNCHANGED webhook
    BY <1>2
  <1>. DEFINE rows == [i \in 1..n |-> AttemptDelivery(NewDelivery(to[i], event), to[i], outcome[i])]
              news == [i \in 1..n |-> <<PostOf(NewDelivery(to[i], event), to[i], outcome[i])>>]
  <1>4. n \in Nat
    BY <1>1
  <1>5. \A i \in 1..n : RowOK(rows[i], news[i]) /\ rows[i].webhook = to[i]
    BY FirstAttempt DEF Subscribed
  <1>6. \A i \in 1..n : to[i] \in Webhooks /\ webhook[to[i]].state = "live"
    BY DEF Subscribed, Live
  <1>7. rows \in Seq(Delivery) /\ news \in Seq(Seq(Post)) /\ Len(rows) = n /\ Len(news) = n
    <2>1. \A i \in 1..n : rows[i] \in Delivery /\ news[i] \in Seq(Post)
      BY <1>5 DEF RowOK
    <2>2. rows \in [1..n -> Delivery] /\ news \in [1..n -> Seq(Post)]
      BY <2>1
    <2>. HIDE DEF rows, news
    <2>. QED
      BY <1>4, <2>2, FunctionIsSeq
  <1>8. delivery' = delivery \o rows /\ posts' = posts \o news /\ webhook' = webhook
    BY <1>3
  <1>. HIDE DEF rows, news
  <1>9. /\ delivery' \in Seq(Delivery) /\ posts' \in Seq(Seq(Post)) /\ Len(posts') = Len(delivery')
        /\ \A d \in DOMAIN delivery' :
              \/ /\ d \in DOMAIN delivery /\ delivery'[d] = delivery[d] /\ posts'[d] = posts[d]
              \/ \E i \in 1..n : delivery'[d] = rows[i] /\ posts'[d] = news[i]
    <2>1. /\ delivery \in Seq(Delivery) /\ posts \in Seq(Seq(Post)) /\ Len(posts) = Len(delivery)
          /\ Len(delivery) \in Nat
      BY DEF IInv
    <2>2. /\ delivery' \in Seq(Delivery) /\ Len(delivery') = Len(delivery) + n
          /\ \A d \in 1..Len(delivery) : delivery'[d] = delivery[d]
          /\ \A i \in 1..n : delivery'[Len(delivery) + i] = rows[i]
      <3>1. delivery \in Seq(Delivery) /\ rows \in Seq(Delivery) /\ Len(rows) = n
        BY <1>7, <2>1
      <3>2. delivery \o rows \in Seq(Delivery)
        BY <3>1
      <3>3. Len(delivery \o rows) = Len(delivery) + Len(rows)
        BY <3>1
      <3>4. \A d \in 1..Len(delivery) : (delivery \o rows)[d] = delivery[d]
        BY <3>1
      <3>5. \A i \in 1..Len(rows) : (delivery \o rows)[Len(delivery) + i] = rows[i]
        BY <3>1
      <3>. QED
        BY <1>7, <1>8, <2>1, <3>2, <3>3, <3>4, <3>5
    <2>3. /\ posts' \in Seq(Seq(Post)) /\ Len(posts') = Len(delivery) + n
          /\ \A d \in 1..Len(delivery) : posts'[d] = posts[d]
          /\ \A i \in 1..n : posts'[Len(delivery) + i] = news[i]
      <3>1. posts \in Seq(Seq(Post)) /\ news \in Seq(Seq(Post)) /\ Len(news) = n
        BY <1>7, <2>1
      <3>2. posts \o news \in Seq(Seq(Post))
        BY <3>1
      <3>3. Len(posts \o news) = Len(posts) + Len(news)
        <4>. DEFINE S == Seq(Post)
        <4>1. posts \in Seq(S) /\ news \in Seq(S)
          BY <3>1
        <4>. HIDE DEF S
        <4>. QED
          BY <4>1
      <3>4. \A d \in 1..Len(posts) : (posts \o news)[d] = posts[d]
        BY <3>1
      <3>5. \A i \in 1..Len(news) : (posts \o news)[Len(posts) + i] = news[i]
        BY <3>1
      <3>. QED
        BY <1>7, <1>8, <2>1, <3>2, <3>3, <3>4, <3>5
    <2>4. ASSUME NEW d \in DOMAIN delivery'
          PROVE  \/ /\ d \in DOMAIN delivery /\ delivery'[d] = delivery[d] /\ posts'[d] = posts[d]
                 \/ \E i \in 1..n : delivery'[d] = rows[i] /\ posts'[d] = news[i]
      <3>1. d \in 1..(Len(delivery) + n) /\ DOMAIN delivery = 1..Len(delivery)
        BY <2>1, <2>2
      <3>2. CASE d \in 1..Len(delivery)
        BY <2>2, <2>3, <3>1, <3>2
      <3>3. CASE d \notin 1..Len(delivery)
        <4>1. PICK i \in 1..n : d = Len(delivery) + i
          <5>1. d - Len(delivery) \in 1..n /\ d = Len(delivery) + (d - Len(delivery))
            BY <1>4, <2>1, <3>1, <3>3
          <5>. QED
            BY <5>1
        <4>. QED
          BY <2>2, <2>3, <4>1
      <3>. QED
        BY <3>2, <3>3
    <2>. QED
      BY <2>2, <2>3, <2>4
  <1>10. \A d \in DOMAIN delivery' : RowOK(delivery'[d], posts'[d])
    BY <1>5, <1>9 DEF IInv
  <1>11. DeliveriesHaveWebhooks'
    <2>. SUFFICES ASSUME NEW d \in DOMAIN delivery', delivery'[d].status # "removed"
                  PROVE  webhook[delivery'[d].webhook].state # "absent"
      BY <1>8 DEF DeliveriesHaveWebhooks, Recorded
    <2>1. CASE d \in DOMAIN delivery /\ delivery'[d] = delivery[d]
      BY <2>1 DEF IInv, DeliveriesHaveWebhooks, Recorded
    <2>2. CASE \E i \in 1..n : delivery'[d] = rows[i]
      BY <1>5, <1>6, <2>2
    <2>. QED
      BY <1>9, <2>1, <2>2
  <1>12. webhook' \in [Webhooks -> Webhook \cup Gone]
    BY <1>8 DEF IInv
  <1>. QED
    BY <1>9, <1>10, <1>11, <1>12 DEF IInv

\* Redelivery and bulk retry replace rows by rows after one more attempt.
LEMMA RepeatIInv ==
    ASSUME IInv, NEW w \in Webhooks, NEW d0 \in DOMAIN delivery,
           ProcessDelivery(w, d0) \/ RetryFailedDeliveries(w)
    PROVE  IInv'
  <1>. DEFINE Repeated(d, outcome) ==
         /\ delivery'[d] = AttemptDelivery(NextAttempt(delivery[d]), w, outcome)
         /\ posts'[d] = Append(posts[d], PostOf(NextAttempt(delivery[d]), w, outcome))
  <1>1. Live(w) /\ webhook' = webhook
    BY DEF ProcessDelivery, RetryFailedDeliveries
  <1>2. DOMAIN posts = DOMAIN delivery
    BY DEF IInv
  <1>3. /\ DOMAIN delivery' = DOMAIN delivery /\ DOMAIN posts' = DOMAIN posts
        /\ \A d \in DOMAIN delivery :
              \/ delivery'[d] = delivery[d] /\ posts'[d] = posts[d]
              \/ /\ d \in Recorded /\ delivery[d].status # "succeeded"
                 /\ \E outcome \in Outcomes : Repeated(d, outcome)
    <2>1. CASE ProcessDelivery(w, d0)
      BY <1>2, <2>1 DEF ProcessDelivery, Attempted, IInv
    <2>2. CASE RetryFailedDeliveries(w)
      <3>1. PICK ds \in SUBSET Retriable(w) : \E outcome \in [ds -> Outcomes] :
              /\ delivery' = [d \in DOMAIN delivery |->
                     IF d \in ds THEN AttemptDelivery(NextAttempt(delivery[d]), w, outcome[d])
                     ELSE delivery[d]]
              /\ posts' = [d \in DOMAIN posts |->
                     IF d \in ds
                     THEN Append(posts[d], PostOf(NextAttempt(delivery[d]), w, outcome[d]))
                     ELSE posts[d]]
        BY <2>2 DEF RetryFailedDeliveries
      <3>2. \A d \in ds : d \in Recorded /\ delivery[d].status # "succeeded"
        BY DEF Retriable
      <3>. QED
        BY <1>2, <3>1, <3>2
    <2>. QED
      BY <2>1, <2>2
  <1>4. \A d \in DOMAIN delivery :
           /\ RowOK(delivery'[d], posts'[d]) /\ delivery'[d].webhook = delivery[d].webhook
           /\ d \notin Recorded => delivery'[d] = delivery[d]
    <2>. TAKE d \in DOMAIN delivery
    <2>1. CASE delivery'[d] = delivery[d] /\ posts'[d] = posts[d]
      BY <2>1 DEF IInv
    <2>2. CASE d \in Recorded /\ delivery[d].status # "succeeded"
               /\ \E outcome \in Outcomes : Repeated(d, outcome)
      BY <1>1, <2>2, AnotherAttempt
    <2>. QED
      BY <1>3, <2>1, <2>2
  <1>5. /\ delivery' \in Seq(Delivery) /\ posts' \in Seq(Seq(Post)) /\ Len(posts') = Len(delivery')
    <2>1. Len(delivery) \in Nat /\ DOMAIN delivery = 1..Len(delivery)
      BY DEF IInv
    <2>2. /\ delivery' = [d \in 1..Len(delivery) |-> delivery'[d]]
          /\ posts' = [d \in 1..Len(delivery) |-> posts'[d]]
      <3>1. CASE ProcessDelivery(w, d0)
        BY <1>2, <2>1, <3>1 DEF ProcessDelivery, Attempted
      <3>2. CASE RetryFailedDeliveries(w)
        BY <1>2, <2>1, <3>2 DEF RetryFailedDeliveries
      <3>. QED
        BY <3>1, <3>2
    <2>3. \A d \in 1..Len(delivery) : delivery'[d] \in Delivery /\ posts'[d] \in Seq(Post)
      BY <1>4, <2>1 DEF RowOK
    <2>. DEFINE n == Len(delivery)
                row == [d \in 1..n |-> delivery'[d]]
                hist == [d \in 1..n |-> posts'[d]]
    <2>4. row \in Seq(Delivery) /\ hist \in Seq(Seq(Post)) /\ Len(hist) = Len(row)
      BY <2>1, <2>3
    <2>. QED
      BY <2>2, <2>4
  <1>6. DeliveriesHaveWebhooks'
    BY <1>1, <1>3, <1>4 DEF IInv, DeliveriesHaveWebhooks, Recorded
  <1>7. webhook' \in [Webhooks -> Webhook \cup Gone]
    BY <1>1 DEF IInv
  <1>8. \A d \in DOMAIN delivery' : RowOK(delivery'[d], posts'[d])
    BY <1>3, <1>4
  <1>. QED
    BY <1>5, <1>6, <1>7, <1>8 DEF IInv

\* Every step keeps the invariant.
LEMMA NextIInv == IInv /\ [Next]_vars => IInv'
  <1>. SUFFICES ASSUME IInv, [Next]_vars PROVE IInv'
    OBVIOUS
  <1>1. ASSUME NEW w \in Webhooks, RetryFailedDeliveries(w) PROVE IInv'
    <2>1. PICK d \in Retriable(w) : TRUE
      BY <1>1 DEF RetryFailedDeliveries
    <2>. QED
      BY <1>1, <2>1, RepeatIInv DEF Retriable, Recorded
  <1>2. ASSUME NEW w \in Webhooks, NEW d \in DOMAIN delivery, ProcessDelivery(w, d) PROVE IInv'
    BY <1>2, RepeatIInv
  <1>3. ASSUME NEW event \in Events, DispatchEvent(event) PROVE IInv'
    BY <1>3, DispatchIInv
  <1>4. ASSUME NEW w \in Webhooks, SendTestEvent(w) PROVE IInv'
    BY <1>4, DispatchIInv, WebhookAssumption DEF SendTestEvent
  <1>5. ASSUME NEW w \in Webhooks, DeleteWebhook(w) \/ Age(w) PROVE IInv'
    BY <1>5, WebhooksIInv
  <1>6. ASSUME NEW w \in Webhooks, NEW url \in Urls, NEW events \in SUBSET Events,
               NEW active \in BOOLEAN, NEW limit \in Limits,
               CreateWebhook(w, url, events, active, limit)
               \/ UpdateWebhook(w, url, events, active, limit)
        PROVE  IInv'
    BY <1>6, WebhooksIInv
  <1>7. CASE UNCHANGED vars
    BY <1>7 DEF vars, IInv, RowOK, Numbered, AcceptedLast, Tells, DeliveriesHaveWebhooks, Recorded
  <1>. QED
    BY <1>1, <1>2, <1>3, <1>4, <1>5, <1>6, <1>7, CleanUpIInv DEF Next

\* The rows and histories have their types.
THEOREM TypeCorrect == Spec => []TypeOK
  BY IInvImplies, InitIInv, NextIInv, PTL DEF Spec

\* X-Webhook-Attempt numbers the POSTs of every delivery 1, 2, 3, ...
THEOREM Numbering == Spec => []AttemptsNumbered
  BY IInvImplies, InitIInv, NextIInv, PTL DEF Spec

\* What a receiver has accepted is not posted again.
THEOREM AcceptedOnce == Spec => []NothingAfterSuccess
  BY IInvImplies, InitIInv, NextIInv, PTL DEF Spec

\* A row's status is the outcome of its last attempt.
THEOREM LedgerTruthful == Spec => []StatusTellsLastAttempt
  BY IInvImplies, InitIInv, NextIInv, PTL DEF Spec

\* No delivery outlives its webhook.
THEOREM NoOrphans == Spec => []DeliveriesHaveWebhooks
  <1>1. IInv => DeliveriesHaveWebhooks
    BY DEF IInv
  <1>. QED
    BY <1>1, InitIInv, NextIInv, PTL DEF Spec
=============================================================================

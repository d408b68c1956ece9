------------------------ MODULE NotificationDelivery ------------------------
(***************************************************************************)
(* How a notification gets from a request to its recipient's client:       *)
(* NotificationService (core/notification_service.py) commits a row,       *)
(* publishes it to Redis and sends it to the client if it is connected to  *)
(* the same worker; every worker's _redis_listener (core/websocket.py)     *)
(* forwards what it receives to the client if it is connected there.       *)
(*                                                                         *)
(* All notifications are for one recipient, who has one client; the client *)
(* may lose its connection and come back to any worker.  What a worker     *)
(* does with several sockets is ConnectionManager's subject; here a send   *)
(* to the client's only socket is one step.  The Redis client is the       *)
(* oldest the build accepts (redis 5): it does not retry a command.        *)
(***************************************************************************)
EXTENDS Naturals, Sequences, Functions

CONSTANTS
    Notifications,
    Workers,
    Nowhere,        \* the client is not connected
    Local,          \* the path of send_personal_message in the sender's worker
    MaxConnects     \* bound: connections that the client makes

ASSUME DeliveryAssumption ==
    /\ Nowhere \notin Workers /\ Local \notin Workers
    /\ MaxConnects \in Nat \ {0}

Paths == Workers \cup {Local}

VARIABLES
    stored,     \* notifications whose row is committed
    sender,     \* send_notification: "idle", "committed", "published", "ended",
                \* or "failed", of which only a warning in the log tells
    origin,     \* the worker that runs it
    listener,   \* of each worker: "subscribing", "listening", "ended", or
                \* "down" when the worker itself is
    inbox,      \* what Redis has pushed to each listener's connection
    log,        \* history: everything published, in order
    conn,       \* the worker the client is connected to
    epoch,      \* the number of that connection
    due,        \* history: the client's connection to the origin at commit, or 0
    received    \* <<notification, path>>: what the client got, in order

vars == <<stored, sender, origin, listener, inbox, log, conn, epoch, due, received>>
sending == <<sender, origin, due>>
redis   == <<listener, inbox>>
client  == <<conn, epoch>>

Up == {w \in Workers : listener[w] # "down"}

TypeOK ==
    /\ stored \in SUBSET Notifications
    /\ sender \in [Notifications -> {"idle", "committed", "published", "ended", "failed"}]
    /\ origin \in [Notifications -> Workers \cup {Nowhere}]
    /\ listener \in [Workers -> {"down", "subscribing", "listening", "ended"}]
    /\ inbox \in [Workers -> Seq(Notifications)]
    /\ log \in Seq(Notifications)
    /\ conn \in Up \cup {Nowhere}
    /\ epoch \in 0..MaxConnects
    /\ due \in [Notifications -> 0..MaxConnects]
    /\ received \in Seq(Notifications \X Paths)

Init ==
    /\ stored = {}
    /\ sender = [n \in Notifications |-> "idle"]
    /\ origin = [n \in Notifications |-> Nowhere]
    /\ listener = [w \in Workers |-> "subscribing"]
    /\ inbox = [w \in Workers |-> <<>>]
    /\ log = <<>> /\ received = <<>>
    /\ conn = Nowhere /\ epoch = 0
    /\ due = [n \in Notifications |-> 0]

-----------------------------------------------------------------------------
(* send_notification                                                       *)

\* The row is flushed and committed, in worker w.
Commit(n, w) ==
    /\ sender[n] = "idle" /\ w \in Up
    /\ stored' = stored \cup {n}
    /\ sender' = [sender EXCEPT ![n] = "committed"]
    /\ origin' = [origin EXCEPT ![n] = w]
    /\ due' = [due EXCEPT ![n] = IF conn = w THEN epoch ELSE 0]
    /\ UNCHANGED <<redis, log, client, received>>

\* Redis hands a message to every subscriber.
Pushed(n) == [w \in Workers |-> IF listener[w] = "listening" THEN Append(inbox[w], n)
                                ELSE inbox[w]]

\* Mutant: the message goes out before its row is committed.
PublishEarly(n) ==
    /\ sender[n] = "idle"
    /\ \E w \in Up :
          /\ origin' = [origin EXCEPT ![n] = w]
          /\ sender' = [sender EXCEPT ![n] = "published"]
    /\ inbox' = Pushed(n)
    /\ log' = Append(log, n)
    /\ UNCHANGED <<stored, due, listener, client, received>>

\* publish_notification.
Publish(n) ==
    /\ sender[n] = "committed"
    /\ sender' = [sender EXCEPT ![n] = "published"]
    /\ inbox' = Pushed(n)
    /\ log' = Append(log, n)
    /\ UNCHANGED <<stored, origin, due, listener, client, received>>

\* It raises: _broadcast_notification logs a warning and does nothing more.
\* The connection may have been lost before the command or only its reply.
PublishFails(n) ==
    /\ sender[n] = "committed"
    /\ sender' = [sender EXCEPT ![n] = "failed"]
    /\ \/ inbox' = inbox /\ log' = log
       \/ inbox' = Pushed(n) /\ log' = Append(log, n)
    /\ UNCHANGED <<stored, origin, due, listener, client, received>>

Deliver(n, path) == received' = Append(received, <<n, path>>)

\* Mutant: the publisher trusts its own listener with the local client.
SendToListenerOnly(n) ==
    /\ sender[n] = "published"
    /\ sender' = [sender EXCEPT ![n] = "ended"]
    /\ UNCHANGED <<stored, origin, due, redis, log, client, received>>

\* send_personal_message in the same worker, if the client is there by now.
SendLocally(n) ==
    /\ sender[n] = "published"
    /\ sender' = [sender EXCEPT ![n] = "ended"]
    /\ IF conn = origin[n] THEN Deliver(n, Local) ELSE UNCHANGED received
    /\ UNCHANGED <<stored, origin, due, redis, log, client>>

-----------------------------------------------------------------------------
(* The workers' listeners                                                  *)

\* The application serves requests before its listener has subscribed.
Subscribe(w) ==
    /\ listener[w] = "subscribing"
    /\ listener' = [listener EXCEPT ![w] = "listening"]
    /\ UNCHANGED <<stored, sending, inbox, log, client, received>>

\* Mutant: a message is not taken off when it has been forwarded.
DispatchAndKeep(w) ==
    /\ inbox[w] # <<>>
    /\ conn = w /\ Deliver(Head(inbox[w]), w)
    /\ UNCHANGED <<stored, sending, redis, log, client>>

\* Mutant: messages are forwarded in batches of two.
DispatchBatches(w) ==
    /\ Len(inbox[w]) > 1
    /\ inbox' = [inbox EXCEPT ![w] = SubSeq(@, 3, Len(@))]
    /\ IF conn = w THEN received' = received \o <<<<inbox[w][1], w>>, <<inbox[w][2], w>>>>
       ELSE UNCHANGED received
    /\ UNCHANGED <<stored, sending, listener, log, client>>

\* Mutant: messages are handed to tasks, which finish in any order.
DispatchInAnyOrder(w) ==
    /\ \E i \in DOMAIN inbox[w] :
          /\ inbox' = [inbox EXCEPT ![w] = SubSeq(@, 1, i - 1) \o SubSeq(@, i + 1, Len(@))]
          /\ IF conn = w THEN Deliver(inbox[w][i], w) ELSE UNCHANGED received
    /\ UNCHANGED <<stored, sending, listener, log, client>>

\* The listener takes its next message and forwards it to the client, if the
\* client is connected to this worker.
Dispatch(w) ==
    /\ inbox[w] # <<>>
    /\ inbox' = [inbox EXCEPT ![w] = Tail(@)]
    /\ IF conn = w THEN Deliver(Head(inbox[w]), w) ELSE UNCHANGED received
    /\ UNCHANGED <<stored, sending, listener, log, client>>

-----------------------------------------------------------------------------
(* The client                                                              *)

Connect(w) ==
    /\ conn = Nowhere /\ w \in Up /\ epoch < MaxConnects
    /\ conn' = w /\ epoch' = epoch + 1
    /\ UNCHANGED <<stored, sending, redis, log, received>>

Disconnect ==
    /\ conn # Nowhere
    /\ conn' = Nowhere
    /\ UNCHANGED <<stored, sending, redis, log, epoch, received>>

-----------------------------------------------------------------------------
(* Failures                                                                *)

\* A listener's loop raises, in subscribe(), listen() or a send: its task
\* ends, its connection is closed, and the worker goes on without it.
ListenerEnds(w) ==
    /\ listener[w] \in {"subscribing", "listening"}
    /\ listener' = [listener EXCEPT ![w] = "ended"]
    /\ inbox' = [inbox EXCEPT ![w] = <<>>]
    /\ UNCHANGED <<stored, sending, log, client, received>>

\* A worker dies, with its requests, its listener and its sockets ...
Crash(w) ==
    /\ w \in Up
    /\ listener' = [listener EXCEPT ![w] = "down"]
    /\ inbox' = [inbox EXCEPT ![w] = <<>>]
    /\ sender' = [n \in Notifications |->
                   IF origin[n] = w /\ sender[n] # "ended" THEN "failed" ELSE sender[n]]
    /\ conn' = IF conn = w THEN Nowhere ELSE conn
    /\ UNCHANGED <<stored, origin, due, log, epoch, received>>

\* ... and a new process takes its place.
Restart(w) ==
    /\ listener[w] = "down"
    /\ listener' = [listener EXCEPT ![w] = "subscribing"]
    /\ UNCHANGED <<stored, sending, inbox, log, client, received>>

-----------------------------------------------------------------------------
Next ==
    \/ \E n \in Notifications :
          \/ \E w \in Workers : Commit(n, w)
          \/ Publish(n) \/ PublishFails(n) \/ SendLocally(n)
    \/ \E w \in Workers :
          \/ Subscribe(w) \/ Dispatch(w) \/ Connect(w)
          \/ ListenerEnds(w) \/ Crash(w) \/ Restart(w)
    \/ Disconnect

\* The event loop resumes the request and the listener when Redis answers.
Fairness ==
    /\ \A n \in Notifications : WF_vars(Publish(n)) /\ WF_vars(SendLocally(n))
    /\ \A w \in Workers : WF_vars(Subscribe(w)) /\ WF_vars(Dispatch(w))

Spec == Init /\ [][Next]_vars /\ Fairness

-----------------------------------------------------------------------------
(* Correctness                                                             *)

Got(n) == \E p \in Paths : <<n, p>> \in Range(received)

\* What a client was ever shown, or a listener still holds, is in the
\* database: the client can fetch, read and delete it.
ShownIsStored ==
    /\ \A n \in Notifications : Got(n) => n \in stored
    /\ \A w \in Workers : Range(inbox[w]) \subseteq stored

\* No path delivers a notification twice, so that a client gets at most one
\* copy from the sending worker and one from each listener it was connected
\* to; it does get all of these when it comes back in time.
OncePerPath == IsInjective(received)

\* What one listener forwards arrives in the order of publication, through
\* reconnections and restarts of the listener's worker.
Position(n) == CHOOSE i \in DOMAIN log : log[i] = n
ListenersKeepOrder ==
    \A i, j \in DOMAIN received :
        i < j /\ received[i][2] = received[j][2] /\ received[i][2] \in Workers
            => Position(received[i][1]) < Position(received[j][1])

\* notification_service.py:138: the sender also serves "any locally-connected
\* client".  One that was connected to the sending worker at the commit, and
\* still is when the send has ended, has got the notification.  A send whose
\* publication fails serves nobody.
LocalClientsServed ==
    \A n \in Notifications :
        sender[n] = "ended" /\ conn # Nowhere /\ due[n] = epoch => Got(n)

\* What a listener holds for a client that stays is delivered at last.
ListenersDeliver ==
    \A n \in Notifications, w \in Workers :
        n \in Range(inbox[w]) ~> (Got(n) \/ conn # w \/ listener[w] # "listening")
=============================================================================

------------------------- MODULE ConnectionManager -------------------------
(***************************************************************************)
(* One worker process's WebSocket hub: the ConnectionManager singleton     *)
(* (core/websocket.py), the endpoint coroutine of every socket             *)
(* (api/v1/ws.py), the Redis pub/sub listener and the heartbeat loop, all  *)
(* of them tasks of one asyncio event loop.                                *)
(*                                                                         *)
(* A step is what one task runs between two awaits.  The asyncio lock is   *)
(* not a variable: no section it guards awaits anything, so it is never    *)
(* contended and each section is part of one step.  What the lock does NOT *)
(* cover is the loop of _broadcast_to_set, which iterates the pool itself  *)
(* (not a copy) and awaits a send for every element.                       *)
(***************************************************************************)
EXTENDS Naturals, FiniteSets

CONSTANTS
    Sockets,        \* WebSocket objects; each one connects at most once
    Users,          \* user ids (the token's "sub")
    Rooms,          \* keys of _workspace_connections
    Global,         \* the key "_global" of sockets without a workspace
    Owner,          \* Owner[s]: the user that socket s authenticates as
    Room,           \* Room[s]: the room s is registered under
    Callers,        \* HTTP requests that call send_personal_message
    Listener,       \* the task running _redis_listener
    Heartbeat,      \* the task running _heartbeat_loop
    Nobody,         \* "no socket"
    RedisMayFail,   \* may the pub/sub connection raise?
    Broadcasters    \* bound: the tasks that send in this instance

Tasks == Sockets \cup Callers \cup {Listener, Heartbeat}

ASSUME SocketsAssumption ==
    /\ IsFiniteSet(Sockets)
    /\ Owner \in [Sockets -> Users]
    /\ Room \in [Sockets -> Rooms]
    /\ Nobody \notin Sockets
ASSUME TasksAssumption ==
    /\ Listener \notin Sockets \cup Callers \cup {Heartbeat}
    /\ Heartbeat \notin Sockets \cup Callers
    /\ Sockets \cap Callers = {}
    /\ RedisMayFail \in BOOLEAN
    /\ Broadcasters \subseteq Tasks

VARIABLES
    phase,      \* the application: "new", "running", "stopping", "stopped"
    endpoint,   \* where each socket's endpoint coroutine is
    alive,      \* is the client still at the other end?
    owned,      \* sockets with an entry in _connection_owner
    userKeys,   \* keys of the dict _user_connections
    userConns,  \* user -> set of sockets ({} where there is no key)
    roomKeys,   \* keys of the dict _workspace_connections
    roomConns,  \* room -> set of sockets ({} where there is no key)
    listener,   \* "off", "subscribing", "listening", "ended"
    heartbeat,  \* "off", "beating", "ended"
    task        \* the _broadcast_to_set activation of each task

vars == <<phase, endpoint, alive, owned, userKeys, userConns, roomKeys,
          roomConns, listener, heartbeat, task>>
pools == <<owned, userKeys, userConns, roomKeys, roomConns>>

-----------------------------------------------------------------------------
(* What a task iterates over: the set object of a pool entry, a private    *)
(* copy, or a pool's set object after its entry was deleted.               *)

UserPool(u) == [kind |-> "user", key |-> u]
RoomPool(r) == [kind |-> "room", key |-> r]
Copy        == [kind |-> "copy", key |-> Nobody]
Detached    == [kind |-> "detached", key |-> Nobody]

Sources == {UserPool(u) : u \in Users} \cup {RoomPool(r) : r \in Rooms}
           \cup {Copy, Detached}

\* No broadcast in progress: the value of task[t] between two of them.
Idle == [src |-> Copy, start |-> {}, seen |-> {}, cur |-> Nobody, stale |-> {}]

Busy(t) == task[t].cur # Nobody

\* The current contents of the set that task t iterates over.
Live(t) ==
    CASE task[t].src.kind = "user" -> userConns[task[t].src.key]
      [] task[t].src.kind = "room" -> roomConns[task[t].src.key]
      [] task[t].src.kind = "copy" -> task[t].start
      [] OTHER -> {}

Activations == [src : Sources, start : SUBSET Sockets, seen : SUBSET Sockets,
                cur : Sockets \cup {Nobody}, stale : SUBSET Sockets]

TypeOK ==
    /\ phase \in {"new", "running", "stopping", "stopped"}
    /\ endpoint \in [Sockets -> {"new", "accepting", "welcoming", "serving", "done"}]
    /\ alive \in [Sockets -> BOOLEAN]
    /\ owned \in SUBSET Sockets
    /\ userKeys \in SUBSET Users
    /\ userConns \in [Users -> SUBSET Sockets]
    /\ roomKeys \in SUBSET Rooms
    /\ roomConns \in [Rooms -> SUBSET Sockets]
    /\ listener \in {"off", "subscribing", "listening", "ended"}
    /\ heartbeat \in {"off", "beating", "ended"}
    /\ task \in [Tasks -> Activations]

Init ==
    /\ phase = "new"
    /\ endpoint = [s \in Sockets |-> "new"]
    /\ alive = [s \in Sockets |-> FALSE]
    /\ owned = {} /\ userKeys = {} /\ roomKeys = {}
    /\ userConns = [u \in Users |-> {}]
    /\ roomConns = [r \in Rooms |-> {}]
    /\ listener = "off" /\ heartbeat = "off"
    /\ task = [t \in Tasks |-> Idle]

-----------------------------------------------------------------------------
(* The three critical sections of the lock.                                *)

\* connect: the section that enters socket s in both pools and in the owner map.
Register(s) ==
    /\ owned' = owned \cup {s}
    /\ userKeys' = userKeys \cup {Owner[s]}
    /\ userConns' = [userConns EXCEPT ![Owner[s]] = @ \cup {s}]
    /\ roomKeys' = roomKeys \cup {Room[s]}
    /\ roomConns' = [roomConns EXCEPT ![Room[s]] = @ \cup {s}]

\* Deleting a pool entry leaves those who iterate its set with an empty set.
Detach(activation, deleted) ==
    [t \in Tasks |-> IF activation[t].src \in deleted
                     THEN [activation[t] EXCEPT !.src = Detached]
                     ELSE activation[t]]

\* Mutant: a room's entry is deleted only when s still has an owner.
DeletedRoomsIfOwned(s) ==
    {r \in {Room[s]} : s \in owned /\ r \in roomKeys /\ roomConns[r] \subseteq {s}}

\* The entries that disconnect(s) deletes: the owner's pool, when s still has
\* an owner, and the room's pool, in either case only when s was its last.
DeletedUsers(s) ==
    {u \in {Owner[s]} : s \in owned /\ u \in userKeys /\ userConns[u] \subseteq {s}}
DeletedRooms(s) ==
    {r \in {Room[s]} : r \in roomKeys /\ roomConns[r] \subseteq {s}}

\* Mutant: disconnect reads the owner without popping it.
UnregisterKeepsOwner(s, activation) ==
    /\ userConns' = IF s \in owned
                    THEN [userConns EXCEPT ![Owner[s]] = @ \ {s}]
                    ELSE userConns
    /\ userKeys' = userKeys \ DeletedUsers(s)
    /\ roomConns' = [roomConns EXCEPT ![Room[s]] = @ \ {s}]
    /\ roomKeys' = roomKeys \ DeletedRooms(s)
    /\ task' = Detach(activation, {UserPool(u) : u \in DeletedUsers(s)}
                                  \cup {RoomPool(r) : r \in DeletedRooms(s)})
    /\ UNCHANGED owned

\* disconnect: the section that removes socket s; "activation" is the value
\* the tasks have after the rest of the step.
Unregister(s, activation) ==
    /\ owned' = owned \ {s}
    /\ userConns' = IF s \in owned
                    THEN [userConns EXCEPT ![Owner[s]] = @ \ {s}]
                    ELSE userConns
    /\ userKeys' = userKeys \ DeletedUsers(s)
    /\ roomConns' = [roomConns EXCEPT ![Room[s]] = @ \ {s}]
    /\ roomKeys' = roomKeys \ DeletedRooms(s)
    /\ task' = Detach(activation, {UserPool(u) : u \in DeletedUsers(s)}
                                  \cup {RoomPool(r) : r \in DeletedRooms(s)})

\* Mutant: the clean-up forgets the room pools.
CleanUpUsersOnly(stale) ==
    /\ owned' = owned \ stale
    /\ userConns' = [u \in Users |->
                       userConns[u] \ {s \in stale : s \in owned /\ Owner[s] = u}]
    /\ UNCHANGED <<userKeys, roomKeys, roomConns>>

\* The clean-up of stale sockets in _broadcast_to_set and _heartbeat_loop.
\* It discards them from the pools but, unlike disconnect, keeps the entries
\* of pools it empties.
CleanUp(stale) ==
    /\ owned' = owned \ stale
    /\ userConns' = [u \in Users |->
                       userConns[u] \ {s \in stale : s \in owned /\ Owner[s] = u}]
    /\ roomConns' = [r \in Rooms |-> roomConns[r] \ stale]
    /\ UNCHANGED <<userKeys, roomKeys>>

-----------------------------------------------------------------------------
(* Application startup and shutdown.                                       *)

Initialize ==
    /\ phase = "new"
    /\ phase' = "running" /\ listener' = "subscribing" /\ heartbeat' = "beating"
    /\ UNCHANGED <<endpoint, alive, pools, task>>

\* shutdown cancels the listener first and waits for it ...
CancelListener ==
    /\ phase = "running"
    /\ phase' = "stopping" /\ listener' = "ended"
    /\ task' = [task EXCEPT ![Listener] = Idle]
    /\ UNCHANGED <<endpoint, alive, pools, heartbeat>>

\* ... then the heartbeat.  A cancelled send runs no clean-up.
CancelHeartbeat ==
    /\ phase = "stopping"
    /\ phase' = "stopped" /\ heartbeat' = "ended"
    /\ task' = [task EXCEPT ![Heartbeat] = Idle]
    /\ UNCHANGED <<endpoint, alive, pools, listener>>

-----------------------------------------------------------------------------
(* A socket's endpoint coroutine, and its client.                          *)

\* The client opens the socket; its token is valid, and accept() is awaited.
Open(s) ==
    /\ phase = "running" /\ endpoint[s] = "new"
    /\ endpoint' = [endpoint EXCEPT ![s] = "accepting"]
    /\ alive' = [alive EXCEPT ![s] = TRUE]
    /\ UNCHANGED <<phase, pools, listener, heartbeat, task>>

\* The client goes away, at any moment.
ClientLeaves(s) ==
    /\ alive[s]
    /\ alive' = [alive EXCEPT ![s] = FALSE]
    /\ UNCHANGED <<phase, endpoint, pools, listener, heartbeat, task>>

\* accept() raises: the endpoint ends, outside its try block.
AcceptFails(s) ==
    /\ endpoint[s] = "accepting" /\ ~alive[s]
    /\ endpoint' = [endpoint EXCEPT ![s] = "done"]
    /\ UNCHANGED <<phase, alive, pools, listener, heartbeat, task>>

\* accept() returns; the socket is registered and the welcome message sent.
\* The client may already have left.
Connect(s) ==
    /\ endpoint[s] = "accepting"
    /\ Register(s)
    /\ endpoint' = [endpoint EXCEPT ![s] = "welcoming"]
    /\ UNCHANGED <<phase, alive, listener, heartbeat, task>>

\* The welcome message is out, or failed and the failure was suppressed.
Welcomed(s) ==
    /\ endpoint[s] = "welcoming"
    /\ endpoint' = [endpoint EXCEPT ![s] = "serving"]
    /\ UNCHANGED <<phase, alive, pools, listener, heartbeat, task>>

\* receive_text, or the reply to a heartbeat, a ping or an unknown message,
\* raises because the client has left; the finally clause disconnects.
Disconnect(s) ==
    /\ endpoint[s] = "serving" /\ ~Busy(s) /\ ~alive[s]
    /\ Unregister(s, task)
    /\ endpoint' = [endpoint EXCEPT ![s] = "done"]
    /\ UNCHANGED <<phase, alive, listener, heartbeat>>

-----------------------------------------------------------------------------
(* Sending.                                                                *)

\* Task t starts _broadcast_to_set(conns): the first send is awaited.  With
\* no connections the method returns at once and nothing happens.
Begin(t, source, conns) ==
    /\ t \in Broadcasters /\ ~Busy(t)
    /\ \E s \in conns :
          task' = [task EXCEPT ![t] = [src |-> source, start |-> conns,
                                       seen |-> {}, cur |-> s, stale |-> {}]]
    /\ UNCHANGED <<phase, endpoint, alive, pools, listener, heartbeat>>

AllConnections == UNION {userConns[u] : u \in Users}

SendPersonalMessage(t, u)  == Begin(t, UserPool(u), userConns[u])
\* Mutant: every connection of the worker gets a workspace's message.
BroadcastToEveryRoom(t, r) == Begin(t, RoomPool(r), AllConnections)
BroadcastToWorkspace(t, r) == Begin(t, RoomPool(r), roomConns[r])
BroadcastGlobal(t)         == Begin(t, Copy, AllConnections)

\* The client sends "typing" or "status_update".
Relay(s) ==
    /\ endpoint[s] = "serving" /\ alive[s]
    /\ \/ Room[s] # Global /\ BroadcastToWorkspace(s, Room[s])
       \/ Room[s] = Global /\ BroadcastGlobal(s)

\* A request delivers a notification to the locally connected sockets.
Notify(c) ==
    /\ phase = "running"
    /\ \E u \in Users : SendPersonalMessage(c, u)

\* The listener takes a message off the channels and forwards it.
Dispatch ==
    /\ phase = "running" /\ listener = "listening"
    /\ \/ \E u \in Users : SendPersonalMessage(Listener, u)
       \/ \E r \in Rooms \ {Global} : BroadcastToWorkspace(Listener, r)
       \/ BroadcastGlobal(Listener)

\* The heartbeat loop wakes up and pings a copy of all connections.
Beat ==
    /\ phase = "running" /\ heartbeat = "beating"
    /\ Begin(Heartbeat, Copy, AllConnections)

\* Mutant: a slow send to a healthy client counts as stale.
SentOrTimedOut(t) ==
    LET sent == [task[t] EXCEPT !.seen = @ \cup {task[t].cur}]
    IN {sent, [sent EXCEPT !.stale = @ \cup {task[t].cur}]}

\* What t's activation can be once the awaited send is over: the send may
\* fail only when the client has left, and may succeed (buffered) even then.
Sent(t) ==
    LET sent == [task[t] EXCEPT !.seen = @ \cup {task[t].cur}]
    IN {sent} \cup (IF alive[task[t].cur] THEN {}
                    ELSE {[sent EXCEPT !.stale = @ \cup {task[t].cur}]})

\* Python's set iterator compares the set's size with the size at the start.
SizeChanged(t) == Cardinality(Live(t)) # Cardinality(task[t].start)

\* Mutant: the loop starts over instead of going on.
SendAgain(t) ==
    /\ Busy(t) /\ ~SizeChanged(t)
    /\ \E a \in Sent(t) : \E s \in Live(t) :
          task' = [task EXCEPT ![t] = [a EXCEPT !.cur = s]]
    /\ UNCHANGED <<phase, endpoint, alive, pools, listener, heartbeat>>

\* The iterator yields another element.
SendNext(t) ==
    /\ Busy(t) /\ ~SizeChanged(t)
    /\ \E a \in Sent(t) : \E s \in Live(t) \ a.seen :
          task' = [task EXCEPT ![t] = [a EXCEPT !.cur = s]]
    /\ UNCHANGED <<phase, endpoint, alive, pools, listener, heartbeat>>

\* The iterator is exhausted: stale sockets are removed.  A set that changed
\* and has its old size again may have been rehashed, and then elements that
\* were not visited may lie behind the iterator.
Finish(t) ==
    /\ Busy(t) /\ ~SizeChanged(t)
    /\ \E a \in Sent(t) :
          /\ Live(t) \subseteq a.seen \/ Live(t) # task[t].start
          /\ CleanUp(a.stale)
    /\ task' = [task EXCEPT ![t] = Idle]
    /\ UNCHANGED <<phase, endpoint, alive, listener, heartbeat>>

\* "Set changed size during iteration": RuntimeError, without the clean-up.
\* The endpoint of a relaying client ends, and the server closes its socket.
RelayRaises(s) ==
    /\ Busy(s) /\ SizeChanged(s)
    /\ Unregister(s, [task EXCEPT ![s] = Idle])
    /\ endpoint' = [endpoint EXCEPT ![s] = "done"]
    /\ alive' = [alive EXCEPT ![s] = FALSE]
    /\ UNCHANGED <<phase, listener, heartbeat>>

\* _broadcast_notification logs the error and the request goes on.
NotifyRaises(c) ==
    /\ Busy(c) /\ SizeChanged(c)
    /\ task' = [task EXCEPT ![c] = Idle]
    /\ UNCHANGED <<phase, endpoint, alive, pools, listener, heartbeat>>

\* The outer handler of _redis_listener logs the error, and the task ends.
DispatchRaises ==
    /\ Busy(Listener) /\ SizeChanged(Listener)
    /\ task' = [task EXCEPT ![Listener] = Idle]
    /\ listener' = "ended"
    /\ UNCHANGED <<phase, endpoint, alive, pools, heartbeat>>

-----------------------------------------------------------------------------
(* The pub/sub connection.                                                 *)

Subscribe ==
    /\ listener = "subscribing"
    /\ listener' = "listening"
    /\ UNCHANGED <<phase, endpoint, alive, pools, heartbeat, task>>

\* subscribe() or listen() raises: again the listener's task ends.
RedisFails ==
    /\ RedisMayFail
    /\ listener \in {"subscribing", "listening"} /\ ~Busy(Listener)
    /\ listener' = "ended"
    /\ UNCHANGED <<phase, endpoint, alive, pools, heartbeat, task>>

-----------------------------------------------------------------------------
EndpointStep(s) ==
    \/ Open(s) \/ ClientLeaves(s) \/ AcceptFails(s) \/ Connect(s)
    \/ Welcomed(s) \/ Disconnect(s) \/ Relay(s) \/ RelayRaises(s)

Next ==
    \/ Initialize \/ CancelListener \/ CancelHeartbeat
    \/ \E s \in Sockets : EndpointStep(s)
    \/ \E c \in Callers : Notify(c) \/ NotifyRaises(c)
    \/ Subscribe \/ RedisFails \/ Dispatch \/ DispatchRaises \/ Beat
    \/ \E t \in Tasks : SendNext(t) \/ Finish(t)

\* The event loop resumes every task whose await is over, and every await on
\* a socket is over at last: the server's own ping ends a dead transport.
Fairness ==
    /\ \A s \in Sockets : WF_vars(Connect(s) \/ AcceptFails(s)) /\ WF_vars(Welcomed(s))
                          /\ WF_vars(Disconnect(s)) /\ WF_vars(RelayRaises(s))
    /\ \A c \in Callers : WF_vars(NotifyRaises(c))
    /\ \A t \in Tasks : WF_vars(SendNext(t) \/ Finish(t))
    /\ WF_vars(DispatchRaises)

Spec == Init /\ [][Next]_vars /\ Fairness

-----------------------------------------------------------------------------
(* Correctness.                                                            *)

Serving(s) == endpoint[s] \in {"welcoming", "serving"}

\* The owner map, the user pools and the room pools always list the same
\* sockets, each under its own user and its own room, and an entry with a
\* socket in it is never missing from its dict.  connect, disconnect and two
\* clean-ups maintain the three structures separately.
PoolsAgree ==
    /\ \A u \in Users : userConns[u] = {s \in owned : Owner[s] = u}
    /\ \A r \in Rooms : roomConns[r] = {s \in owned : Room[s] = r}
    /\ \A s \in owned : Owner[s] \in userKeys /\ Room[s] \in roomKeys

\* A client that is there and is being served is registered, whatever
\* broadcasts and clean-ups by other tasks did meanwhile; a socket whose
\* endpoint has not started or has ended is registered nowhere.
RegisteredWhileServed ==
    \A s \in Sockets : /\ Serving(s) /\ alive[s] => s \in owned
                       /\ ~Serving(s) => s \notin owned

\* A room's entry outlives the last endpoint of the room in no interleaving
\* of disconnects and clean-ups: _workspace_connections does not leak.
RoomEntriesBounded ==
    roomKeys \subseteq {Room[s] : s \in {x \in Sockets : Serving(x)}}

\* A message for a user, or for a room, is only ever on its way to sockets
\* of that user, or room, even while the pool changes under the iterator.
AddressedOnly ==
    \A t \in Tasks : Busy(t) =>
        LET reached == task[t].seen \cup {task[t].cur}
            src == task[t].src
        IN /\ src.kind = "user" => \A s \in reached : Owner[s] = src.key
           /\ src.kind = "room" => \A s \in reached : Room[s] = src.key

\* Every broadcast ends: its loop follows a set that others change, yet it
\* cannot go on for ever, and it is never left waiting for a send.
BroadcastsEnd == \A t \in Tasks : Busy(t) ~> ~Busy(t)

\* The registry that the lifecycle specification speaks of.
Status == [s \in Sockets |->
             IF s \in owned THEN "registered"
             ELSE IF endpoint[s] \in {"new", "accepting"} THEN "unknown"
             ELSE "forgotten"]

Lifecycle == INSTANCE SocketLifecycle WITH status <- Status

\* The registry implements that specification: a socket enters at most once,
\* only one without a client leaves (never one whose client is only slow), and
\* no broadcast that still holds a socket brings it back.
LifecycleSafety == Lifecycle!Safety

\* Every client that has left is forgotten at last, whether or not the
\* listener and the heartbeat still run and whatever failed meanwhile.
LifecycleForgets == Lifecycle!Forgets

\* websocket.py:353 says that every worker's listener picks a published
\* message up: the listener of a running application has not ended.
ListenerKeepsListening == phase = "running" => listener # "ended"
=============================================================================

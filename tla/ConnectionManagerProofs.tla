---------------------- MODULE ConnectionManagerProofs ----------------------
(***************************************************************************)
(* The safety of ConnectionManager for every set of sockets, users, rooms  *)
(* and tasks.  IInv strengthens the invariants that the hub_ runs check by *)
(* three facts: sockets that a broadcast holds for stale have lost their   *)
(* client, no broadcast knows a socket that has not been opened, and a     *)
(* relaying endpoint is still in its message loop.                         *)
(***************************************************************************)
EXTENDS ConnectionManager, TLAPS

StaleAreGone == \A t \in Tasks : \A s \in task[t].stale : ~alive[s]

OpenedOnly ==
    \A t \in Tasks :
        /\ \A s \in task[t].start \cup task[t].stale : endpoint[s] # "new"
        /\ Busy(t) => endpoint[task[t].cur] # "new"

RelaysAreServed == \A s \in Sockets : Busy(s) => endpoint[s] = "serving"

IInv ==
    /\ TypeOK
    /\ PoolsAgree
    /\ RegisteredWhileServed
    /\ RoomEntriesBounded
    /\ AddressedOnly
    /\ StaleAreGone
    /\ OpenedOnly
    /\ RelaysAreServed

-----------------------------------------------------------------------------
\* Task names: endpoints, callers, the listener and the heartbeat are tasks.
LEMMA TaskNames ==
    /\ Sockets \subseteq Tasks /\ Callers \subseteq Tasks
    /\ Listener \in Tasks /\ Heartbeat \in Tasks
    /\ Listener \notin Sockets /\ Heartbeat \notin Sockets
    /\ \A c \in Callers : c \notin Sockets
  BY TasksAssumption DEF Tasks

\* Between two broadcasts a task holds no socket.
LEMMA IdleIsActivation ==
    Idle \in Activations /\ Idle.cur = Nobody /\ Idle.start = {} /\ Idle.stale = {}
  BY DEF Idle, Activations, Sources

\* What a task iterates over are sockets.
LEMMA LiveAreSockets ==
    ASSUME TypeOK, NEW t \in Tasks
    PROVE  Live(t) \in SUBSET Sockets
  <1>1. task[t] \in Activations
    BY DEF TypeOK
  <1>2. task[t].src \in Sources
    BY <1>1 DEF Activations
  <1>3. CASE \E u \in Users : task[t].src = UserPool(u)
    BY <1>3 DEF Live, UserPool, TypeOK
  <1>4. CASE \E r \in Rooms : task[t].src = RoomPool(r)
    BY <1>4 DEF Live, RoomPool, TypeOK
  <1>5. CASE task[t].src \in {Copy, Detached}
    BY <1>1, <1>5 DEF Live, Copy, Detached, Activations
  <1>. QED
    BY <1>2, <1>3, <1>4, <1>5 DEF Sources

\* The elements of a live pool are addressed by its source.
LEMMA LiveAreAddressed ==
    ASSUME TypeOK, PoolsAgree, NEW t \in Tasks, NEW s \in Live(t)
    PROVE  /\ task[t].src.kind = "user" => Owner[s] = task[t].src.key
           /\ task[t].src.kind = "room" => Room[s] = task[t].src.key
  <1>1. task[t].src \in Sources
    BY DEF TypeOK, Activations
  <1>2. CASE \E u \in Users : task[t].src = UserPool(u)
    BY <1>2 DEF Live, UserPool, PoolsAgree
  <1>3. CASE \E r \in Rooms : task[t].src = RoomPool(r)
    BY <1>3 DEF Live, RoomPool, PoolsAgree
  <1>4. CASE task[t].src \in {Copy, Detached}
    BY <1>4 DEF Copy, Detached
  <1>. QED
    BY <1>1, <1>2, <1>3, <1>4 DEF Sources

\* Detaching changes nothing of an activation but its source.
LEMMA DetachKeeps ==
    ASSUME NEW a \in [Tasks -> Activations], NEW D, NEW t \in Tasks
    PROVE  /\ Detach(a, D) \in [Tasks -> Activations]
           /\ Detach(a, D)[t].cur = a[t].cur
           /\ Detach(a, D)[t].seen = a[t].seen
           /\ Detach(a, D)[t].start = a[t].start
           /\ Detach(a, D)[t].stale = a[t].stale
           /\ \/ Detach(a, D)[t].src = a[t].src
              \/ Detach(a, D)[t].src.kind = "detached"
  <1>1. Detached \in Sources /\ Detached.kind = "detached"
    BY DEF Detached, Sources
  <1>2. \A x \in Activations : [x EXCEPT !.src = Detached] \in Activations
    BY <1>1 DEF Activations
  <1>3. \A x \in Tasks : a[x] \in Activations
    OBVIOUS
  <1>4. Detach(a, D) \in [Tasks -> Activations]
    BY <1>2, <1>3 DEF Detach
  <1>5. a[t] \in Activations
    OBVIOUS
  <1>. QED
    BY <1>1, <1>4, <1>5 DEF Detach, Activations

\* A send leaves a well-formed activation that has seen one more socket and
\* holds only sockets without a client for stale.
LEMMA SentIsActivation ==
    ASSUME TypeOK, StaleAreGone, OpenedOnly,
           NEW t \in Tasks, Busy(t), NEW a \in Sent(t)
    PROVE  /\ a \in Activations
           /\ a.src = task[t].src /\ a.cur = task[t].cur /\ a.start = task[t].start
           /\ a.seen = task[t].seen \cup {task[t].cur}
           /\ \A s \in a.stale : s \in Sockets /\ ~alive[s] /\ endpoint[s] # "new"
  <1>. DEFINE sent == [task[t] EXCEPT !.seen = @ \cup {task[t].cur}]
              failed == [sent EXCEPT !.stale = @ \cup {task[t].cur}]
  <1>1. task[t] \in Activations /\ task[t].cur \in Sockets /\ endpoint[task[t].cur] # "new"
    BY DEF TypeOK, Activations, Busy, OpenedOnly
  <1>2. \A s \in task[t].stale : s \in Sockets /\ ~alive[s] /\ endpoint[s] # "new"
    BY <1>1 DEF StaleAreGone, OpenedOnly, Activations
  <1>3. /\ sent \in Activations
        /\ sent.src = task[t].src /\ sent.cur = task[t].cur /\ sent.start = task[t].start
        /\ sent.seen = task[t].seen \cup {task[t].cur}
        /\ sent.stale = task[t].stale
    BY <1>1 DEF Activations
  <1>4. /\ failed \in Activations
        /\ failed.src = sent.src /\ failed.cur = sent.cur /\ failed.start = sent.start
        /\ failed.seen = sent.seen
        /\ failed.stale = sent.stale \cup {task[t].cur}
    <2>. HIDE DEF sent
    <2>. QED BY <1>1, <1>3 DEF Activations
  <1>5. a = sent \/ (~alive[task[t].cur] /\ a = failed)
    BY DEF Sent
  <1>. HIDE DEF sent, failed
  <1>6. CASE a = sent
    BY <1>2, <1>3, <1>6
  <1>7. CASE ~alive[task[t].cur] /\ a = failed
    BY <1>1, <1>2, <1>3, <1>4, <1>7
  <1>. QED
    BY <1>5, <1>6, <1>7

-----------------------------------------------------------------------------
(* Kinds of step.                                                          *)

\* What the part of IInv about one task's activation a says.
ActivationOK(t, a) ==
    /\ a \in Activations
    /\ \A s \in a.stale : ~alive[s]
    /\ \A s \in a.start \cup a.stale : endpoint[s] # "new"
    /\ a.cur # Nobody =>
         /\ endpoint[a.cur] # "new"
         /\ a.src.kind = "user" => \A s \in a.seen \cup {a.cur} : Owner[s] = a.src.key
         /\ a.src.kind = "room" => \A s \in a.seen \cup {a.cur} : Room[s] = a.src.key
         /\ t \in Sockets => endpoint[t] = "serving"

\* Nothing is asked of a task that is not sending.
LEMMA IdleOK == ASSUME NEW t PROVE ActivationOK(t, Idle)
  BY IdleIsActivation DEF ActivationOK

\* What the invariant says of one task.
LEMMA TasksOK ==
    ASSUME IInv, NEW t \in Tasks
    PROVE  ActivationOK(t, task[t])
  <1>1. task[t] \in Activations
    BY DEF IInv, TypeOK
  <1>. QED
    BY <1>1 DEF IInv, ActivationOK, AddressedOnly, StaleAreGone, OpenedOnly, RelaysAreServed, Busy

\* A step that changes only one task, and perhaps the phase, the listener's
\* state or the heartbeat's.
LEMMA TaskStep ==
    ASSUME IInv, NEW t \in Tasks, NEW a, ActivationOK(t, a),
           task' = [task EXCEPT ![t] = a],
           UNCHANGED <<endpoint, alive, pools>>,
           phase' \in {"new", "running", "stopping", "stopped"},
           listener' \in {"off", "subscribing", "listening", "ended"},
           heartbeat' \in {"off", "beating", "ended"}
    PROVE  IInv'
  <1>1. task \in [Tasks -> Activations] /\ a \in Activations
    BY DEF IInv, TypeOK, ActivationOK
  <1>2. \A x \in Tasks : task'[x] = IF x = t THEN a ELSE task[x]
    BY <1>1
  <1>3. \A x \in Tasks : ActivationOK(x, task'[x])
    BY <1>2, TasksOK
  <1>4. TypeOK'
    BY <1>1 DEF IInv, TypeOK, pools
  <1>5. PoolsAgree' /\ RegisteredWhileServed' /\ RoomEntriesBounded'
    BY DEF IInv, PoolsAgree, RegisteredWhileServed, RoomEntriesBounded, Serving, pools
  <1>6. AddressedOnly' /\ StaleAreGone' /\ OpenedOnly' /\ RelaysAreServed'
    BY <1>3, TaskNames
       DEF ActivationOK, AddressedOnly, StaleAreGone, OpenedOnly, RelaysAreServed, Busy
  <1>. QED
    BY <1>4, <1>5, <1>6 DEF IInv

\* Pools and copies hold only sockets that were opened.
LEMMA LiveAreOpened ==
    ASSUME IInv, NEW t \in Tasks, NEW s \in Live(t)
    PROVE  endpoint[s] # "new"
  <1>1. \A x \in owned : x \in Sockets /\ endpoint[x] # "new"
    BY DEF IInv, TypeOK, RegisteredWhileServed, Serving
  <1>2. task[t].src \in Sources
    BY DEF IInv, TypeOK, Activations
  <1>3. CASE \E u \in Users : task[t].src = UserPool(u)
    BY <1>1, <1>3 DEF Live, UserPool, IInv, PoolsAgree
  <1>4. CASE \E r \in Rooms : task[t].src = RoomPool(r)
    BY <1>1, <1>4 DEF Live, RoomPool, IInv, PoolsAgree
  <1>5. CASE task[t].src \in {Copy, Detached}
    BY <1>5 DEF Live, Copy, Detached, IInv, OpenedOnly
  <1>. QED
    BY <1>2, <1>3, <1>4, <1>5 DEF Sources

\* A broadcast starts on sockets that its source addresses.
LEMMA BeginStep ==
    ASSUME IInv, NEW t \in Tasks, NEW source \in Sources, NEW conns \in SUBSET Sockets,
           \A s \in conns : /\ source.kind = "user" => Owner[s] = source.key
                            /\ source.kind = "room" => Room[s] = source.key,
           conns \subseteq owned,
           t \in Sockets => endpoint[t] = "serving",
           Begin(t, source, conns)
    PROVE  IInv'
  <1>1. PICK s \in conns :
          task' = [task EXCEPT ![t] = [src |-> source, start |-> conns,
                                       seen |-> {}, cur |-> s, stale |-> {}]]
    BY DEF Begin
  <1>. DEFINE a == [src |-> source, start |-> conns, seen |-> {}, cur |-> s, stale |-> {}]
  <1>2. \A x \in conns : endpoint[x] # "new"
    BY DEF IInv, TypeOK, RegisteredWhileServed, Serving
  <1>3. ActivationOK(t, a)
    BY <1>2 DEF ActivationOK, Activations
  <1>4. UNCHANGED <<phase, endpoint, alive, pools, listener, heartbeat>>
    BY DEF Begin
  <1>. QED
    BY <1>1, <1>3, <1>4, TaskStep DEF IInv, TypeOK

\* broadcast_global and the heartbeat copy registered sockets only.
LEMMA AllConnectionsAreSockets ==
    ASSUME TypeOK, PoolsAgree
    PROVE  AllConnections \in SUBSET Sockets /\ AllConnections \subseteq owned
  BY DEF TypeOK, PoolsAgree, AllConnections

\* send_personal_message starts on the pool of the user it is for.
LEMMA SendPersonalMessageStep ==
    ASSUME IInv, NEW t \in Tasks, NEW u \in Users, SendPersonalMessage(t, u),
           t \in Sockets => endpoint[t] = "serving"
    PROVE  IInv'
  <1>1. UserPool(u) \in Sources /\ UserPool(u).kind = "user" /\ UserPool(u).key = u
    BY DEF Sources, UserPool
  <1>2. userConns[u] \in SUBSET Sockets /\ userConns[u] \subseteq owned /\ \A s \in userConns[u] : Owner[s] = u
    BY DEF IInv, TypeOK, PoolsAgree
  <1>. QED
    BY <1>1, <1>2, BeginStep DEF SendPersonalMessage

\* broadcast_to_workspace starts on the pool of its room.
LEMMA BroadcastToWorkspaceStep ==
    ASSUME IInv, NEW t \in Tasks, NEW r \in Rooms, BroadcastToWorkspace(t, r),
           t \in Sockets => endpoint[t] = "serving"
    PROVE  IInv'
  <1>1. RoomPool(r) \in Sources /\ RoomPool(r).kind = "room" /\ RoomPool(r).key = r
    BY DEF Sources, RoomPool
  <1>2. roomConns[r] \in SUBSET Sockets /\ roomConns[r] \subseteq owned /\ \A s \in roomConns[r] : Room[s] = r
    BY DEF IInv, TypeOK, PoolsAgree
  <1>. QED
    BY <1>1, <1>2, BeginStep DEF BroadcastToWorkspace

\* A broadcast over a private copy: broadcast_global and the heartbeat.
LEMMA CopyStep ==
    ASSUME IInv, NEW t \in Tasks, Begin(t, Copy, AllConnections),
           t \in Sockets => endpoint[t] = "serving"
    PROVE  IInv'
  <1>1. Copy \in Sources /\ Copy.kind = "copy"
    BY DEF Sources, Copy
  <1>2. AllConnections \in SUBSET Sockets /\ AllConnections \subseteq owned
    BY AllConnectionsAreSockets DEF IInv
  <1>. QED
    BY <1>1, <1>2, BeginStep

\* The iterator goes on to an element of the set it iterates.
LEMMA SendNextStep ==
    ASSUME IInv, NEW t \in Tasks, SendNext(t)
    PROVE  IInv'
  <1>1. PICK a \in Sent(t) : \E s \in Live(t) \ a.seen :
          task' = [task EXCEPT ![t] = [a EXCEPT !.cur = s]]
    BY DEF SendNext
  <1>2. PICK s \in Live(t) \ a.seen : task' = [task EXCEPT ![t] = [a EXCEPT !.cur = s]]
    BY <1>1
  <1>3. Busy(t) /\ UNCHANGED <<phase, endpoint, alive, pools, listener, heartbeat>>
    BY DEF SendNext
  <1>4. /\ a \in Activations /\ a.src = task[t].src
        /\ a.start = task[t].start /\ a.seen = task[t].seen \cup {task[t].cur}
        /\ \A x \in a.stale : ~alive[x] /\ endpoint[x] # "new"
    BY <1>3, SentIsActivation DEF IInv
  <1>5. s \in Sockets /\ endpoint[s] # "new"
    BY LiveAreSockets, LiveAreOpened DEF IInv
  <1>. DEFINE b == [a EXCEPT !.cur = s]
  <1>6. b \in Activations /\ b.src = a.src /\ b.start = a.start
        /\ b.seen = a.seen /\ b.stale = a.stale /\ b.cur = s
    BY <1>4, <1>5 DEF Activations
  <1>7. /\ task[t].src.kind = "user" => Owner[s] = task[t].src.key
        /\ task[t].src.kind = "room" => Room[s] = task[t].src.key
    BY LiveAreAddressed DEF IInv
  <1>8. ActivationOK(t, task[t]) /\ task[t].cur # Nobody
    BY <1>3, TasksOK DEF Busy
  <1>. HIDE DEF b
  <1>9. ActivationOK(t, b)
    BY <1>4, <1>5, <1>6, <1>7, <1>8 DEF ActivationOK
  <1>10. task' = [task EXCEPT ![t] = b]
    BY <1>2 DEF b
  <1>. QED
    BY <1>3, <1>9, <1>10, TaskStep DEF IInv, TypeOK

-----------------------------------------------------------------------------
(* Steps that change the pools.                                            *)

\* Any step that gives every task an acceptable activation keeps the part of
\* the invariant that is about tasks.
LEMMA TasksStep ==
    ASSUME TypeOK', \A t \in Tasks : ActivationOK(t, task[t])'
    PROVE  AddressedOnly' /\ StaleAreGone' /\ OpenedOnly' /\ RelaysAreServed'
  BY TaskNames DEF ActivationOK, AddressedOnly, StaleAreGone, OpenedOnly, RelaysAreServed, Busy

\* connect enters a socket that is nowhere in all three structures.
LEMMA ConnectStep ==
    ASSUME IInv, NEW s \in Sockets, Connect(s)
    PROVE  IInv'
  <1>. USE DEF Connect, Register
  <1>1. Owner[s] \in Users /\ Room[s] \in Rooms
    BY SocketsAssumption
  <1>2. TypeOK'
    BY <1>1 DEF IInv, TypeOK
  <1>3. PoolsAgree'
    <2>1. \A u \in Users : userConns'[u] = {x \in owned' : Owner[x] = u}
      BY <1>1 DEF IInv, TypeOK, PoolsAgree
    <2>2. \A r \in Rooms : roomConns'[r] = {x \in owned' : Room[x] = r}
      BY <1>1 DEF IInv, TypeOK, PoolsAgree
    <2>3. \A x \in owned' : Owner[x] \in userKeys' /\ Room[x] \in roomKeys'
      BY DEF IInv, PoolsAgree
    <2>. QED
      BY <2>1, <2>2, <2>3 DEF PoolsAgree
  <1>4. \A x \in Sockets : endpoint'[x] = IF x = s THEN "welcoming" ELSE endpoint[x]
    BY DEF IInv, TypeOK
  <1>5. RegisteredWhileServed'
    BY <1>4 DEF IInv, RegisteredWhileServed, Serving
  <1>6. RoomEntriesBounded'
    BY <1>4 DEF IInv, RoomEntriesBounded, Serving
  <1>7. \A t \in Tasks : ActivationOK(t, task[t])'
    BY <1>4, TasksOK DEF ActivationOK
  <1>. QED
    BY <1>2, <1>3, <1>5, <1>6, <1>7, TasksStep DEF IInv

\* disconnect, in the message loop's finally clause: of a client that left,
\* or of a client whose relay raised.
LEMMA UnregisterStep ==
    ASSUME IInv, NEW s \in Sockets, NEW a \in [Tasks -> Activations],
           endpoint[s] = "serving",
           \A t \in Tasks : ActivationOK(t, a[t]),
           a[s].cur = Nobody,
           Unregister(s, a),
           endpoint' = [endpoint EXCEPT ![s] = "done"],
           alive' \in {alive, [alive EXCEPT ![s] = FALSE]},
           UNCHANGED <<phase, listener, heartbeat>>
    PROVE  IInv'
  <1>1. Owner[s] \in Users /\ Room[s] \in Rooms
    BY SocketsAssumption
  <1>2. task' \in [Tasks -> Activations]
    BY TaskNames, DetachKeeps DEF Unregister
  <1>3. TypeOK'
    BY <1>1, <1>2 DEF IInv, TypeOK, Unregister
  <1>4. PoolsAgree'
    <2>1. \A u \in Users : userConns'[u] = {x \in owned' : Owner[x] = u}
      BY <1>1 DEF IInv, TypeOK, PoolsAgree, Unregister
    <2>2. \A r \in Rooms : roomConns'[r] = {x \in owned' : Room[x] = r}
      BY <1>1 DEF IInv, TypeOK, PoolsAgree, Unregister
    <2>3. ASSUME NEW x \in owned' PROVE Owner[x] \in userKeys' /\ Room[x] \in roomKeys'
      <3>1. x \in owned /\ x # s /\ x \in Sockets
        BY DEF Unregister, IInv, TypeOK
      <3>2. Owner[x] \in Users /\ Room[x] \in Rooms
        BY <3>1, SocketsAssumption
      <3>3. x \in userConns[Owner[x]] /\ x \in roomConns[Room[x]]
        BY <3>1, <3>2 DEF IInv, PoolsAgree
      <3>4. Owner[x] \notin DeletedUsers(s) /\ Room[x] \notin DeletedRooms(s)
        BY <3>1, <3>3 DEF DeletedUsers, DeletedRooms
      <3>. QED
        BY <3>1, <3>4 DEF Unregister, IInv, PoolsAgree
    <2>. QED
      BY <2>1, <2>2, <2>3 DEF PoolsAgree
  <1>5. \A x \in Sockets : endpoint'[x] = IF x = s THEN "done" ELSE endpoint[x]
    BY DEF IInv, TypeOK
  <1>6. RegisteredWhileServed'
    BY <1>5 DEF IInv, TypeOK, RegisteredWhileServed, Serving, Unregister
  <1>7. RoomEntriesBounded'
    <2>. SUFFICES ASSUME NEW r \in roomKeys'
                  PROVE  \E x \in Sockets : Serving(x)' /\ Room[x] = r
      BY DEF RoomEntriesBounded
    <2>1. r \in roomKeys /\ r \notin DeletedRooms(s) /\ r \in Rooms
      BY DEF Unregister, IInv, TypeOK
    <2>2. PICK x \in Sockets : Serving(x) /\ Room[x] = r
      BY <2>1 DEF IInv, RoomEntriesBounded
    <2>3. CASE x # s
      BY <1>5, <2>2, <2>3 DEF Serving
    <2>4. CASE x = s
      <3>1. ~(roomConns[r] \subseteq {s})
        BY <2>1, <2>2, <2>4 DEF DeletedRooms
      <3>2. PICK y \in roomConns[r] : y # s
        BY <3>1
      <3>3. y \in Sockets /\ y \in owned /\ Room[y] = r
        BY <2>1, <3>2 DEF IInv, TypeOK, PoolsAgree
      <3>4. Serving(y)
        BY <3>3 DEF IInv, RegisteredWhileServed
      <3>. QED
        BY <1>5, <3>2, <3>3, <3>4 DEF Serving
    <2>. QED
      BY <2>3, <2>4
  <1>8. ASSUME NEW t \in Tasks PROVE ActivationOK(t, task[t])'
    <2>1. /\ task'[t] \in Activations
          /\ task'[t].cur = a[t].cur /\ task'[t].seen = a[t].seen
          /\ task'[t].start = a[t].start
          /\ task'[t].stale = a[t].stale
          /\ task'[t].src = a[t].src \/ task'[t].src.kind = "detached"
      BY DetachKeeps DEF Unregister
    <2>2. \A x \in Sockets : ~alive[x] => ~alive'[x]
      BY DEF IInv, TypeOK
    <2>3. ActivationOK(t, a[t])
      OBVIOUS
    <2>4. \A x \in task'[t].stale : ~alive'[x]
      BY <2>1, <2>2, <2>3 DEF ActivationOK, Activations
    <2>5. task'[t].cur # Nobody /\ t \in Sockets => endpoint'[t] = "serving"
      BY <1>5, <2>1, <2>3 DEF ActivationOK
    <2>. QED
      BY <2>1, <2>3, <2>4, <2>5 DEF ActivationOK
  <1>. QED
    BY <1>3, <1>4, <1>6, <1>7, <1>8, TasksStep DEF IInv

\* The clean-up after a broadcast removes only sockets without a client.
LEMMA FinishStep ==
    ASSUME IInv, NEW t \in Tasks, Finish(t)
    PROVE  IInv'
  <1>1. PICK a \in Sent(t) : CleanUp(a.stale)
    BY DEF Finish
  <1>2. /\ Busy(t) /\ task' = [task EXCEPT ![t] = Idle]
        /\ UNCHANGED <<phase, endpoint, alive, listener, heartbeat>>
    BY DEF Finish
  <1>3. \A s \in a.stale : s \in Sockets /\ ~alive[s]
    BY <1>2, SentIsActivation DEF IInv
  <1>4. TypeOK'
    BY <1>1, <1>2, IdleIsActivation DEF IInv, TypeOK, CleanUp
  <1>5. PoolsAgree'
    BY <1>1 DEF IInv, TypeOK, PoolsAgree, CleanUp
  <1>6. RegisteredWhileServed' /\ RoomEntriesBounded'
    BY <1>1, <1>2, <1>3 DEF IInv, RegisteredWhileServed, RoomEntriesBounded, Serving, CleanUp
  <1>7. \A x \in Tasks : task'[x] = IF x = t THEN Idle ELSE task[x]
    BY <1>2 DEF IInv, TypeOK
  <1>8. \A x \in Tasks : ActivationOK(x, task[x])'
    BY <1>2, <1>7, TasksOK, IdleOK DEF ActivationOK
  <1>. QED
    BY <1>4, <1>5, <1>6, <1>8, TasksStep DEF IInv

-----------------------------------------------------------------------------
(* The inductive invariant.                                                *)

\* The invariant holds of a worker that has not started.
LEMMA InitIInv == Init => IInv
  <1>. SUFFICES ASSUME Init PROVE IInv
    OBVIOUS
  <1>1. TypeOK
    BY IdleIsActivation DEF Init, TypeOK
  <1>2. PoolsAgree /\ RegisteredWhileServed /\ RoomEntriesBounded
    BY DEF Init, PoolsAgree, RegisteredWhileServed, RoomEntriesBounded, Serving
  <1>3. \A t \in Tasks : task[t] = Idle
    BY DEF Init
  <1>4. AddressedOnly /\ StaleAreGone /\ OpenedOnly /\ RelaysAreServed
    BY <1>3, IdleIsActivation, TaskNames DEF AddressedOnly, StaleAreGone, OpenedOnly, RelaysAreServed, Busy
  <1>. QED
    BY <1>1, <1>2, <1>4 DEF IInv

\* A task stops sending without a clean-up: cancelled, or its send raised.
LEMMA StopStep ==
    ASSUME IInv, NEW t \in Tasks, task' = [task EXCEPT ![t] = Idle],
           UNCHANGED <<endpoint, alive, pools>>,
           phase' \in {"new", "running", "stopping", "stopped"},
           listener' \in {"off", "subscribing", "listening", "ended"},
           heartbeat' \in {"off", "beating", "ended"}
    PROVE  IInv'
  BY IdleOK, TaskStep

\* A step that changes neither tasks nor sockets.
LEMMA PhaseStep ==
    ASSUME IInv, UNCHANGED <<endpoint, alive, pools, task>>,
           phase' \in {"new", "running", "stopping", "stopped"},
           listener' \in {"off", "subscribing", "listening", "ended"},
           heartbeat' \in {"off", "beating", "ended"}
    PROVE  IInv'
  BY DEF IInv, TypeOK, PoolsAgree, RegisteredWhileServed, RoomEntriesBounded, Serving,
         AddressedOnly, StaleAreGone, OpenedOnly, RelaysAreServed, Busy, pools

\* A socket's endpoint or client moves outside the pools: the registered
\* stay served, and a client that leaves stays gone.
LEMMA SocketStep ==
    ASSUME IInv, NEW s \in Sockets,
           Open(s) \/ ClientLeaves(s) \/ AcceptFails(s) \/ Welcomed(s)
    PROVE  IInv'
  <1>. USE DEF Open, ClientLeaves, AcceptFails, Welcomed
  <1>1. TypeOK'
    BY DEF IInv, TypeOK, pools
  <1>2. PoolsAgree'
    BY DEF IInv, PoolsAgree, pools
  <1>3. \A x \in Sockets : Serving(x)' <=> Serving(x)
    BY DEF IInv, TypeOK, Serving
  <1>4. \A x \in Sockets : /\ endpoint[x] = "serving" => endpoint'[x] = "serving"
                           /\ endpoint[x] # "new" => endpoint'[x] # "new"
    BY DEF IInv, TypeOK
  <1>5. \A x \in Sockets : ~alive[x] => ~alive'[x] \/ endpoint[x] = "new"
    BY DEF IInv, TypeOK
  <1>6. RegisteredWhileServed'
    BY <1>3, <1>5 DEF IInv, RegisteredWhileServed, Serving, pools
  <1>7. RoomEntriesBounded'
    BY <1>3 DEF IInv, RoomEntriesBounded, pools
  <1>8. ASSUME NEW t \in Tasks PROVE ActivationOK(t, task[t])'
    <2>1. ActivationOK(t, task[t]) /\ task'[t] = task[t]
      BY TasksOK
    <2>2. task[t] \in Activations
      BY <2>1 DEF ActivationOK
    <2>3. \A x \in task[t].start \cup task[t].stale : x \in Sockets
      BY <2>2 DEF Activations
    <2>4. task[t].cur # Nobody => task[t].cur \in Sockets
      BY <2>2 DEF Activations
    <2>5. \A x \in task[t].stale : ~alive'[x]
      BY <1>5, <2>1, <2>3 DEF ActivationOK
    <2>6. \A x \in task[t].start \cup task[t].stale : endpoint'[x] # "new"
      BY <1>4, <2>1, <2>3 DEF ActivationOK
    <2>. QED
      BY <1>4, <2>1, <2>4, <2>5, <2>6 DEF ActivationOK
  <1>. QED
    BY <1>1, <1>2, <1>6, <1>7, <1>8, TasksStep DEF IInv

\* Every step of every task preserves the invariant.
LEMMA NextIInv == IInv /\ [Next]_vars => IInv'
  <1>. SUFFICES ASSUME IInv, [Next]_vars PROVE IInv'
    OBVIOUS
  <1>. USE TaskNames
  <1>1. CASE Initialize
    BY <1>1, PhaseStep DEF Initialize, IInv, TypeOK
  <1>2. CASE CancelListener
    BY <1>2, StopStep DEF CancelListener, IInv, TypeOK
  <1>3. CASE CancelHeartbeat
    BY <1>3, StopStep DEF CancelHeartbeat, IInv, TypeOK
  <1>4. ASSUME NEW s \in Sockets, EndpointStep(s) PROVE IInv'
    <2>1. CASE Open(s) \/ ClientLeaves(s) \/ AcceptFails(s) \/ Welcomed(s)
      BY <2>1, SocketStep
    <2>2. CASE Connect(s)
      BY <2>2, ConnectStep
    <2>3. CASE Disconnect(s)
      <3>1. task \in [Tasks -> Activations] /\ task[s].cur = Nobody
        BY <2>3 DEF Disconnect, Busy, IInv, TypeOK
      <3>2. \A t \in Tasks : ActivationOK(t, task[t])
        BY TasksOK
      <3>. QED
        BY <2>3, <3>1, <3>2, UnregisterStep DEF Disconnect
    <2>4. CASE Relay(s)
      <3>1. endpoint[s] = "serving" /\ Room[s] \in Rooms
        BY <2>4, SocketsAssumption DEF Relay
      <3>2. CASE BroadcastToWorkspace(s, Room[s])
        BY <3>1, <3>2, BroadcastToWorkspaceStep
      <3>3. CASE BroadcastGlobal(s)
        BY <3>1, <3>3, CopyStep DEF BroadcastGlobal
      <3>. QED
        BY <2>4, <3>2, <3>3 DEF Relay
    <2>5. CASE RelayRaises(s)
      <3>. DEFINE a == [task EXCEPT ![s] = Idle]
      <3>1. a \in [Tasks -> Activations] /\ a[s].cur = Nobody
        BY IdleIsActivation DEF IInv, TypeOK
      <3>2. \A t \in Tasks : a[t] = IF t = s THEN Idle ELSE task[t]
        BY DEF IInv, TypeOK
      <3>3. \A t \in Tasks : ActivationOK(t, a[t])
        BY <3>2, IdleOK, TasksOK
      <3>4. endpoint[s] = "serving"
        BY <2>5 DEF RelayRaises, IInv, RelaysAreServed
      <3>5. Unregister(s, a)
        BY <2>5 DEF RelayRaises
      <3>. HIDE DEF a
      <3>. QED
        BY <2>5, <3>1, <3>3, <3>4, <3>5, UnregisterStep DEF RelayRaises
    <2>. QED
      BY <1>4, <2>1, <2>2, <2>3, <2>4, <2>5 DEF EndpointStep
  <1>5. ASSUME NEW c \in Callers, Notify(c) \/ NotifyRaises(c) PROVE IInv'
    <2>1. CASE Notify(c)
      BY <2>1, SendPersonalMessageStep DEF Notify
    <2>2. CASE NotifyRaises(c)
      BY <2>2, StopStep DEF NotifyRaises, IInv, TypeOK
    <2>. QED
      BY <1>5, <2>1, <2>2
  <1>6. CASE Subscribe \/ RedisFails
    BY <1>6, PhaseStep DEF Subscribe, RedisFails, IInv, TypeOK
  <1>7. CASE Dispatch
    <2>1. CASE \E u \in Users : SendPersonalMessage(Listener, u)
      BY <2>1, SendPersonalMessageStep
    <2>2. CASE \E r \in Rooms \ {Global} : BroadcastToWorkspace(Listener, r)
      BY <2>2, BroadcastToWorkspaceStep
    <2>3. CASE BroadcastGlobal(Listener)
      BY <2>3, CopyStep DEF BroadcastGlobal
    <2>. QED
      BY <1>7, <2>1, <2>2, <2>3 DEF Dispatch
  <1>8. CASE DispatchRaises
    BY <1>8, StopStep DEF DispatchRaises, IInv, TypeOK
  <1>9. CASE Beat
    BY <1>9, CopyStep DEF Beat
  <1>10. ASSUME NEW t \in Tasks, SendNext(t) \/ Finish(t) PROVE IInv'
    BY <1>10, SendNextStep, FinishStep
  <1>11. CASE UNCHANGED vars
    BY <1>11, PhaseStep DEF vars, pools, IInv, TypeOK
  <1>12. CASE \E s \in Sockets : EndpointStep(s)
    BY <1>4, <1>12
  <1>13. CASE \E c \in Callers : Notify(c) \/ NotifyRaises(c)
    BY <1>5, <1>13
  <1>14. CASE \E t \in Tasks : SendNext(t) \/ Finish(t)
    BY <1>10, <1>14
  <1>. QED
    BY <1>1, <1>2, <1>3, <1>6, <1>7, <1>8, <1>9, <1>11, <1>12, <1>13, <1>14 DEF Next

\* Every reachable state of a worker satisfies the inductive invariant.
THEOREM Inductive == Spec => []IInv
  BY InitIInv, NextIInv, PTL DEF Spec

\* The types of the worker's state.
THEOREM TypeCorrect == Spec => []TypeOK
  <1>1. IInv => TypeOK
    BY DEF IInv
  <1>. QED
    BY <1>1, Inductive, PTL

\* connect, disconnect and the clean-ups keep the owner map and the two
\* families of pools in agreement.
THEOREM PoolsAlwaysAgree == Spec => []PoolsAgree
  <1>1. IInv => PoolsAgree
    BY DEF IInv
  <1>. QED
    BY <1>1, Inductive, PTL

\* A present, served client is registered; others are registered nowhere.
THEOREM ServedAreRegistered == Spec => []RegisteredWhileServed
  <1>1. IInv => RegisteredWhileServed
    BY DEF IInv
  <1>. QED
    BY <1>1, Inductive, PTL

\* The dict of room pools keeps no entry that no endpoint will delete.
THEOREM RoomsDoNotLeak == Spec => []RoomEntriesBounded
  <1>1. IInv => RoomEntriesBounded
    BY DEF IInv
  <1>. QED
    BY <1>1, Inductive, PTL

\* Broadcasts reach only the sockets they are addressed to.
THEOREM MessagesAreAddressed == Spec => []AddressedOnly
  <1>1. IInv => AddressedOnly
    BY DEF IInv
  <1>. QED
    BY <1>1, Inductive, PTL

-----------------------------------------------------------------------------
(* The hub implements SocketLifecycle.                                     *)

\* The abstract status of one socket, in this state and in the next.
LEMMA StatusValue ==
    /\ \A s \in Sockets : Status[s] = IF s \in owned THEN "registered"
                                      ELSE IF endpoint[s] \in {"new", "accepting"} THEN "unknown"
                                      ELSE "forgotten"
    /\ \A s \in Sockets : Status'[s] = IF s \in owned' THEN "registered"
                                       ELSE IF endpoint'[s] \in {"new", "accepting"} THEN "unknown"
                                       ELSE "forgotten"
  BY DEF Status

\* A step that changes neither owner map nor endpoint keeps the status.
LEMMA StatusKept ==
    ASSUME UNCHANGED <<endpoint, owned>>
    PROVE  UNCHANGED Status
  BY DEF Status

\* A client that opens a socket arrives.
LEMMA OpenRefines ==
    ASSUME IInv, NEW s \in Sockets, Open(s)
    PROVE  Lifecycle!Arrive(s)
  <1>1. endpoint[s] = "new" /\ endpoint' = [endpoint EXCEPT ![s] = "accepting"]
        /\ alive' = [alive EXCEPT ![s] = TRUE] /\ owned' = owned
    BY DEF Open, pools
  <1>2. s \notin owned
    BY <1>1 DEF IInv, RegisteredWhileServed, Serving
  <1>3. UNCHANGED Status
    BY <1>1, <1>2 DEF Status, IInv, TypeOK
  <1>4. Status[s] = "unknown"
    BY <1>1, <1>2, StatusValue
  <1>. QED
    BY <1>1, <1>3, <1>4 DEF Lifecycle!Arrive

\* A socket whose accept() fails is skipped by the registry.
LEMMA AcceptFailsRefines ==
    ASSUME IInv, NEW s \in Sockets, AcceptFails(s)
    PROVE  Lifecycle!Skip(s)
  <1>1. endpoint[s] = "accepting" /\ endpoint' = [endpoint EXCEPT ![s] = "done"]
        /\ ~alive[s] /\ alive' = alive /\ owned' = owned
    BY DEF AcceptFails, pools
  <1>2. s \notin owned
    BY <1>1 DEF IInv, RegisteredWhileServed, Serving
  <1>3. Status[s] = "unknown"
    BY <1>1, <1>2, StatusValue
  <1>4. Status' = [Status EXCEPT ![s] = "forgotten"]
    BY <1>1, <1>2 DEF Status, IInv, TypeOK
  <1>. QED
    BY <1>1, <1>3, <1>4 DEF Lifecycle!Skip

\* connect enters the socket in the registry.
LEMMA ConnectRefines ==
    ASSUME IInv, NEW s \in Sockets, Connect(s)
    PROVE  Lifecycle!Enter(s)
  <1>1. endpoint[s] = "accepting" /\ endpoint' = [endpoint EXCEPT ![s] = "welcoming"]
        /\ alive' = alive /\ owned' = owned \cup {s}
    BY DEF Connect, Register
  <1>2. s \notin owned
    BY <1>1 DEF IInv, RegisteredWhileServed, Serving
  <1>3. Status[s] = "unknown"
    BY <1>1, <1>2, StatusValue
  <1>4. Status' = [Status EXCEPT ![s] = "registered"]
    BY <1>1 DEF Status, IInv, TypeOK
  <1>. QED
    BY <1>1, <1>3, <1>4 DEF Lifecycle!Enter

\* Sockets without a client leave the owner map together.
LEMMA ForgetRefines ==
    ASSUME IInv, NEW S \in SUBSET owned, owned' = owned \ S,
           \A s \in S : endpoint'[s] \notin {"new", "accepting"} /\ ~alive'[s],
           \A s \in Sockets \ S : (endpoint'[s] \in {"new", "accepting"})
                                     <=> (endpoint[s] \in {"new", "accepting"}),
           alive' \in {alive} \cup {[alive EXCEPT ![s] = FALSE] : s \in S}
    PROVE  Lifecycle!Forget(S)
  <1>1. S \in SUBSET Sockets
    BY DEF IInv, TypeOK
  <1>2. \A s \in S : Status[s] = "registered"
    BY <1>1, StatusValue
  <1>3. Status' = [s \in Sockets |-> IF s \in S THEN "forgotten" ELSE Status[s]]
    BY <1>1 DEF Status
  <1>. QED
    BY <1>2, <1>3 DEF Lifecycle!Forget

\* The end of an endpoint in its message loop.
LEMMA UnregisterRefines ==
    ASSUME IInv, NEW s \in Sockets, endpoint[s] = "serving",
           endpoint' = [endpoint EXCEPT ![s] = "done"],
           owned' = owned \ {s}, ~alive'[s],
           alive' \in {alive, [alive EXCEPT ![s] = FALSE]}
    PROVE  [Lifecycle!Next]_Lifecycle!lifecycle
  <1>1. \A x \in Sockets : endpoint'[x] = IF x = s THEN "done" ELSE endpoint[x]
    BY DEF IInv, TypeOK
  <1>2. CASE s \in owned
    <2>1. Lifecycle!Forget({s})
      BY <1>1, <1>2, ForgetRefines
    <2>. QED
      BY <2>1 DEF Lifecycle!Next
  <1>3. CASE s \notin owned
    <2>1. ~alive[s]
      BY <1>3 DEF IInv, RegisteredWhileServed, Serving
    <2>2. alive' = alive /\ owned' = owned
      BY <1>3, <2>1 DEF IInv, TypeOK
    <2>3. UNCHANGED Status
      BY <1>1, <2>2 DEF Status
    <2>. QED
      BY <2>2, <2>3 DEF Lifecycle!lifecycle
  <1>. QED
    BY <1>2, <1>3

\* The clean-up after a broadcast forgets sockets without a client.
LEMMA FinishRefines ==
    ASSUME IInv, NEW t \in Tasks, Finish(t)
    PROVE  [Lifecycle!Next]_Lifecycle!lifecycle
  <1>1. PICK a \in Sent(t) : CleanUp(a.stale)
    BY DEF Finish
  <1>2. Busy(t) /\ endpoint' = endpoint /\ alive' = alive
    BY DEF Finish
  <1>3. \A s \in a.stale : s \in Sockets /\ ~alive[s]
    BY <1>2, SentIsActivation DEF IInv
  <1>. DEFINE S == a.stale \cap owned
  <1>4. S \in SUBSET Sockets /\ owned' = owned \ S /\ \A s \in S : ~alive[s]
    BY <1>1, <1>3 DEF CleanUp
  <1>5. \A s \in S : endpoint[s] \notin {"new", "accepting"}
    BY <1>4 DEF IInv, RegisteredWhileServed, Serving
  <1>6. Lifecycle!Forget(S)
    BY <1>2, <1>4, <1>5, ForgetRefines
  <1>. QED
    BY <1>4, <1>6 DEF Lifecycle!Next

\* Every step of the hub is a step of SocketLifecycle or a stutter.
LEMMA NextRefines == IInv /\ [Next]_vars => [Lifecycle!Next]_Lifecycle!lifecycle
  <1>. SUFFICES ASSUME IInv, [Next]_vars PROVE [Lifecycle!Next]_Lifecycle!lifecycle
    OBVIOUS
  <1>1. CASE UNCHANGED <<endpoint, alive, owned>>
    BY <1>1, StatusKept DEF Lifecycle!lifecycle
  <1>2. ASSUME NEW s \in Sockets, EndpointStep(s)
        PROVE  [Lifecycle!Next]_Lifecycle!lifecycle
    <2>1. CASE Open(s)
      BY <2>1, OpenRefines DEF Lifecycle!Next
    <2>2. CASE ClientLeaves(s)
      <3>1. Lifecycle!Depart(s)
        BY <2>2, StatusKept DEF ClientLeaves, pools, Lifecycle!Depart
      <3>. QED
        BY <3>1 DEF Lifecycle!Next
    <2>3. CASE AcceptFails(s)
      BY <2>3, AcceptFailsRefines DEF Lifecycle!Next
    <2>4. CASE Connect(s)
      BY <2>4, ConnectRefines DEF Lifecycle!Next
    <2>5. CASE Welcomed(s)
      <3>1. UNCHANGED Status /\ UNCHANGED alive
        BY <2>5 DEF Welcomed, Status, pools, IInv, TypeOK
      <3>. QED
        BY <3>1 DEF Lifecycle!lifecycle
    <2>6. CASE Disconnect(s)
      BY <2>6, UnregisterRefines DEF Disconnect, Unregister
    <2>7. CASE Relay(s)
      BY <1>1, <2>7 DEF Relay, BroadcastToWorkspace, BroadcastGlobal, Begin, pools
    <2>8. CASE RelayRaises(s)
      <3>1. endpoint[s] = "serving" /\ ~alive'[s]
        BY <2>8 DEF RelayRaises, IInv, RelaysAreServed, TypeOK
      <3>. QED
        BY <2>8, <3>1, UnregisterRefines DEF RelayRaises, Unregister
    <2>. QED
      BY <1>2, <2>1, <2>2, <2>3, <2>4, <2>5, <2>6, <2>7, <2>8 DEF EndpointStep
  <1>3. ASSUME NEW c \in Callers, Notify(c) \/ NotifyRaises(c)
        PROVE  UNCHANGED <<endpoint, alive, owned>>
    BY <1>3 DEF Notify, NotifyRaises, SendPersonalMessage, Begin, pools
  <1>4. ASSUME Initialize \/ CancelListener \/ CancelHeartbeat \/ Subscribe \/ RedisFails
        PROVE  UNCHANGED <<endpoint, alive, owned>>
    BY <1>4 DEF Initialize, CancelListener, CancelHeartbeat, Subscribe, RedisFails, pools
  <1>5. ASSUME Dispatch \/ DispatchRaises \/ Beat
        PROVE  UNCHANGED <<endpoint, alive, owned>>
    BY <1>5 DEF Dispatch, DispatchRaises, Beat, SendPersonalMessage, BroadcastToWorkspace,
                BroadcastGlobal, Begin, pools
  <1>6. ASSUME NEW t \in Tasks, SendNext(t) PROVE UNCHANGED <<endpoint, alive, owned>>
    BY <1>6 DEF SendNext, pools
  <1>7. CASE \E s \in Sockets : EndpointStep(s)
    BY <1>2, <1>7
  <1>8. CASE \E c \in Callers : Notify(c) \/ NotifyRaises(c)
    BY <1>1, <1>3, <1>8
  <1>9. CASE \E t \in Tasks : SendNext(t) \/ Finish(t)
    BY <1>1, <1>6, <1>9, FinishRefines
  <1>10. CASE UNCHANGED vars
    BY <1>1, <1>10 DEF vars
  <1>. QED
    BY <1>1, <1>4, <1>5, <1>7, <1>8, <1>9, <1>10 DEF Next

\* The worker's registry implements the safety of SocketLifecycle: sockets
\* enter once, leave only without a client, and never return.
THEOREM ImplementsLifecycle == Spec => LifecycleSafety
  <1>1. Init => Lifecycle!Init
    BY DEF Init, Lifecycle!Init, Status
  <1>. QED
    BY <1>1, NextRefines, Inductive, PTL DEF Spec, LifecycleSafety, Lifecycle!Safety
=============================================================================

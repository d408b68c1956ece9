--------------------- MODULE NotificationDeliveryProofs ---------------------
(***************************************************************************)
(* For any number of notifications and workers: what a client is shown is  *)
(* stored, once by every path and in order, and a client of the sender's   *)
(* own worker is not left out.                                             *)
(*                                                                         *)
(* The log of everything published orders it all.  What a listener holds   *)
(* lies in the order of the log, after everything that it has forwarded,   *)
(* so that the next forward comes after all earlier ones: that is the      *)
(* order, and once per path follows since the order is strict.  A crash    *)
(* empties an inbox and a restarted listener only receives what is         *)
(* published later, which keeps both.                                      *)
(***************************************************************************)
EXTENDS NotificationDelivery, TLAPS

\* Where a sequence has an element.
Pos(L, n) == CHOOSE i \in DOMAIN L : L[i] = n

\* A row is committed before anything else happens, and published at most once.
Stages ==
    /\ \A n \in Notifications :
        /\ sender[n] = "idle" => origin[n] = Nowhere
        /\ sender[n] # "idle" => n \in stored
        /\ n \in Range(log) => sender[n] \notin {"idle", "committed"}
    /\ IsInjective(log)

\* Listeners hold and forward what was published; the direct send is the last
\* step of a sender.
Sources ==
    /\ \A w \in Workers : Range(inbox[w]) \subseteq Range(log)
    /\ \A k \in DOMAIN received :
        /\ received[k][2] = Local => sender[received[k][1]] = "ended"
        /\ received[k][2] # Local => received[k][1] \in Range(log)

Ordered ==
    /\ \A w \in Workers : \A i, j \in DOMAIN inbox[w] :
        i < j => Pos(log, inbox[w][i]) < Pos(log, inbox[w][j])
    /\ \A w \in Workers : \A k \in DOMAIN received, i \in DOMAIN inbox[w] :
        received[k][2] = w => Pos(log, received[k][1]) < Pos(log, inbox[w][i])
    /\ \A i, j \in DOMAIN received :
        i < j /\ received[i][2] = received[j][2] /\ received[i][2] \in Workers
            => Pos(log, received[i][1]) < Pos(log, received[j][1])

LocalOnce == \A i, j \in DOMAIN received :
    received[i][2] = Local /\ received[i] = received[j] => i = j

\* A connection that was there at a commit, and still is, is to the origin.
StillThere ==
    /\ conn # Nowhere => epoch > 0
    /\ \A n \in Notifications :
        /\ due[n] <= epoch
        /\ conn # Nowhere /\ sender[n] # "idle" /\ due[n] = epoch => conn = origin[n]

IInv ==
    /\ TypeOK /\ Stages /\ Sources /\ Ordered /\ LocalOnce /\ StillThere
    /\ LocalClientsServed

-----------------------------------------------------------------------------
LEMMA PosOf ==
    ASSUME NEW L, IsInjective(L), NEW i \in DOMAIN L
    PROVE  Pos(L, L[i]) = i
  BY DEF Pos, IsInjective

\* What is appended comes last, and nothing else moves.
LEMMA PosAppend ==
    ASSUME NEW S, NEW L \in Seq(S), NEW n \in S, IsInjective(L), n \notin Range(L)
    PROVE  /\ IsInjective(Append(L, n))
           /\ Range(Append(L, n)) = Range(L) \cup {n}
           /\ \A m \in Range(L) : /\ Pos(Append(L, n), m) = Pos(L, m)
                                 /\ Pos(L, m) < Pos(Append(L, n), n)
  <1> DEFINE M == Append(L, n)
  <1>1. /\ DOMAIN M = 1 .. Len(L) + 1 /\ DOMAIN L = 1 .. Len(L) /\ Len(L) \in Nat
        /\ M[Len(L) + 1] = n
        /\ \A i \in DOMAIN L : i \in DOMAIN M /\ i <= Len(L) /\ M[i] = L[i]
        /\ \A i \in DOMAIN M : i \in DOMAIN L \/ i = Len(L) + 1
    OBVIOUS
  <1> HIDE DEF M
  <1>2. IsInjective(M)
    BY <1>1 DEF IsInjective, Range
  <1>3. Range(M) = Range(L) \cup {n}
    BY <1>1 DEF Range
  <1>4. ASSUME NEW m \in Range(L)
        PROVE  Pos(M, m) = Pos(L, m) /\ Pos(L, m) < Pos(M, n)
    <2>1. PICK i \in DOMAIN L : m = L[i]
      BY DEF Range
    <2>2. Pos(L, m) = i
      BY <2>1, PosOf
    <2>3. Pos(M, M[i]) = i /\ Pos(M, M[Len(L) + 1]) = Len(L) + 1
      BY <1>1, <1>2, <2>1, PosOf
    <2> QED
      BY <1>1, <2>1, <2>2, <2>3
  <1> QED
    BY <1>2, <1>3, <1>4 DEF M

LEMMA HeldIsLogged ==
    ASSUME Sources, NEW w \in Workers, NEW i \in DOMAIN inbox[w]
    PROVE  inbox[w][i] \in Range(log)
  BY DEF Sources, Range

\* What is appended to what the client got.
LEMMA GotOneMore ==
    ASSUME received \in Seq(Notifications \X Paths), NEW n \in Notifications, NEW path \in Paths,
           Deliver(n, path)
    PROVE  /\ received' \in Seq(Notifications \X Paths)
           /\ \A k \in DOMAIN received :
                k \in DOMAIN received' /\ received'[k] = received[k] /\ k < Len(received) + 1
           /\ Len(received) + 1 \in DOMAIN received'
           /\ received'[Len(received) + 1] = <<n, path>>
           /\ \A k \in DOMAIN received' : k \in DOMAIN received \/ k = Len(received) + 1
           /\ \A k \in DOMAIN received' : k \in Nat
  BY DEF Deliver

LEMMA GotStays ==
    ASSUME \A k \in DOMAIN received : k \in DOMAIN received' /\ received'[k] = received[k],
           NEW n \in Notifications, Got(n)
    PROVE  Got(n)'
  BY DEF Got, Range

LEMMA InitIInv == Init => IInv
  <1> SUFFICES ASSUME Init PROVE IInv
    OBVIOUS
  <1>1. TypeOK
    <2>1. <<>> \in Seq(Notifications) /\ <<>> \in Seq(Notifications \X Paths)
      OBVIOUS
    <2> QED
      BY <2>1, DeliveryAssumption DEF Init, TypeOK, Up
  <1>2. Stages /\ Sources /\ Ordered /\ LocalOnce
    BY DEF Init, Stages, Sources, Ordered, LocalOnce, Range, IsInjective
  <1>3. StillThere /\ LocalClientsServed
    BY DEF Init, StillThere, LocalClientsServed
  <1> QED
    BY <1>1, <1>2, <1>3 DEF IInv

-----------------------------------------------------------------------------
LEMMA CommitKeeps ==
    ASSUME IInv, NEW n \in Notifications, NEW w \in Workers, Commit(n, w)
    PROVE  IInv'
  <1> USE DeliveryAssumption DEF IInv
  <1>1. /\ sender[n] = "idle" /\ stored' = stored \cup {n}
        /\ sender' = [sender EXCEPT ![n] = "committed"]
        /\ origin' = [origin EXCEPT ![n] = w]
        /\ due' = [due EXCEPT ![n] = IF conn = w THEN epoch ELSE 0]
        /\ UNCHANGED <<listener, inbox, log, conn, epoch, received>>
    BY DEF Commit, redis, client
  <1>2. /\ sender'[n] = "committed" /\ origin'[n] = w
        /\ due'[n] = IF conn = w THEN epoch ELSE 0
        /\ \A m \in Notifications : m # n =>
            sender'[m] = sender[m] /\ origin'[m] = origin[m] /\ due'[m] = due[m]
    BY <1>1 DEF TypeOK
  <1>3. TypeOK'
    BY <1>1 DEF TypeOK, Up
  <1>4. Stages' /\ Sources'
    BY <1>1, <1>2 DEF Stages, Sources, TypeOK
  <1>5. Ordered' /\ LocalOnce'
    BY <1>1 DEF Ordered, LocalOnce
  <1>6. StillThere'
    BY <1>1, <1>2 DEF StillThere, TypeOK
  <1>7. LocalClientsServed'
    BY <1>1, <1>2 DEF LocalClientsServed, Got
  <1> QED
    BY <1>3, <1>4, <1>5, <1>6, <1>7

\* A publication, whatever becomes of its sender.
LEMMA PushKeeps ==
    ASSUME IInv, NEW n \in Notifications, sender[n] = "committed",
           NEW s \in {"published", "failed"}, sender' = [sender EXCEPT ![n] = s],
           inbox' = Pushed(n), log' = Append(log, n),
           UNCHANGED <<stored, origin, due, listener, conn, epoch, received>>
    PROVE  IInv'
  <1> USE DEF IInv
  <1>1. n \in stored /\ n \notin Range(log) /\ log \in Seq(Notifications) /\ IsInjective(log)
    BY DEF Stages, TypeOK
  <1>2. /\ IsInjective(log') /\ Range(log') = Range(log) \cup {n}
        /\ \A m \in Range(log) : Pos(log', m) = Pos(log, m) /\ Pos(log, m) < Pos(log', n)
        /\ log' \in Seq(Notifications)
    BY <1>1, PosAppend
  <1>3. sender'[n] = s /\ \A m \in Notifications : m # n => sender'[m] = sender[m]
    BY DEF TypeOK
  <1>4. ASSUME NEW w \in Workers
        PROVE  /\ inbox'[w] \in Seq(Notifications)
               /\ \A i \in DOMAIN inbox'[w] :
                    \/ i \in DOMAIN inbox[w] /\ inbox'[w][i] = inbox[w][i]
                    \/ /\ i \notin DOMAIN inbox[w] /\ inbox'[w][i] = n
                       /\ \A j \in DOMAIN inbox'[w] : j <= i
               /\ \A i \in DOMAIN inbox'[w] : i \in Nat
    <2>1. inbox[w] \in Seq(Notifications)
      BY DEF TypeOK
    <2>2. inbox'[w] = IF listener[w] = "listening" THEN Append(inbox[w], n) ELSE inbox[w]
      BY DEF Pushed
    <2> QED
      BY <2>1, <2>2
  <1>5. TypeOK'
    <2>1. inbox' = [w \in Workers |-> inbox'[w]]
      BY DEF Pushed
    <2>2. inbox' \in [Workers -> Seq(Notifications)]
      BY <1>4, <2>1
    <2> QED
      BY <1>2, <2>2 DEF TypeOK, Up
  <1>6. Stages'
    BY <1>1, <1>2, <1>3 DEF Stages
  <1>7. Sources'
    <2>1. \A w \in Workers : Range(inbox'[w]) \subseteq Range(log')
      <3> SUFFICES ASSUME NEW w \in Workers, NEW i \in DOMAIN inbox'[w]
                   PROVE  inbox'[w][i] \in Range(log) \cup {n}
        BY <1>2 DEF Range
      <3> QED
        BY <1>4, HeldIsLogged
    <2>2. \A k \in DOMAIN received : received[k][2] = Local => received[k][1] # n
      BY DEF Sources
    <2>3. \A k \in DOMAIN received : received[k][1] \in Notifications
      BY DEF TypeOK
    <2> QED
      BY <1>2, <1>3, <2>1, <2>2, <2>3 DEF Sources
  <1>8. Ordered'
    <2>1. \A w \in Workers : \A i \in DOMAIN inbox[w] : inbox[w][i] \in Range(log)
      BY HeldIsLogged
    <2>2. \A k \in DOMAIN received : received[k][2] \in Workers => received[k][1] \in Range(log)
      BY DeliveryAssumption DEF Sources
    <2>3. ASSUME NEW w \in Workers, NEW i \in DOMAIN inbox'[w], NEW j \in DOMAIN inbox'[w], i < j
          PROVE  Pos(log', inbox'[w][i]) < Pos(log', inbox'[w][j])
      <3>1. i \in DOMAIN inbox[w] /\ inbox'[w][i] = inbox[w][i]
        BY <1>4, <2>3
      <3>2. CASE j \in DOMAIN inbox[w]
        BY <3>1, <3>2, <1>2, <1>4, <2>1, <2>3 DEF Ordered
      <3>3. CASE j \notin DOMAIN inbox[w]
        BY <3>1, <3>3, <1>2, <1>4, <2>1
      <3> QED
        BY <3>2, <3>3
    <2>4. ASSUME NEW w \in Workers, NEW k \in DOMAIN received, NEW i \in DOMAIN inbox'[w],
                 received[k][2] = w
          PROVE  Pos(log', received[k][1]) < Pos(log', inbox'[w][i])
      <3>1. received[k][1] \in Range(log)
        BY <2>2, <2>4
      <3>2. CASE i \in DOMAIN inbox[w]
        <4>1. inbox'[w][i] = inbox[w][i]
          BY <3>2, <1>4
        <4> QED
          BY <3>1, <3>2, <4>1, <1>2, <2>1, <2>4 DEF Ordered
      <3>3. CASE i \notin DOMAIN inbox[w]
        BY <3>1, <3>3, <1>2, <1>4
      <3> QED
        BY <3>2, <3>3
    <2>5. \A i, j \in DOMAIN received :
            i < j /\ received[i][2] = received[j][2] /\ received[i][2] \in Workers
                => Pos(log', received[i][1]) < Pos(log', received[j][1])
      BY <1>2, <2>2 DEF Ordered
    <2> QED
      BY <2>3, <2>4, <2>5 DEF Ordered
  <1>9. LocalOnce'
    BY DEF LocalOnce
  <1>10. StillThere' /\ LocalClientsServed'
    BY <1>3 DEF StillThere, LocalClientsServed, Got
  <1> QED
    BY <1>5, <1>6, <1>7, <1>8, <1>9, <1>10
\* A send that ends has served the client, if that is in the sender's worker.
LEMMA SendKeeps ==
    ASSUME IInv, NEW n \in Notifications, SendLocally(n)
    PROVE  IInv'
  <1> USE DeliveryAssumption DEF IInv
  <1>1. /\ sender[n] = "published" /\ sender' = [sender EXCEPT ![n] = "ended"]
        /\ UNCHANGED <<stored, origin, due, listener, inbox, log, conn, epoch>>
        /\ conn = origin[n] => Deliver(n, Local)
        /\ conn # origin[n] => UNCHANGED received
    BY DEF SendLocally, redis, client
  <1>2. sender'[n] = "ended" /\ \A m \in Notifications : m # n => sender'[m] = sender[m]
    BY <1>1 DEF TypeOK
  <1>3. received \in Seq(Notifications \X Paths) /\ Local \in Paths
    BY DEF TypeOK, Paths
  <1>4. /\ received' \in Seq(Notifications \X Paths)
        /\ \A k \in DOMAIN received : k \in DOMAIN received' /\ received'[k] = received[k]
        /\ \A k \in DOMAIN received' : k \notin DOMAIN received =>
                received'[k] = <<n, Local>> /\ k = Len(received) + 1
    BY <1>1, <1>3, GotOneMore
  <1>5. TypeOK'
    BY <1>1, <1>4 DEF TypeOK, Up
  <1>6. Stages' /\ StillThere'
    BY <1>1, <1>2 DEF Stages, StillThere
  <1>7. Sources'
    <2>1. \A w \in Workers : Range(inbox'[w]) \subseteq Range(log')
      BY <1>1 DEF Sources
    <2>2. ASSUME NEW k \in DOMAIN received'
          PROVE  /\ received'[k][2] = Local => sender'[received'[k][1]] = "ended"
                 /\ received'[k][2] # Local => received'[k][1] \in Range(log')
      <3>1. CASE k \in DOMAIN received
        <4>1. received[k][1] \in Notifications /\ received'[k] = received[k]
          BY <3>1, <1>3, <1>4
        <4> QED
          BY <3>1, <4>1, <1>1, <1>2 DEF Sources
      <3>2. CASE k \notin DOMAIN received
        BY <3>2, <1>2, <1>4
      <3> QED
        BY <3>1, <3>2
    <2> QED
      BY <2>1, <2>2 DEF Sources
  <1>8. Ordered'
    <2>1. \A k \in DOMAIN received' : received'[k][2] \in Workers =>
            k \in DOMAIN received /\ received'[k] = received[k]
      BY <1>4
    <2>2. \A w \in Workers : \A k \in DOMAIN received', i \in DOMAIN inbox[w] :
            received'[k][2] = w => Pos(log, received'[k][1]) < Pos(log, inbox[w][i])
      BY <2>1 DEF Ordered
    <2>3. \A i, j \in DOMAIN received' :
            i < j /\ received'[i][2] = received'[j][2] /\ received'[i][2] \in Workers
                => Pos(log, received'[i][1]) < Pos(log, received'[j][1])
      BY <2>1 DEF Ordered
    <2> QED
      BY <1>1, <2>2, <2>3 DEF Ordered
  <1>9. LocalOnce'
    <2> SUFFICES ASSUME NEW i \in DOMAIN received', NEW j \in DOMAIN received',
                        received'[i][2] = Local, received'[i] = received'[j]
                 PROVE  i = j
      BY DEF LocalOnce
    <2>1. \A k \in DOMAIN received : received[k] # <<n, Local>>
      BY <1>1 DEF Sources
    <2> QED
      BY <2>1, <1>4 DEF LocalOnce
  <1>10. LocalClientsServed'
    <2> SUFFICES ASSUME NEW m \in Notifications, sender'[m] = "ended", conn # Nowhere, due[m] = epoch
                 PROVE  Got(m)'
      BY <1>1 DEF LocalClientsServed
    <2>1. CASE m # n
      BY <2>1, <1>2, <1>4, GotStays DEF LocalClientsServed
    <2>2. CASE m = n
      <3>1. conn = origin[n]
        BY <2>2, <1>1 DEF StillThere
      <3>2. \E k \in DOMAIN received' : received'[k] = <<n, Local>>
        BY <3>1, <1>1, <1>3, GotOneMore
      <3> QED
        BY <2>2, <3>2, <1>3 DEF Got, Range
    <2> QED
      BY <2>1, <2>2
  <1> QED
    BY <1>5, <1>6, <1>7, <1>8, <1>9, <1>10

\* The head of an inbox comes after all that its listener has forwarded.
LEMMA DispatchKeeps ==
    ASSUME IInv, NEW w \in Workers, Dispatch(w)
    PROVE  IInv'
  <1> USE DeliveryAssumption DEF IInv
  <1> DEFINE n == Head(inbox[w])
  <1>1. /\ inbox[w] # <<>> /\ inbox' = [inbox EXCEPT ![w] = Tail(inbox[w])]
        /\ conn = w => Deliver(n, w)
        /\ conn # w => UNCHANGED received
        /\ UNCHANGED <<stored, sender, origin, due, listener, log, conn, epoch>>
    BY DEF Dispatch, sending, client
  <1>2. /\ inbox[w] \in Seq(Notifications) /\ n \in Notifications
        /\ n = inbox[w][1] /\ 1 \in DOMAIN inbox[w]
        /\ Tail(inbox[w]) \in Seq(Notifications)
        /\ \A i \in DOMAIN Tail(inbox[w]) :
            i \in Nat /\ i + 1 \in DOMAIN inbox[w] /\ 1 < i + 1 /\ Tail(inbox[w])[i] = inbox[w][i + 1]
    BY <1>1 DEF TypeOK
  <1>3. inbox'[w] = Tail(inbox[w]) /\ \A v \in Workers : v # w => inbox'[v] = inbox[v]
    BY <1>1 DEF TypeOK
  <1> HIDE DEF n
  <1>4. received \in Seq(Notifications \X Paths) /\ w \in Paths /\ w # Local
    BY DEF TypeOK, Paths
  <1>5. /\ received' \in Seq(Notifications \X Paths)
        /\ \A k \in DOMAIN received :
            k \in DOMAIN received' /\ received'[k] = received[k] /\ k < Len(received) + 1
        /\ \A k \in DOMAIN received' : k \notin DOMAIN received =>
                received'[k] = <<n, w>> /\ k = Len(received) + 1
    BY <1>1, <1>2, <1>4, GotOneMore
  <1>6. TypeOK'
    BY <1>1, <1>2, <1>3, <1>5 DEF TypeOK, Up
  <1>7. Stages' /\ StillThere'
    BY <1>1 DEF Stages, StillThere
  <1>8. n \in Range(log)
    BY <1>2 DEF Sources, Range
  <1>9. Sources'
    <2>1. \A v \in Workers : Range(inbox'[v]) \subseteq Range(log)
      <3> SUFFICES ASSUME NEW v \in Workers, NEW i \in DOMAIN inbox'[v]
                   PROVE  inbox'[v][i] \in Range(log)
        BY DEF Range
      <3> QED
        BY <1>2, <1>3, HeldIsLogged
    <2>2. \A k \in DOMAIN received' :
            /\ received'[k][2] = Local => sender[received'[k][1]] = "ended"
            /\ received'[k][2] # Local => received'[k][1] \in Range(log)
      BY <1>4, <1>5, <1>8 DEF Sources
    <2> QED
      BY <1>1, <2>1, <2>2 DEF Sources
  <1>10. Ordered'
    <2>1. \A i \in DOMAIN Tail(inbox[w]) : Pos(log, n) < Pos(log, Tail(inbox[w])[i])
      BY <1>2 DEF Ordered
    <2>2. ASSUME NEW v \in Workers, NEW i \in DOMAIN inbox'[v], NEW j \in DOMAIN inbox'[v], i < j
          PROVE  Pos(log, inbox'[v][i]) < Pos(log, inbox'[v][j])
      <3>1. CASE v = w
        <4> DEFINE T == Tail(inbox[w])
        <4>1. /\ i + 1 \in DOMAIN inbox[w] /\ j + 1 \in DOMAIN inbox[w] /\ i + 1 < j + 1
              /\ T[i] = inbox[w][i + 1] /\ T[j] = inbox[w][j + 1]
          BY <2>2, <3>1, <1>2, <1>3
        <4> QED
          BY <4>1, <3>1, <1>3 DEF Ordered
      <3>2. CASE v # w
        BY <2>2, <3>2, <1>3 DEF Ordered
      <3> QED
        BY <3>1, <3>2
    <2>3. ASSUME NEW v \in Workers, NEW k \in DOMAIN received', NEW i \in DOMAIN inbox'[v],
                 received'[k][2] = v
          PROVE  Pos(log, received'[k][1]) < Pos(log, inbox'[v][i])
      <3>1. CASE k \in DOMAIN received
        <4>1. received'[k] = received[k]
          BY <3>1, <1>5
        <4>2. CASE v = w
          <5>1. i + 1 \in DOMAIN inbox[w] /\ inbox'[v][i] = inbox[w][i + 1]
            BY <4>2, <2>3, <1>2, <1>3
          <5> QED
            BY <5>1, <4>1, <4>2, <3>1, <2>3 DEF Ordered
        <4>3. CASE v # w
          BY <4>1, <4>3, <3>1, <2>3, <1>3 DEF Ordered
        <4> QED
          BY <4>2, <4>3
      <3>2. CASE k \notin DOMAIN received
        <4>1. received'[k] = <<n, w>> /\ v = w /\ inbox'[v] = Tail(inbox[w])
          BY <2>3, <3>2, <1>3, <1>5
        <4> QED
          BY <4>1, <2>1, <2>3
      <3> QED
        BY <3>1, <3>2
    <2>4. ASSUME NEW i \in DOMAIN received', NEW j \in DOMAIN received',
                 i < j, received'[i][2] = received'[j][2], received'[i][2] \in Workers
          PROVE  Pos(log, received'[i][1]) < Pos(log, received'[j][1])
      <3>1. i \in DOMAIN received
        BY <2>4, <1>4, <1>5
      <3>2. CASE j \in DOMAIN received
        BY <2>4, <3>1, <3>2, <1>5 DEF Ordered
      <3>3. CASE j \notin DOMAIN received
        BY <2>4, <3>1, <3>3, <1>2, <1>5 DEF Ordered
      <3> QED
        BY <3>2, <3>3
    <2> QED
      BY <1>1, <2>2, <2>3, <2>4 DEF Ordered
  <1>11. LocalOnce'
    BY <1>4, <1>5 DEF LocalOnce
  <1>12. LocalClientsServed'
    BY <1>1, <1>5, GotStays DEF LocalClientsServed
  <1> QED
    BY <1>6, <1>7, <1>9, <1>10, <1>11, <1>12
-----------------------------------------------------------------------------
\* The publication may also fail before Redis has it.
LEMMA PublishFailsKeeps ==
    ASSUME IInv, NEW n \in Notifications, PublishFails(n)
    PROVE  IInv'
  <1>1. /\ sender[n] = "committed" /\ sender' = [sender EXCEPT ![n] = "failed"]
        /\ UNCHANGED <<stored, origin, due, listener, conn, epoch, received>>
        /\ \/ inbox' = inbox /\ log' = log
           \/ inbox' = Pushed(n) /\ log' = Append(log, n)
    BY DEF PublishFails, client
  <1>2. CASE inbox' = inbox /\ log' = log
    <2> USE DEF IInv
    <2>1. sender'[n] = "failed" /\ \A m \in Notifications : m # n => sender'[m] = sender[m]
      BY <1>1 DEF TypeOK
    <2>2. TypeOK'
      BY <1>1, <1>2 DEF TypeOK, Up
    <2>3. Stages'
      BY <1>1, <1>2, <2>1 DEF Stages
    <2>4. Sources'
      <3>1. \A k \in DOMAIN received : received[k][1] \in Notifications
        BY DEF TypeOK
      <3> QED
        BY <1>1, <1>2, <2>1, <3>1 DEF Sources
    <2>5. Ordered' /\ LocalOnce'
      BY <1>1, <1>2 DEF Ordered, LocalOnce
    <2>6. StillThere' /\ LocalClientsServed'
      BY <1>1, <2>1 DEF StillThere, LocalClientsServed, Got
    <2> QED
      BY <2>2, <2>3, <2>4, <2>5, <2>6
  <1>3. CASE inbox' = Pushed(n) /\ log' = Append(log, n)
    BY <1>1, <1>3, PushKeeps
  <1> QED
    BY <1>1, <1>2, <1>3

\* A listener subscribes, or a process starts: nothing is moved.
LEMMA ListenerStarts ==
    ASSUME IInv, NEW w \in Workers, Subscribe(w) \/ Restart(w)
    PROVE  IInv'
  <1> USE DEF IInv
  <1>1. /\ \E s \in {"subscribing", "listening"} : listener' = [listener EXCEPT ![w] = s]
        /\ UNCHANGED <<stored, sender, origin, due, inbox, log, conn, epoch, received>>
    BY DEF Subscribe, Restart, sending, client
  <1>2. TypeOK'
    BY <1>1 DEF TypeOK, Up
  <1>3. Stages' /\ Sources' /\ Ordered' /\ LocalOnce'
    BY <1>1 DEF Stages, Sources, Ordered, LocalOnce
  <1>4. StillThere' /\ LocalClientsServed'
    BY <1>1 DEF StillThere, LocalClientsServed, Got
  <1> QED
    BY <1>2, <1>3, <1>4

\* A new connection is newer than every commit; without one, nobody is due.
LEMMA ClientKeeps ==
    ASSUME IInv, Disconnect \/ \E w \in Workers : Connect(w)
    PROVE  IInv'
  <1> USE DeliveryAssumption DEF IInv
  <1>1. /\ \/ conn' = Nowhere /\ epoch' = epoch
           \/ conn' \in Up /\ epoch < MaxConnects /\ epoch' = epoch + 1
        /\ UNCHANGED <<stored, sender, origin, due, listener, inbox, log, received>>
    BY DEF Connect, Disconnect, sending, redis
  <1>2. TypeOK'
    BY <1>1 DEF TypeOK, Up
  <1>3. Stages' /\ Sources' /\ Ordered' /\ LocalOnce'
    BY <1>1 DEF Stages, Sources, Ordered, LocalOnce
  <1>4. StillThere' /\ LocalClientsServed'
    BY <1>1 DEF StillThere, LocalClientsServed, TypeOK
  <1> QED
    BY <1>2, <1>3, <1>4

\* The listener ends, and perhaps its worker with it: what it holds is lost.
LEMMA LossKeeps ==
    ASSUME IInv, NEW w \in Workers, ListenerEnds(w) \/ Crash(w)
    PROVE  IInv'
  <1> USE DeliveryAssumption DEF IInv
  <1>1. /\ inbox' = [inbox EXCEPT ![w] = <<>>]
        /\ UNCHANGED <<stored, origin, due, log, epoch, received>>
        /\ \/ /\ listener' = [listener EXCEPT ![w] = "ended"]
              /\ listener[w] # "down" /\ conn' = conn
           \/ /\ listener' = [listener EXCEPT ![w] = "down"]
              /\ conn' = IF conn = w THEN Nowhere ELSE conn
    BY DEF ListenerEnds, Crash, sending, client
  <1>2. /\ sender' = [n \in Notifications |-> sender'[n]]
        /\ \A n \in Notifications :
            \/ sender'[n] = sender[n]
            \/ sender[n] # "ended" /\ origin[n] = w /\ sender'[n] = "failed"
    BY DEF ListenerEnds, Crash, sending, TypeOK
  <1>3. /\ inbox'[w] = <<>> /\ <<>> \in Seq(Notifications)
        /\ \A v \in Workers : v # w => inbox'[v] = inbox[v]
    BY <1>1 DEF TypeOK
  <1>4. TypeOK'
    <2>1. sender' \in [Notifications -> {"idle", "committed", "published", "ended", "failed"}]
      BY <1>2 DEF TypeOK
    <2>2. conn' \in Up' \cup {Nowhere}
      BY <1>1 DEF TypeOK, Up
    <2> QED
      BY <1>1, <1>3, <2>1, <2>2 DEF TypeOK
  <1>5. Stages'
    BY <1>1, <1>2 DEF Stages
  <1>6. Sources'
    <2>1. \A v \in Workers : Range(inbox'[v]) \subseteq Range(log)
      BY <1>3 DEF Sources, Range
    <2>2. \A k \in DOMAIN received : received[k][1] \in Notifications
      BY DEF TypeOK
    <2> QED
      BY <1>1, <1>2, <2>1, <2>2 DEF Sources
  <1>7. Ordered' /\ LocalOnce'
    BY <1>1, <1>3 DEF Ordered, LocalOnce
  <1>8. StillThere' /\ LocalClientsServed'
    <2>1. conn' # Nowhere => conn' = conn
      BY <1>1
    <2>2. \A n \in Notifications : sender'[n] # "idle" => sender[n] # "idle"
      BY <1>2 DEF Stages
    <2>3. \A n \in Notifications : sender'[n] = "ended" => sender[n] = "ended"
      BY <1>2
    <2>4. StillThere'
      BY <1>1, <2>1, <2>2 DEF StillThere
    <2> QED
      BY <1>1, <2>1, <2>3, <2>4 DEF LocalClientsServed, Got
  <1> QED
    BY <1>4, <1>5, <1>6, <1>7, <1>8

-----------------------------------------------------------------------------
LEMMA NextIInv == IInv /\ [Next]_vars => IInv'
  <1> SUFFICES ASSUME IInv, [Next]_vars PROVE IInv'
    OBVIOUS
  <1>1. CASE UNCHANGED vars
    BY <1>1 DEF vars, IInv, TypeOK, Up, Stages, Sources, Ordered, LocalOnce, StillThere,
       LocalClientsServed, Got
  <1>2. ASSUME NEW n \in Notifications, Publish(n) PROVE IInv'
    BY <1>2, PushKeeps DEF Publish, client
  <1> QED
    BY <1>1, <1>2, CommitKeeps, PublishFailsKeeps, SendKeeps, DispatchKeeps, ListenerStarts,
       ClientKeeps, LossKeeps DEF Next

LEMMA SpecIInv == Spec => []IInv
  BY InitIInv, NextIInv, PTL DEF Spec

\* What a client is shown, or a listener still holds, is in the database.
THEOREM StoredBeforeShown == Spec => []ShownIsStored
  <1>1. IInv => ShownIsStored
    <2> SUFFICES ASSUME IInv PROVE ShownIsStored
      OBVIOUS
    <2>1. \A n \in Range(log) : n \in stored
      BY DEF IInv, TypeOK, Stages, Range
    <2>2. ASSUME NEW k \in DOMAIN received
          PROVE  received[k][1] \in stored
      <3>1. received[k][1] \in Notifications
        BY DEF IInv, TypeOK
      <3> QED
        BY <2>1, <3>1 DEF IInv, Sources, Stages
    <2>3. \A n \in Notifications : Got(n) => n \in stored
      BY <2>2 DEF Got, Range
    <2> QED
      BY <2>1, <2>3 DEF IInv, Sources, ShownIsStored
  <1> QED
    BY <1>1, SpecIInv, PTL

\* What one listener forwards arrives in the order of publication, through
\* reconnections of the client and restarts of the worker.
THEOREM OrderIsKept == Spec => []ListenersKeepOrder
  <1>1. IInv => ListenersKeepOrder
    BY DEF IInv, Ordered, ListenersKeepOrder, Position, Pos
  <1> QED
    BY <1>1, SpecIInv, PTL

\* No path delivers a notification twice.
THEOREM NoPathRepeats == Spec => []OncePerPath
  <1>1. IInv => OncePerPath
    <2> SUFFICES ASSUME IInv, NEW i \in DOMAIN received, NEW j \in DOMAIN received,
                        received[i] = received[j]
                 PROVE  i = j
      BY DEF OncePerPath, IsInjective
    <2>1. received[i] \in Notifications \X Paths /\ i \in Nat /\ j \in Nat
      BY DEF IInv, TypeOK
    <2>2. CASE received[i][2] = Local
      BY <2>2 DEF IInv, LocalOnce
    <2>3. CASE received[i][2] \in Workers
      <3>1. Pos(log, received[i][1]) \in DOMAIN log
        BY <2>1, <2>3, DeliveryAssumption DEF IInv, Sources, Range, Pos
      <3>2. Pos(log, received[i][1]) \in Nat
        BY <3>1 DEF IInv, TypeOK
      <3> QED
        BY <2>1, <2>3, <3>2 DEF IInv, Ordered
    <2> QED
      BY <2>1, <2>2, <2>3 DEF Paths
  <1> QED
    BY <1>1, SpecIInv, PTL

\* A client that was connected to the sending worker at the commit, and still
\* is when the send has ended, has got the notification.
THEOREM NobodyLeftOut == Spec => []LocalClientsServed
  <1>1. IInv => LocalClientsServed
    BY DEF IInv
  <1> QED
    BY <1>1, SpecIInv, PTL
=============================================================================

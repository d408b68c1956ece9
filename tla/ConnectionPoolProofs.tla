------------------------ MODULE ConnectionPoolProofs ------------------------
(***************************************************************************)
(* The accounting of connections for any number of requests and any pool,  *)
(* and the condition under which the requests cannot block each other: the *)
(* pool has more connections than there are requests at work.              *)
(***************************************************************************)
EXTENDS ConnectionPool, FiniteSetTheorems, TLAPS

IInv == TypeOK /\ ConnectionsConserved

\* How many connections a request holds at a place.
Held(place) == IF place = "checked" THEN 2 ELSE IF place \in Holding THEN 1 ELSE 0

\* Holders and Doubles are finite sets of requests.
LEMMA HoldersFinite ==
    /\ IsFiniteSet(Holders) /\ IsFiniteSet(Doubles)
    /\ Cardinality(Holders) \in Nat /\ Cardinality(Doubles) \in Nat
    /\ Cardinality(Holders) <= Cardinality(Requests)
    /\ Cardinality(Requests) \in Nat
  <1>1. Holders \subseteq Requests /\ Doubles \subseteq Requests
    BY DEF Holders, Doubles
  <1>. QED
    BY <1>1, PoolAssumption, FS_Subset, FS_CardinalityType

\* A set that gains or loses one element.
LEMMA OneElement ==
    ASSUME NEW S, NEW T, NEW x, IsFiniteSet(S), T = S \cup {x} \/ T = S \ {x}
    PROVE  /\ Cardinality(S) \in Nat /\ Cardinality(T) \in Nat
           /\ Cardinality(T) = Cardinality(S) + (IF x \in T THEN 1 ELSE 0)
                                              - (IF x \in S THEN 1 ELSE 0)
  <1>1. IsFiniteSet(T)
    BY FS_AddElement, FS_RemoveElement
  <1>2. Cardinality(S) \in Nat /\ Cardinality(T) \in Nat
    BY <1>1, FS_CardinalityType
  <1>3. CASE T = S \cup {x}
    <2>1. Cardinality(T) = IF x \in S THEN Cardinality(S) ELSE Cardinality(S) + 1
      BY <1>3, FS_AddElement
    <2>. QED
      BY <1>2, <1>3, <2>1
  <1>4. CASE T = S \ {x}
    <2>1. Cardinality(T) = IF x \in S THEN Cardinality(S) - 1 ELSE Cardinality(S)
      BY <1>4, FS_RemoveElement
    <2>. QED
      BY <1>2, <1>4, <2>1
  <1>. QED
    BY <1>2, <1>3, <1>4

\* A request that moves changes the two sets by itself at most.
LEMMA MoveCounts ==
    ASSUME TypeOK, NEW r \in Requests, NEW to \in Places, at' = [at EXCEPT ![r] = to]
    PROVE  /\ Cardinality(Holders)' \in Nat /\ Cardinality(Doubles)' \in Nat
           /\ Cardinality(Holders)' + Cardinality(Doubles)'
                = Cardinality(Holders) + Cardinality(Doubles) + Held(to) - Held(at[r])
  <1>1. \A x \in Requests : at'[x] = IF x = r THEN to ELSE at[x]
    BY DEF TypeOK
  <1>2. Holders' = Holders \cup {r} \/ Holders' = Holders \ {r}
    BY <1>1 DEF Holders
  <1>3. Doubles' = Doubles \cup {r} \/ Doubles' = Doubles \ {r}
    BY <1>1 DEF Doubles
  <1>4. /\ r \in Holders <=> at[r] \in Holding
        /\ r \in Doubles <=> at[r] = "checked"
        /\ r \in Holders' <=> to \in Holding
        /\ r \in Doubles' <=> to = "checked"
    BY <1>1 DEF Holders, Doubles
  <1>5. /\ Cardinality(Holders) \in Nat /\ Cardinality(Holders') \in Nat
        /\ Cardinality(Holders') = Cardinality(Holders)
             + (IF to \in Holding THEN 1 ELSE 0) - (IF at[r] \in Holding THEN 1 ELSE 0)
    <2>. IsFiniteSet(Holders)
      BY HoldersFinite
    <2>. QED
      BY <1>2, <1>4, OneElement
  <1>6. /\ Cardinality(Doubles) \in Nat /\ Cardinality(Doubles') \in Nat
        /\ Cardinality(Doubles') = Cardinality(Doubles)
             + (IF to = "checked" THEN 1 ELSE 0) - (IF at[r] = "checked" THEN 1 ELSE 0)
    <2>. IsFiniteSet(Doubles)
      BY HoldersFinite
    <2>. QED
      BY <1>3, <1>4, OneElement
  <1>7. "checked" \in Holding
    BY DEF Holding
  <1>. QED
    BY <1>5, <1>6, <1>7 DEF Held

\* A move that takes or returns the difference keeps the accounts.
LEMMA MoveStep ==
    ASSUME IInv, NEW r \in Requests, NEW to \in Places, at' = [at EXCEPT ![r] = to],
           free' \in Nat, free' = free + Held(at[r]) - Held(to)
    PROVE  IInv'
  <1>1. Held(to) \in Nat /\ Held(at[r]) \in Nat /\ free \in Nat /\ PoolSize \in Nat
    BY PoolAssumption DEF Held, IInv, TypeOK
  <1>2. /\ Cardinality(Holders) \in Nat /\ Cardinality(Doubles) \in Nat
        /\ Cardinality(Holders)' \in Nat /\ Cardinality(Doubles)' \in Nat
        /\ Cardinality(Holders)' + Cardinality(Doubles)'
             = Cardinality(Holders) + Cardinality(Doubles) + Held(to) - Held(at[r])
    BY HoldersFinite, MoveCounts DEF IInv
  <1>3. ConnectionsConserved'
    BY <1>1, <1>2 DEF IInv, ConnectionsConserved
  <1>4. TypeOK'
    BY <1>1, <1>2, <1>3 DEF IInv, TypeOK, ConnectionsConserved
  <1>. QED
    BY <1>3, <1>4 DEF IInv

\* Initially the pool is full.
LEMMA InitIInv == Init => IInv
  <1>. SUFFICES ASSUME Init PROVE IInv
    OBVIOUS
  <1>1. Holders = {} /\ Doubles = {}
    BY DEF Init, Holders, Doubles, Holding
  <1>. QED
    BY <1>1, FS_EmptySet, PoolAssumption DEF Init, IInv, TypeOK, ConnectionsConserved, Places

\* Every step of a request keeps the accounts.
LEMMA NextIInv == IInv /\ [Next]_vars => IInv'
  <1>. SUFFICES ASSUME IInv, [Next]_vars PROVE IInv'
    OBVIOUS
  <1>. USE DEF Held, Holding, Waiting, Places
  <1>1. free \in Nat
    BY PoolAssumption DEF IInv, TypeOK
  <1>2. ASSUME NEW r \in Requests, Arrive(r) \/ NeedMembership(r) \/ TimeOut(r)
        PROVE  IInv'
    BY <1>1, <1>2, MoveStep DEF Arrive, NeedMembership, TimeOut, Move, Return
  <1>3. ASSUME NEW r \in Requests, Authenticate(r) \/ CheckMembership(r)
        PROVE  IInv'
    BY <1>1, <1>3, MoveStep DEF Authenticate, CheckMembership, Move, Take
  <1>4. ASSUME NEW r \in Requests, Reject(r) \/ Member(r) \/ Forbid(r) \/ Serve(r)
        PROVE  IInv'
    BY <1>1, <1>4, MoveStep DEF Reject, Member, Forbid, Serve, Move, Return
  <1>5. CASE UNCHANGED vars
    BY <1>5 DEF vars, IInv, TypeOK, ConnectionsConserved, Holders, Doubles
  <1>. QED
    BY <1>2, <1>3, <1>4, <1>5 DEF Next

\* No path loses a connection or returns it twice.
THEOREM Conserved == Spec => []ConnectionsConserved
  <1>1. IInv => ConnectionsConserved
    BY DEF IInv
  <1>. QED
    BY <1>1, InitIInv, NextIInv, PTL DEF Spec

\* With more connections than requests, some request that holds a connection
\* always goes on: waiting for the second connection cannot block them all.
THEOREM RoomyPoolNeverStalls ==
    ASSUME Cardinality(Requests) < PoolSize
    PROVE  Spec => []NeverStalled
  <1>1. IInv => NeverStalled
    <2>. SUFFICES ASSUME IInv, free = 0, \A r \in Holders : at[r] \in Waiting
                  PROVE  FALSE
      BY DEF NeverStalled
    <2>1. Doubles = {}
      BY DEF Holders, Doubles, Holding, Waiting
    <2>2. Cardinality(Holders) = PoolSize
      BY <2>1, HoldersFinite, FS_EmptySet, PoolAssumption DEF IInv, ConnectionsConserved
    <2>. QED
      BY <2>2, HoldersFinite, PoolAssumption
  <1>. QED
    BY <1>1, InitIInv, NextIInv, PTL DEF Spec
=============================================================================

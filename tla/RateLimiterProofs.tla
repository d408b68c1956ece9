-------------------------- MODULE RateLimiterProofs --------------------------
(***************************************************************************)
(* The sliding window for any number of requests, any limits and any       *)
(* delay: provided that no two requests read the same time, the requests   *)
(* recorded in any window shorter than it by the delay are within the      *)
(* limit.  The argument: what has left a sorted set, because it was        *)
(* trimmed or because its key has expired, had left the window by the      *)
(* clock, so a request that is at most MaxDelay old still finds all that   *)
(* matters to it.                                                          *)
(*                                                                         *)
(* That nobody is rejected below the limit needs no such assumption: what  *)
(* a check counts has been recorded, and what has been recorded stays so.  *)
(*                                                                         *)
(* Nor does what Retry-After says: Redis cuts the oldest member's stamp to *)
(* whole seconds in its reply, the middleware rounds the time that is left,*)
(* and both together lose less than one and a half.                        *)
(***************************************************************************)
EXTENDS RateLimiter, FiniteSetTheorems, WellFoundedInduction, TLAPS

LEMMA Division ==
    ASSUME NEW x \in Nat, NEW d \in Nat \ {0}
    PROVE  x \div d \in Nat /\ x % d \in Nat /\ x % d <= x
  BY SMT

LEMMA LeastOfNaturals ==
    ASSUME NEW S \in SUBSET Nat, S # {}
    PROVE  \E s \in S : \A t \in S : s <= t
  <1>1. PICK s \in S : \A t \in S : <<t, s>> \notin OpToRel(<, Nat)
    BY WFMin, NatLessThanWellFounded, Zenon
  <1>2. \A t \in S : ~ (t < s)
    BY <1>1, Zenon DEF OpToRel
  <1>. QED
    BY <1>2

LEMMA SlotsOfRequests ==
    ASSUME TypeOK, NEW r \in Requests, NEW w \in Windows
    PROVE  /\ Slot(source[r], w) \in Slots /\ Slot(source[r], w)[3] = w
           /\ Span(w) \in Nat /\ Limit(source[r], w) \in Nat
           /\ InWindow(r, w) \subseteq Requests
  <1>1. source[r] \in Sources
    BY DEF TypeOK
  <1>2. Identity(source[r]) \in Tenants \cup Addresses
    BY <1>1 DEF Identity, Sources
  <1>3. Slot(source[r], w) \in Slots /\ Slot(source[r], w)[3] = w
    BY <1>1, <1>2 DEF Slot, Slots, Sources
  <1>4. Span(w) \in Nat /\ Limit(source[r], w) \in Nat
    BY <1>1, RateAssumption DEF Span, Limit, Sources
  <1>5. InWindow(r, w) \subseteq Requests
    BY <1>3 DEF InWindow, TypeOK
  <1>. QED
    BY <1>3, <1>4, <1>5

LEMMA RetryAfterIsNatural ==
    ASSUME TypeOK, NEW r \in Requests
    PROVE  MinuteRetryAfter(r) \in Nat
  <1>. DEFINE stamps == {stamp[q] : q \in InWindow(r, "min")}
              least == CHOOSE s \in stamps : \A t \in stamps : s <= t
  <1>1. stamps \in SUBSET Nat
    BY SlotsOfRequests DEF TypeOK, Windows
  <1>2. Oldest(r) \in Nat
    <2>1. CASE stamps = {}
      BY <2>1 DEF Oldest
    <2>2. CASE stamps # {}
      <3>1. \E s \in stamps : \A t \in stamps : s <= t
        BY <1>1, <2>2, LeastOfNaturals
      <3>2. least \in Nat
        BY <1>1, <3>1
      <3>. HIDE DEF least
      <3>3. least % Second \in Nat /\ least % Second <= least
        BY <3>2, Division, RateAssumption
      <3>4. Oldest(r) = least - (least % Second)
        BY <2>2 DEF Oldest, least
      <3>. QED
        BY <3>2, <3>3, <3>4
    <2>. QED
      BY <2>1, <2>2
  <1>3. Second \in Nat \ {0} /\ 2 * Second \in Nat \ {0}
    BY RateAssumption
  <1>4. ASSUME NEW x \in Nat
        PROVE  Rounded(x) \in Nat
    <2>1. 2 * x + Second \in Nat
      BY <1>3
    <2>. QED
      BY <1>3, <2>1, Division DEF Rounded
  <1>5. CASE Oldest(r) + Minute <= stamp[r]
    BY <1>5 DEF MinuteRetryAfter
  <1>6. CASE ~(Oldest(r) + Minute <= stamp[r])
    <2>1. Oldest(r) + Minute - stamp[r] \in Nat
      BY <1>2, <1>6, RateAssumption DEF TypeOK
    <2>. QED
      BY <1>4, <1>6, <2>1 DEF MinuteRetryAfter
  <1>. QED
    BY <1>5, <1>6

-----------------------------------------------------------------------------
\* A recorded request has been answered or is being.
RecordedHaveArrived == \A k \in Slots :
    zset[k] \subseteq recorded[k] /\ \A p \in recorded[k] : at[p] # "idle"

\* A request that waits for its checks is at most MaxDelay old.
PendingAreYoung == \A r \in Requests :
    /\ at[r] # "idle" => stamp[r] <= clock
    /\ at[r] \in Pending => clock <= stamp[r] + MaxDelay

\* A key lasts as long as the window of each request recorded there.
KeysLast == \A k \in Slots : \A p \in recorded[k] :
    stamp[p] + Span(k[3]) <= expires[k]

\* What is no longer in a sorted set is older than its window.
GoneAreOld == \A k \in Slots : \A p \in recorded[k] :
    p \notin zset[k] => stamp[p] + Span(k[3]) <= clock

\* No two requests have read the same time.
StampsDiffer == \A p, q \in Requests :
    at[p] # "idle" /\ at[q] # "idle" /\ stamp[p] = stamp[q] => p = q

IInv ==
    /\ TypeOK /\ RecordedHaveArrived /\ PendingAreYoung
    /\ KeysLast /\ GoneAreOld /\ StampsDiffer

\* The steps other than the checks.
LEMMA OtherSteps ==
    ASSUME IInv, DistinctStamps,
           \/ \E r \in Requests : Arrive(r) \/ LoadScript(r) \/ Degrade(r)
           \/ RedisFails \/ RedisReturns \/ Tick
    PROVE  /\ IInv' /\ UNCHANGED <<recorded, source>> /\ clock' \in {clock, clock + 1}
           /\ \A k \in Slots : \A p \in recorded[k] : stamp'[p] = stamp[p]
  <1>. USE RateAssumption DEF IInv
  <1>1. ASSUME NEW r \in Requests, Arrive(r)
        PROVE  /\ IInv' /\ UNCHANGED <<recorded, source, clock>>
               /\ \A k \in Slots : \A p \in recorded[k] : stamp'[p] = stamp[p]
    <2>1. /\ UNCHANGED <<clock, source, zset, expires, recorded>>
          /\ at[r] = "idle" /\ \A q \in Requests : at'[q] = IF q = r THEN "stamped" ELSE at[q]
          /\ \A q \in Requests : stamp'[q] = IF q = r THEN clock ELSE stamp[q]
      BY <1>1 DEF Arrive, Move, redis, TypeOK
    <2>2. TypeOK'
      BY <1>1 DEF Arrive, Move, redis, TypeOK, Places, Pending
    <2>3. \A k \in Slots : \A p \in recorded[k] : p \in Requests /\ p # r
      BY <2>1 DEF RecordedHaveArrived, TypeOK
    <2>4. RecordedHaveArrived' /\ KeysLast' /\ GoneAreOld'
      BY <2>1, <2>3 DEF RecordedHaveArrived, KeysLast, GoneAreOld
    <2>5. PendingAreYoung'
      BY <2>1 DEF PendingAreYoung, TypeOK
    <2>6. StampsDiffer'
      BY <1>1, <2>1 DEF StampsDiffer, Arrive
    <2>. QED
      BY <2>1, <2>2, <2>3, <2>4, <2>5, <2>6
  <1>2. CASE (\E r \in Requests : LoadScript(r)) \/ RedisFails \/ RedisReturns
    <2>1. UNCHANGED <<clock, at, source, stamp, minuteOK, retryAfter, zset, expires, recorded>>
      BY <1>2 DEF LoadScript, RedisFails, RedisReturns, redis
    <2>2. TypeOK'
      BY <1>2, <2>1 DEF TypeOK, LoadScript, RedisFails, RedisReturns
    <2>. QED
      BY <2>1, <2>2 DEF RecordedHaveArrived, PendingAreYoung, KeysLast, GoneAreOld, StampsDiffer
  <1>3. ASSUME NEW r \in Requests, Degrade(r)
        PROVE  IInv' /\ UNCHANGED <<recorded, source, clock, stamp>>
    <2>1. /\ UNCHANGED <<clock, source, stamp, zset, expires, recorded>>
          /\ at[r] \in Pending
          /\ \A q \in Requests : at'[q] = IF q = r THEN "degraded" ELSE at[q]
      BY <1>3 DEF Degrade, redis, TypeOK
    <2>2. TypeOK'
      BY <1>3 DEF Degrade, redis, TypeOK, Places
    <2>3. \A q \in Requests : (at'[q] # "idle" <=> at[q] # "idle")
                              /\ (at'[q] \in Pending => at[q] \in Pending)
      BY <2>1 DEF Pending
    <2>. QED
      BY <2>1, <2>2, <2>3
      DEF RecordedHaveArrived, PendingAreYoung, KeysLast, GoneAreOld, StampsDiffer, TypeOK
  <1>4. CASE Tick
    <2>1. /\ UNCHANGED <<at, source, stamp, zset, expires, recorded>>
          /\ clock' = clock + 1
          /\ \A q \in Requests : at[q] \in Pending => clock < stamp[q] + MaxDelay
      BY <1>4 DEF Tick, redis
    <2>2. TypeOK'
      BY <1>4 DEF Tick, redis, TypeOK
    <2>3. \A k \in Slots : \A p \in recorded[k] :
              p \in Requests /\ stamp[p] \in Nat /\ Span(k[3]) \in Nat
      BY DEF TypeOK, Span
    <2>4. GoneAreOld' /\ PendingAreYoung'
      BY <2>1, <2>3 DEF GoneAreOld, PendingAreYoung, TypeOK
    <2>. QED
      BY <2>1, <2>2, <2>4 DEF RecordedHaveArrived, KeysLast, StampsDiffer
  <1>. QED
    BY <1>1, <1>2, <1>3, <1>4

\* What a run of the script leaves: all that its window still counts, for
\* its slot k and every request p recorded there.
LEMMA ScriptKeepsWindow ==
    ASSUME IInv, DistinctStamps, NEW r \in Requests, NEW w \in Windows,
           at[r] \in Pending, RunScript(r, w),
           NEW p \in recorded[Slot(source[r], w)], p \notin InWindow(r, w)
    PROVE  stamp[p] + Span(w) <= clock /\ p \in Requests
  <1>. DEFINE k == Slot(source[r], w)
  <1>1. k \in Slots /\ k[3] = w /\ Span(w) \in Nat
    BY SlotsOfRequests DEF IInv
  <1>2. p \in Requests /\ stamp[p] \in Nat /\ stamp[r] \in Nat /\ clock \in Nat
        /\ expires[k] \in Nat
    BY <1>1 DEF IInv, TypeOK
  <1>3. stamp[r] <= clock
    BY DEF IInv, PendingAreYoung, Pending
  <1>4. p \notin zset[k] \/ expires[k] <= clock \/ stamp[p] + Span(w) <= stamp[r]
    BY <1>1, <1>2 DEF InWindow
  <1>5. stamp[p] + Span(w) <= expires[k]
        /\ (p \notin zset[k] => stamp[p] + Span(w) <= clock)
    BY <1>1 DEF IInv, KeysLast, GoneAreOld
  <1>. QED
    BY <1>1, <1>2, <1>3, <1>4, <1>5

\* A check preserves the parts of the invariant that concern Redis.
LEMMA ScriptKeepsInvariant ==
    ASSUME IInv, DistinctStamps, NEW r \in Requests, NEW w \in Windows,
           at[r] \in Pending, RunScript(r, w), UNCHANGED <<clock, source, stamp>>,
           NEW to \in Places \ {"idle"}, at' = [at EXCEPT ![r] = to]
    PROVE  /\ zset' \in [Slots -> SUBSET Requests] /\ recorded' \in [Slots -> SUBSET Requests]
           /\ expires' \in [Slots -> Nat] /\ at' \in [Requests -> Places]
           /\ RecordedHaveArrived' /\ PendingAreYoung' /\ KeysLast' /\ GoneAreOld' /\ StampsDiffer'
  <1>. USE DEF IInv
  <1>. DEFINE k == Slot(source[r], w)
              kept == InWindow(r, w)
  <1>1. k \in Slots /\ k[3] = w /\ Span(w) \in Nat /\ kept \subseteq zset[k]
    BY SlotsOfRequests DEF InWindow
  <1>2. \A q \in Requests : at'[q] = IF q = r THEN to ELSE at[q]
    BY DEF TypeOK
  <1>3. at' \in [Requests -> Places] /\ clock \in Nat /\ stamp \in [Requests -> Nat]
        /\ at[r] # "idle" /\ stamp[r] <= clock
    BY DEF TypeOK, PendingAreYoung, Pending
  <1>4. \A p \in recorded[k] : p \notin kept => stamp[p] + Span(w) <= clock
    BY ScriptKeepsWindow
  <1>5. \A j \in Slots : zset[j] \subseteq recorded[j] /\ recorded[j] \subseteq Requests
                         /\ \A p \in recorded[j] : at[p] # "idle" /\ stamp[p] \in Nat
    BY <1>3 DEF RecordedHaveArrived, TypeOK
  <1>. HIDE DEF k, kept
  <1>6. CASE Admits(r, w)
    <2>1. /\ zset' = [zset EXCEPT ![k] = {q \in kept : stamp[q] # stamp[r]} \cup {r}]
          /\ expires' = [expires EXCEPT ![k] = clock + Span(w)]
          /\ recorded' = [recorded EXCEPT ![k] = @ \cup {r}]
      BY <1>6 DEF RunScript, k, kept
    <2>2. \A j \in Slots : /\ zset'[j] = IF j = k THEN {q \in kept : stamp[q] # stamp[r]} \cup {r}
                                         ELSE zset[j]
                           /\ expires'[j] = IF j = k THEN clock + Span(w) ELSE expires[j]
                           /\ recorded'[j] = IF j = k THEN recorded[k] \cup {r} ELSE recorded[j]
      BY <2>1 DEF TypeOK
    <2>3. {q \in kept : stamp[q] # stamp[r]} \cup {r} = kept \cup {r}
      BY <1>1, <1>3, <1>5 DEF StampsDiffer
    <2>4. zset' \in [Slots -> SUBSET Requests] /\ recorded' \in [Slots -> SUBSET Requests]
          /\ expires' \in [Slots -> Nat]
      <3>1. kept \cup {r} \subseteq Requests /\ clock + Span(w) \in Nat
        BY <1>1, <1>3, <1>5
      <3>. QED
        BY <1>1, <1>5, <2>1, <2>3, <3>1 DEF TypeOK
    <2>5. RecordedHaveArrived'
      <3>1. \A p \in Requests : at[p] # "idle" => at'[p] # "idle"
        BY <1>2
      <3>2. at'[r] # "idle"
        BY <1>2
      <3>3. \A j \in Slots : zset'[j] \subseteq recorded'[j]
        BY <1>1, <1>5, <2>2, <2>3
      <3>4. ASSUME NEW j \in Slots, NEW p \in recorded'[j]
            PROVE  at'[p] # "idle"
        BY <1>1, <1>5, <2>2, <3>1, <3>2
      <3>. QED
        BY <3>3, <3>4 DEF RecordedHaveArrived
    <2>6. KeysLast'
      <3>. SUFFICES ASSUME NEW j \in Slots, NEW p \in recorded'[j]
                    PROVE  stamp[p] + Span(j[3]) <= expires'[j]
        BY DEF KeysLast
      <3>1. CASE j # k
        BY <2>2, <3>1 DEF KeysLast
      <3>2. CASE j = k
        <4>1. p \in Requests /\ stamp[p] \in Nat /\ stamp[p] <= clock
          BY <1>1, <1>3, <1>5, <2>2, <3>2 DEF PendingAreYoung
        <4>2. Span(j[3]) = Span(w) /\ expires'[j] = clock + Span(w)
          BY <1>1, <2>2, <3>2
        <4>. QED
          BY <1>1, <1>3, <4>1, <4>2
      <3>. QED
        BY <3>1, <3>2
    <2>7. GoneAreOld'
      BY <1>1, <1>3, <1>4, <1>5, <2>2, <2>3 DEF GoneAreOld
    <2>8. PendingAreYoung' /\ StampsDiffer'
      BY <1>2, <1>3 DEF PendingAreYoung, StampsDiffer
    <2>. QED
      BY <1>3, <2>4, <2>5, <2>6, <2>7, <2>8
  <1>7. CASE ~Admits(r, w)
    <2>1. zset' = [zset EXCEPT ![k] = kept] /\ UNCHANGED <<expires, recorded>>
      BY <1>7 DEF RunScript, k, kept
    <2>2. \A j \in Slots : zset'[j] = IF j = k THEN kept ELSE zset[j]
      BY <2>1 DEF TypeOK
    <2>3. zset' \in [Slots -> SUBSET Requests]
      BY <1>1, <1>5, <2>1 DEF TypeOK
    <2>4. RecordedHaveArrived' /\ KeysLast' /\ GoneAreOld'
      BY <1>1, <1>2, <1>3, <1>4, <1>5, <2>1, <2>2 DEF RecordedHaveArrived, KeysLast, GoneAreOld
    <2>5. PendingAreYoung' /\ StampsDiffer'
      BY <1>2, <1>3 DEF PendingAreYoung, StampsDiffer
    <2>. QED
      BY <1>3, <2>1, <2>3, <2>4, <2>5 DEF TypeOK
  <1>. QED
    BY <1>6, <1>7

\* A request that the script records is within the limit of its own slot.
LEMMA ScriptKeepsLimit ==
    ASSUME IInv, DistinctStamps, NEW r \in Requests, NEW w \in Windows,
           at[r] \in Pending, RunScript(r, w), Admits(r, w), UNCHANGED <<source, stamp>>,
           NEW x \in Nat, r \in During(Slot(source[r], w), x, Span(w) - MaxDelay)'
    PROVE  Cardinality(During(Slot(source[r], w), x, Span(w) - MaxDelay)')
             <= Limit(source[r], w)
  <1>. DEFINE k == Slot(source[r], w)
              kept == InWindow(r, w)
              most == During(k, x, Span(w) - MaxDelay)'
  <1>1. /\ k \in Slots /\ k[3] = w /\ Span(w) \in Nat /\ kept \subseteq Requests
        /\ Limit(source[r], w) \in Nat
    BY SlotsOfRequests DEF IInv
  <1>2. recorded'[k] = recorded[k] \cup {r}
    BY <1>1 DEF RunScript, IInv, TypeOK
  <1>3. k' = k
    BY DEF Slot, Identity
  <1>4. \A p \in most : p \in recorded'[k] /\ x < stamp[p] /\ stamp[p] <= x + (Span(w) - MaxDelay)
    BY <1>3 DEF During
  <1>5. clock <= stamp[r] + MaxDelay /\ stamp[r] \in Nat /\ clock \in Nat /\ MaxDelay \in Nat
    BY RateAssumption DEF IInv, PendingAreYoung, TypeOK
  <1>6. stamp[r] <= x + (Span(w) - MaxDelay)
    BY <1>4
  <1>7. most \subseteq kept \cup {r}
    <2>. SUFFICES ASSUME NEW p \in most, p # r, p \notin kept
                  PROVE  FALSE
      OBVIOUS
    <2>1. p \in recorded[k] /\ x < stamp[p]
      BY <1>2, <1>4
    <2>2. stamp[p] + Span(w) <= clock /\ stamp[p] \in Nat
      BY <2>1, ScriptKeepsWindow DEF IInv, TypeOK
    <2>. QED
      BY <1>1, <1>5, <1>6, <2>1, <2>2
  <1>8. IsFiniteSet(kept) /\ Cardinality(kept) \in Nat /\ Cardinality(kept) < Limit(source[r], w)
    BY <1>1, RateAssumption, FS_Subset, FS_CardinalityType DEF Admits
  <1>9. IsFiniteSet(kept \cup {r}) /\ Cardinality(kept \cup {r}) <= Cardinality(kept) + 1
        /\ Cardinality(kept \cup {r}) \in Nat
    <2>1. IsFiniteSet(kept \cup {r})
      BY <1>8, FS_AddElement
    <2>2. Cardinality(kept \cup {r}) \in Nat
      BY <2>1, FS_CardinalityType
    <2>3. Cardinality(kept \cup {r}) = IF r \in kept THEN Cardinality(kept) ELSE Cardinality(kept) + 1
      BY <1>8, FS_AddElement
    <2>. QED
      BY <1>8, <2>1, <2>2, <2>3
  <1>10. Cardinality(most) <= Cardinality(kept \cup {r}) /\ Cardinality(most) \in Nat
    BY <1>7, <1>9, FS_Subset, FS_CardinalityType
  <1>. QED
    BY <1>1, <1>8, <1>9, <1>10

\* A check of either window preserves the bound of every slot.
LEMMA ScriptKeepsBound ==
    ASSUME IInv, DistinctStamps, WindowBounded, NEW r \in Requests, NEW w \in Windows,
           at[r] \in Pending, RunScript(r, w), UNCHANGED <<clock, source, stamp>>
    PROVE  WindowBounded'
  <1>. DEFINE k == Slot(source[r], w)
  <1>1. k \in Slots /\ k[3] = w
    BY SlotsOfRequests DEF IInv
  <1>2. SUFFICES ASSUME NEW j \in Slots, NEW x \in 0..clock,
                        During(j, x, Span(j[3]) - MaxDelay)' # {}
                 PROVE  \E q \in During(j, x, Span(j[3]) - MaxDelay)' :
                            Cardinality(During(j, x, Span(j[3]) - MaxDelay)')
                                <= Limit(source[q], j[3])
    BY DEF WindowBounded
  <1>3. CASE During(j, x, Span(j[3]) - MaxDelay)' = During(j, x, Span(j[3]) - MaxDelay)
    BY <1>2, <1>3 DEF WindowBounded
  <1>4. CASE During(j, x, Span(j[3]) - MaxDelay)' # During(j, x, Span(j[3]) - MaxDelay)
    <2>1. recorded'[j] # recorded[j]
      BY <1>4 DEF During
    <2>2. Admits(r, w) /\ j = k /\ recorded'[j] = recorded[j] \cup {r}
      BY <1>1, <2>1 DEF RunScript, IInv, TypeOK
    <2>3. r \in During(j, x, Span(j[3]) - MaxDelay)'
      BY <1>4, <2>2 DEF During
    <2>4. x \in Nat
      BY DEF IInv, TypeOK
    <2>5. Cardinality(During(j, x, Span(j[3]) - MaxDelay)') <= Limit(source[r], w)
      BY <1>1, <2>2, <2>3, <2>4, ScriptKeepsLimit
    <2>. QED
      BY <1>1, <2>2, <2>3, <2>5
  <1>. QED
    BY <1>3, <1>4

LEMMA InitInvariant ==
    ASSUME Init
    PROVE  IInv /\ WindowBounded
  <1>1. TypeOK
    BY DEF Init, TypeOK, Places
  <1>2. \A k \in Slots : zset[k] = {} /\ recorded[k] = {}
    BY DEF Init
  <1>3. \A r \in Requests : at[r] = "idle"
    BY DEF Init
  <1>4. WindowBounded
    BY <1>2 DEF WindowBounded, During
  <1>. QED
    BY <1>1, <1>2, <1>3, <1>4
    DEF IInv, RecordedHaveArrived, PendingAreYoung, KeysLast, GoneAreOld, StampsDiffer, Pending

\* A check of the minute or of the hour.
LEMMA CheckSteps ==
    ASSUME IInv, WindowBounded, DistinctStamps, NEW r \in Requests,
           CheckMinute(r) \/ CheckHour(r)
    PROVE  IInv' /\ WindowBounded'
  <1>1. PICK w \in Windows, to \in Places \ {"idle"} :
            /\ RunScript(r, w) /\ at[r] \in Pending /\ at' = [at EXCEPT ![r] = to]
            /\ UNCHANGED <<clock, source, stamp>>
    <2>1. CASE CheckMinute(r)
      <3>1. PICK to \in {"minuted", "forwarded", "rejected"} : at' = [at EXCEPT ![r] = to]
        BY <2>1 DEF CheckMinute, Move
      <3>. QED
        BY <2>1, <3>1 DEF CheckMinute, Move, Windows, Places, Pending
    <2>2. CASE CheckHour(r)
      <3>1. PICK to \in {"forwarded", "rejected"} : at' = [at EXCEPT ![r] = to]
        BY <2>2 DEF CheckHour, Move
      <3>. QED
        BY <2>2, <3>1 DEF CheckHour, Move, Windows, Places, Pending
    <2>. QED
      BY <2>1, <2>2
  <1>2. /\ zset' \in [Slots -> SUBSET Requests] /\ recorded' \in [Slots -> SUBSET Requests]
        /\ expires' \in [Slots -> Nat] /\ at' \in [Requests -> Places]
        /\ RecordedHaveArrived' /\ PendingAreYoung' /\ KeysLast' /\ GoneAreOld' /\ StampsDiffer'
    BY <1>1, ScriptKeepsInvariant
  <1>3. /\ minuteOK' \in [Requests -> BOOLEAN] /\ retryAfter' \in [Requests -> Nat]
        /\ UNCHANGED <<loaded, script, up>>
    <2>1. CASE CheckMinute(r)
      <3>1. MinuteRetryAfter(r) \in Nat
        BY RetryAfterIsNatural DEF IInv
      <3>2. Admits(r, "min") \in BOOLEAN
        BY DEF Admits
      <3>. QED
        BY <2>1, <3>1, <3>2 DEF CheckMinute, IInv, TypeOK
    <2>2. CASE CheckHour(r)
      <3>1. Hour \div Second \in Nat
        BY RateAssumption, Division
      <3>. QED
        BY <2>2, <3>1 DEF CheckHour, IInv, TypeOK
    <2>. QED
      BY <2>1, <2>2
  <1>4. TypeOK'
    BY <1>1, <1>2, <1>3 DEF IInv, TypeOK
  <1>5. WindowBounded'
    BY <1>1, ScriptKeepsBound
  <1>. QED
    BY <1>2, <1>4, <1>5 DEF IInv

\* A larger clock asks for no more: at x = clock nothing has been recorded.
LEMMA ClockKeepsBound ==
    ASSUME IInv, IInv', WindowBounded, UNCHANGED recorded, clock' \in {clock, clock + 1},
           UNCHANGED source, \A k \in Slots : \A p \in recorded[k] : stamp'[p] = stamp[p]
    PROVE  WindowBounded'
  <1>. SUFFICES ASSUME NEW k \in Slots, NEW x \in 0..clock',
                       During(k, x, Span(k[3]) - MaxDelay)' # {}
                PROVE  \E q \in During(k, x, Span(k[3]) - MaxDelay)' :
                           Cardinality(During(k, x, Span(k[3]) - MaxDelay)')
                               <= Limit(source[q], k[3])
    BY DEF WindowBounded
  <1>1. During(k, x, Span(k[3]) - MaxDelay)' = During(k, x, Span(k[3]) - MaxDelay)
    BY DEF During
  <1>2. x \in 0..clock
    <2>1. PICK p \in recorded[k] : x < stamp[p] /\ p \in Requests
      BY <1>1 DEF During, IInv, TypeOK
    <2>2. stamp[p] <= clock /\ stamp[p] \in Nat /\ clock \in Nat
      BY <2>1 DEF IInv, PendingAreYoung, RecordedHaveArrived, TypeOK
    <2>. QED
      BY <2>1, <2>2
  <1>. QED
    BY <1>1, <1>2 DEF WindowBounded

LEMMA NextKeepsBound ==
    ASSUME IInv, WindowBounded, DistinctStamps, [Next]_vars
    PROVE  IInv' /\ WindowBounded'
  <1>1. CASE \E r \in Requests : CheckMinute(r) \/ CheckHour(r)
    BY <1>1, CheckSteps
  <1>2. CASE \/ \E r \in Requests : Arrive(r) \/ LoadScript(r) \/ Degrade(r)
             \/ RedisFails \/ RedisReturns \/ Tick
    BY <1>2, OtherSteps, ClockKeepsBound
  <1>3. CASE UNCHANGED vars
    <2>1. UNCHANGED <<clock, at, source, stamp, minuteOK, retryAfter, zset, expires, recorded,
                      loaded, script, up>>
      BY <1>3 DEF vars, redis
    <2>. QED
      BY <2>1 DEF IInv, TypeOK, RecordedHaveArrived, PendingAreYoung, KeysLast, GoneAreOld,
                  StampsDiffer, WindowBounded, During
  <1>. QED
    BY <1>1, <1>2, <1>3 DEF Next

\* The limit holds in every window, for any numbers of requests, slots and
\* ticks, as long as no two requests read the same time: RateLimitMiddleware
\* and its script never record more than X-RateLimit-Limit says in a window
\* shortened by the delay of the checks.
THEOREM SlidingWindow == ASSUME DistinctStamps PROVE Spec => [](TypeOK /\ WindowBounded)
  <1>1. Init => IInv /\ WindowBounded
    BY InitInvariant
  <1>2. IInv /\ WindowBounded /\ [Next]_vars => (IInv /\ WindowBounded)'
    BY NextKeepsBound
  <1>3. IInv /\ WindowBounded => TypeOK /\ WindowBounded
    BY DEF IInv
  <1>. QED
    BY <1>1, <1>2, <1>3, PTL DEF Spec

-----------------------------------------------------------------------------
\* A request that waits for its hour has a limit for it; if its minute has
\* refused it, it has found the minute full.
RefusalsAreFounded == \A r \in Requests : at[r] = "minuted" =>
    Enforced(source[r], "hour") /\ (~minuteOK[r] => Full(r, "min"))

\* What a step leaves alone: records are kept and clocks are read once.
RecordsStay ==
    /\ UNCHANGED source
    /\ \A k \in Slots : recorded[k] \subseteq recorded'[k]
    /\ \A r \in Requests : at[r] # "idle" => stamp'[r] = stamp[r]

LEMMA ScriptRecords ==
    ASSUME TypeOK, RecordedHaveArrived, NEW r \in Requests, NEW w \in Windows, RunScript(r, w),
           at[r] # "idle"
    PROVE  /\ zset' \in [Slots -> SUBSET Requests] /\ recorded' \in [Slots -> SUBSET Requests]
           /\ expires' \in [Slots -> Nat]
           /\ \A k \in Slots : /\ recorded[k] \subseteq recorded'[k]
                               /\ recorded'[k] \subseteq recorded[k] \cup {r}
                               /\ zset'[k] \subseteq recorded'[k]
  <1>. DEFINE k == Slot(source[r], w)
              kept == InWindow(r, w)
              left == {q \in kept : stamp[q] # stamp[r]} \cup {r}
  <1>1. k \in Slots /\ Span(w) \in Nat /\ kept \subseteq zset[k] /\ kept \subseteq Requests
    BY SlotsOfRequests DEF InWindow
  <1>2. clock + Span(w) \in Nat /\ left \subseteq Requests
    BY <1>1 DEF TypeOK
  <1>3. \A j \in Slots : zset[j] \subseteq recorded[j] /\ recorded[j] \subseteq Requests
    BY DEF RecordedHaveArrived, TypeOK
  <1>4. left \subseteq zset[k] \cup {r}
    BY <1>1
  <1>5. CASE Admits(r, w)
    <2>1. /\ zset' = [zset EXCEPT ![k] = left]
          /\ expires' = [expires EXCEPT ![k] = clock + Span(w)]
          /\ recorded' = [recorded EXCEPT ![k] = @ \cup {r}]
      BY <1>5 DEF RunScript
    <2>. HIDE DEF k, kept, left
    <2>2. recorded[k] \cup {r} \subseteq Requests
      BY <1>1, <1>3
    <2>3. \A j \in Slots : /\ zset'[j] = IF j = k THEN left ELSE zset[j]
                           /\ recorded'[j] = IF j = k THEN recorded[k] \cup {r} ELSE recorded[j]
      BY <2>1 DEF TypeOK
    <2>4. /\ zset' \in [Slots -> SUBSET Requests] /\ recorded' \in [Slots -> SUBSET Requests]
          /\ expires' \in [Slots -> Nat]
      BY <1>1, <1>2, <2>1, <2>2 DEF TypeOK
    <2>. QED
      BY <1>1, <1>3, <1>4, <2>3, <2>4
  <1>6. CASE ~Admits(r, w)
    <2>1. zset' = [zset EXCEPT ![k] = kept] /\ UNCHANGED <<expires, recorded>>
      BY <1>6 DEF RunScript
    <2>. HIDE DEF k, kept
    <2>. QED
      BY <1>1, <1>3, <2>1 DEF TypeOK
  <1>. QED
    BY <1>5, <1>6

LEMMA StepsRecord ==
    ASSUME TypeOK, RecordedHaveArrived, [Next]_vars
    PROVE  TypeOK' /\ RecordedHaveArrived' /\ RecordsStay
  <1>1. ASSUME NEW r \in Requests, CheckMinute(r) \/ CheckHour(r)
        PROVE  TypeOK' /\ RecordedHaveArrived' /\ RecordsStay
    <2>1. PICK w \in Windows, to \in Places \ {"idle"} :
              /\ RunScript(r, w) /\ at[r] # "idle" /\ at' = [at EXCEPT ![r] = to]
              /\ UNCHANGED <<clock, source, stamp, loaded, script, up>>
      <3>1. CASE CheckMinute(r)
        <4>1. PICK to \in {"minuted", "forwarded", "rejected"} : at' = [at EXCEPT ![r] = to]
          BY <3>1 DEF CheckMinute, Move
        <4>. QED
          BY <3>1, <4>1 DEF CheckMinute, Move, Windows, Places, Pending
      <3>2. CASE CheckHour(r)
        <4>1. PICK to \in {"forwarded", "rejected"} : at' = [at EXCEPT ![r] = to]
          BY <3>2 DEF CheckHour, Move
        <4>. QED
          BY <3>2, <4>1 DEF CheckHour, Move, Windows, Places, Pending
      <3>. QED
        BY <1>1, <3>1, <3>2
    <2>2. /\ zset' \in [Slots -> SUBSET Requests] /\ recorded' \in [Slots -> SUBSET Requests]
          /\ expires' \in [Slots -> Nat]
          /\ \A k \in Slots : /\ recorded[k] \subseteq recorded'[k]
                              /\ recorded'[k] \subseteq recorded[k] \cup {r}
                              /\ zset'[k] \subseteq recorded'[k]
      BY <2>1, ScriptRecords
    <2>3. minuteOK' \in [Requests -> BOOLEAN] /\ retryAfter' \in [Requests -> Nat]
      <3>1. CASE CheckMinute(r)
        <4>1. MinuteRetryAfter(r) \in Nat
          BY RetryAfterIsNatural
        <4>2. Admits(r, "min") \in BOOLEAN
          BY DEF Admits
        <4>. QED
          BY <3>1, <4>1, <4>2 DEF CheckMinute, TypeOK
      <3>2. CASE CheckHour(r)
        <4>1. Hour \div Second \in Nat
          BY RateAssumption, Division
        <4>. QED
          BY <3>2, <4>1 DEF CheckHour, TypeOK
      <3>. QED
        BY <1>1, <3>1, <3>2
    <2>4. TypeOK'
      BY <2>1, <2>2, <2>3 DEF TypeOK
    <2>5. \A p \in Requests : at'[p] = IF p = r THEN to ELSE at[p]
      BY <2>1 DEF TypeOK
    <2>6. RecordedHaveArrived'
      <3>1. ASSUME NEW k \in Slots, NEW p \in recorded'[k]
            PROVE  at'[p] # "idle"
        BY <2>2, <2>5 DEF RecordedHaveArrived, TypeOK
      <3>. QED
        BY <2>2, <3>1 DEF RecordedHaveArrived
    <2>7. RecordsStay
      BY <2>1, <2>2 DEF RecordsStay
    <2>. QED
      BY <2>4, <2>6, <2>7
  <1>2. ASSUME NEW r \in Requests, Arrive(r)
        PROVE  TypeOK' /\ RecordedHaveArrived' /\ RecordsStay
    <2>1. /\ UNCHANGED <<zset, expires, recorded, source>> /\ at[r] = "idle"
          /\ \A p \in Requests : at'[p] = IF p = r THEN "stamped" ELSE at[p]
          /\ \A p \in Requests : p # r => stamp'[p] = stamp[p]
      BY <1>2 DEF Arrive, Move, redis, TypeOK
    <2>2. TypeOK'
      BY <1>2 DEF Arrive, Move, redis, TypeOK, Places, Pending
    <2>. QED
      BY <2>1, <2>2 DEF RecordedHaveArrived, RecordsStay, TypeOK
  <1>3. ASSUME NEW r \in Requests, Degrade(r)
        PROVE  TypeOK' /\ RecordedHaveArrived' /\ RecordsStay
    <2>1. /\ UNCHANGED <<zset, expires, recorded, source, stamp>>
          /\ \A p \in Requests : at'[p] = IF p = r THEN "degraded" ELSE at[p]
      BY <1>3 DEF Degrade, redis, TypeOK
    <2>2. TypeOK'
      BY <1>3 DEF Degrade, redis, TypeOK, Places
    <2>. QED
      BY <2>1, <2>2 DEF RecordedHaveArrived, RecordsStay, TypeOK
  <1>4. CASE (\E r \in Requests : LoadScript(r)) \/ RedisFails \/ RedisReturns \/ Tick
    <2>1. UNCHANGED <<at, source, stamp, minuteOK, retryAfter, zset, expires, recorded>>
      BY <1>4 DEF LoadScript, RedisFails, RedisReturns, Tick, redis
    <2>2. clock' = clock \/ clock' = clock + 1
      BY <1>4 DEF LoadScript, RedisFails, RedisReturns, Tick
    <2>3. loaded' \in {loaded, TRUE} /\ script' \in {script, TRUE, FALSE} /\ up' \in {up, TRUE, FALSE}
      BY <1>4 DEF LoadScript, RedisFails, RedisReturns, Tick
    <2>4. clock' \in Nat
      BY <2>2 DEF TypeOK
    <2>5. loaded' \in BOOLEAN /\ script' \in BOOLEAN /\ up' \in BOOLEAN
      BY <2>3 DEF TypeOK
    <2>6. TypeOK'
      BY <2>1, <2>4, <2>5 DEF TypeOK
    <2>. QED
      BY <2>1, <2>6 DEF RecordedHaveArrived, RecordsStay
  <1>5. CASE UNCHANGED vars
    BY <1>5 DEF vars, redis, TypeOK, RecordedHaveArrived, RecordsStay
  <1>. QED
    BY <1>1, <1>2, <1>3, <1>4, <1>5 DEF Next

\* A full window stays full.
LEMMA FullStays ==
    ASSUME TypeOK, TypeOK', RecordedHaveArrived, RecordsStay,
           NEW r \in Requests, at[r] # "idle", NEW w \in Windows, Full(r, w)
    PROVE  Full(r, w)'
  <1>. DEFINE k == Slot(source[r], w)
              old == {q \in recorded[k] : stamp[r] < stamp[q] + Span(w)}
              new == {q \in recorded'[k] : stamp'[r] < stamp'[q] + Span(w)}
  <1>1. k \in Slots /\ k' = k /\ Limit(source[r], w) \in Nat /\ source' = source
    BY SlotsOfRequests DEF RecordsStay, Slot, Identity
  <1>2. old \subseteq new
    BY <1>1 DEF RecordsStay, RecordedHaveArrived, TypeOK
  <1>3. IsFiniteSet(new)
    <2>1. new \subseteq Requests
      BY <1>1 DEF TypeOK
    <2>. QED
      BY <2>1, RateAssumption, FS_Subset
  <1>4. IsFiniteSet(old) /\ Cardinality(old) <= Cardinality(new)
    BY <1>2, <1>3, FS_Subset
  <1>5. Cardinality(old) \in Nat /\ Cardinality(new) \in Nat
    BY <1>3, <1>4, FS_CardinalityType
  <1>6. Cardinality(old) >= Limit(source[r], w) /\ Enforced(source[r], w)
    BY DEF Full
  <1>7. Full(r, w)' <=> Enforced(source[r], w) /\ Cardinality(new) >= Limit(source[r], w)
    BY <1>1 DEF Full, Enforced, Limit
  <1>. QED
    BY <1>1, <1>4, <1>5, <1>6, <1>7

\* A check that does not admit has counted requests recorded in its window.
LEMMA RefusedIsFull ==
    ASSUME TypeOK, RecordedHaveArrived, NEW r \in Requests, NEW w \in Windows, ~Admits(r, w),
           Enforced(source[r], w)
    PROVE  Full(r, w)
  <1>. DEFINE k == Slot(source[r], w)
              full == {q \in recorded[k] : stamp[r] < stamp[q] + Span(w)}
  <1>1. k \in Slots /\ Limit(source[r], w) \in Nat /\ Span(w) \in Nat
    BY SlotsOfRequests
  <1>2. InWindow(r, w) \subseteq full
    BY <1>1 DEF InWindow, RecordedHaveArrived, TypeOK
  <1>3. IsFiniteSet(full)
    <2>1. full \subseteq Requests
      BY <1>1 DEF TypeOK
    <2>. QED
      BY <2>1, RateAssumption, FS_Subset
  <1>4. IsFiniteSet(InWindow(r, w)) /\ Cardinality(InWindow(r, w)) <= Cardinality(full)
    BY <1>2, <1>3, FS_Subset
  <1>5. Cardinality(InWindow(r, w)) \in Nat /\ Cardinality(full) \in Nat
    BY <1>3, <1>4, FS_CardinalityType
  <1>6. Cardinality(InWindow(r, w)) >= Limit(source[r], w)
    BY <1>1, <1>5 DEF Admits
  <1>7. Full(r, w) <=> Enforced(source[r], w) /\ Cardinality(full) >= Limit(source[r], w)
    BY DEF Full
  <1>. QED
    BY <1>1, <1>4, <1>5, <1>6, <1>7

LEMMA StepsRefuseWithReason ==
    ASSUME TypeOK, RecordedHaveArrived, RefusalsAreFounded, RejectedOnlyWhenFull, [Next]_vars
    PROVE  RefusalsAreFounded' /\ RejectedOnlyWhenFull'
  <1>1. TypeOK' /\ RecordsStay
    BY StepsRecord
  <1>2. /\ "min" \in Windows /\ "hour" \in Windows
        /\ source' = source /\ \A r \in Requests : Enforced(source[r], "min")
    BY <1>1 DEF Windows, RecordsStay, Enforced
  <1>3. ASSUME NEW r \in Requests, at'[r] = at[r], minuteOK'[r] = minuteOK[r]
        PROVE  /\ at'[r] = "minuted" => Enforced(source[r], "hour") /\ (~minuteOK'[r] => Full(r, "min")')
               /\ at'[r] = "rejected" => \E w \in Windows : Full(r, w)'
    BY <1>1, <1>2, <1>3, FullStays DEF RefusalsAreFounded, RejectedOnlyWhenFull
  <1>4. ASSUME NEW r \in Requests, CheckMinute(r)
        PROVE  RefusalsAreFounded' /\ RejectedOnlyWhenFull'
    <2>1. /\ at[r] = "stamped" /\ minuteOK'[r] = Admits(r, "min")
          /\ at'[r] = "rejected" => ~Admits(r, "min")
          /\ at'[r] = "minuted" => Enforced(source[r], "hour")
          /\ \A p \in Requests : p # r => at'[p] = at[p] /\ minuteOK'[p] = minuteOK[p]
      BY <1>4 DEF CheckMinute, Move, TypeOK
    <2>2. ~Admits(r, "min") => Full(r, "min")'
      BY <1>1, <1>2, <2>1, RefusedIsFull, FullStays
    <2>3. ASSUME NEW p \in Requests
          PROVE  /\ at'[p] = "minuted" => Enforced(source[p], "hour") /\ (~minuteOK'[p] => Full(p, "min")')
                 /\ at'[p] = "rejected" => \E w \in Windows : Full(p, w)'
      <3>1. CASE p = r
        BY <1>2, <2>1, <2>2, <3>1
      <3>2. CASE p # r
        BY <1>3, <2>1, <3>2
      <3>. QED
        BY <3>1, <3>2
    <2>. QED
      BY <1>2, <2>3 DEF RefusalsAreFounded, RejectedOnlyWhenFull, Enforced, Limit
  <1>5. ASSUME NEW r \in Requests, CheckHour(r)
        PROVE  RefusalsAreFounded' /\ RejectedOnlyWhenFull'
    <2>1. /\ at[r] = "minuted" /\ at'[r] # "minuted"
          /\ at'[r] = "rejected" => ~minuteOK[r] \/ ~Admits(r, "hour")
          /\ \A p \in Requests : p # r => at'[p] = at[p] /\ minuteOK'[p] = minuteOK[p]
      BY <1>5 DEF CheckHour, Move, TypeOK
    <2>2. at'[r] = "rejected" => \E w \in Windows : Full(r, w)'
      BY <1>1, <1>2, <2>1, RefusedIsFull, FullStays DEF RefusalsAreFounded
    <2>3. ASSUME NEW p \in Requests
          PROVE  /\ at'[p] = "minuted" => Enforced(source[p], "hour") /\ (~minuteOK'[p] => Full(p, "min")')
                 /\ at'[p] = "rejected" => \E w \in Windows : Full(p, w)'
      <3>1. CASE p = r
        BY <2>1, <2>2, <3>1
      <3>2. CASE p # r
        BY <1>3, <2>1, <3>2
      <3>. QED
        BY <3>1, <3>2
    <2>. QED
      BY <1>2, <2>3 DEF RefusalsAreFounded, RejectedOnlyWhenFull, Enforced, Limit
  <1>6. ASSUME NEW r \in Requests, Arrive(r) \/ Degrade(r)
        PROVE  RefusalsAreFounded' /\ RejectedOnlyWhenFull'
    <2>1. /\ at'[r] \in {"stamped", "degraded"}
          /\ \A p \in Requests : p # r => at'[p] = at[p] /\ minuteOK'[p] = minuteOK[p]
      BY <1>6 DEF Arrive, Degrade, Move, TypeOK
    <2>2. ASSUME NEW p \in Requests
          PROVE  /\ at'[p] = "minuted" => Enforced(source[p], "hour") /\ (~minuteOK'[p] => Full(p, "min")')
                 /\ at'[p] = "rejected" => \E w \in Windows : Full(p, w)'
      BY <1>3, <2>1
    <2>. QED
      BY <1>2, <2>2 DEF RefusalsAreFounded, RejectedOnlyWhenFull, Enforced, Limit
  <1>7. CASE \/ \E r \in Requests : LoadScript(r)
             \/ RedisFails \/ RedisReturns \/ Tick \/ UNCHANGED vars
    <2>1. at' = at /\ minuteOK' = minuteOK
      BY <1>7 DEF LoadScript, RedisFails, RedisReturns, Tick, vars
    <2>2. ASSUME NEW p \in Requests
          PROVE  /\ at'[p] = "minuted" => Enforced(source[p], "hour") /\ (~minuteOK'[p] => Full(p, "min")')
                 /\ at'[p] = "rejected" => \E w \in Windows : Full(p, w)'
      BY <1>3, <2>1
    <2>. QED
      BY <1>2, <2>2 DEF RefusalsAreFounded, RejectedOnlyWhenFull, Enforced, Limit
  <1>. QED
    BY <1>4, <1>5, <1>6, <1>7 DEF Next

\* Nobody is rejected below the limit, equal timestamps, restarts of Redis
\* and late checks included: RateLimitMiddleware answers 429 only to a
\* request one of whose windows has all the requests that it may have.
THEOREM RejectionsAreFounded == Spec => []RejectedOnlyWhenFull
  <1>1. Init => TypeOK /\ RecordedHaveArrived /\ RefusalsAreFounded /\ RejectedOnlyWhenFull
    BY InitInvariant
    DEF Init, IInv, RefusalsAreFounded, RejectedOnlyWhenFull
  <1>2. TypeOK /\ RecordedHaveArrived /\ RefusalsAreFounded /\ RejectedOnlyWhenFull /\ [Next]_vars
        => (TypeOK /\ RecordedHaveArrived /\ RefusalsAreFounded /\ RejectedOnlyWhenFull)'
    BY StepsRecord, StepsRefuseWithReason
  <1>. QED
    BY <1>1, <1>2, PTL DEF Spec

-----------------------------------------------------------------------------
\* A quotient is the whole part.
LEMMA Quotient ==
    ASSUME NEW x \in Nat, NEW d \in Nat \ {0}
    PROVE  /\ x \div d \in Nat /\ d * (x \div d) <= x /\ x < d * (x \div d) + d
           /\ x % d \in Nat /\ x % d < d /\ x % d <= x
  BY SMT

\* What is told in whole seconds is at most half a second off, or is the least
\* that can be told.
LEMMA RoundedIsClose ==
    ASSUME NEW x \in Nat, x > 0
    PROVE  /\ Rounded(x) \in Nat /\ Rounded(x) * Second \in Nat
           /\ 2 * x < 2 * (Rounded(x) * Second) + Second
           /\ Rounded(x) * Second = Second \/ 2 * (Rounded(x) * Second) <= 2 * x + Second
  <1>1. Second \in Nat \ {0} /\ 2 * Second \in Nat \ {0} /\ 2 * x + Second \in Nat
    BY RateAssumption
  <1>2. CASE 2 * x < 3 * Second
    BY <1>1, <1>2 DEF Rounded
  <1>3. CASE ~(2 * x < 3 * Second)
    <2> DEFINE n == (2 * x + Second) \div (2 * Second)
    <2>1. /\ n \in Nat /\ (2 * Second) * n <= 2 * x + Second
          /\ 2 * x + Second < (2 * Second) * n + 2 * Second
      BY <1>1, Quotient
    <2>2. Rounded(x) = n
      BY <1>3 DEF Rounded
    <2> HIDE DEF n
    <2>3. (2 * Second) * n = 2 * (n * Second) /\ n * Second \in Nat
      BY <1>1, <2>1
    <2> QED
      BY <1>1, <2>1, <2>2, <2>3
  <1> QED
    BY <1>2, <1>3

\* The oldest entry of a window, as the script tells it.
LEMMA OldestIs ==
    ASSUME TypeOK, NEW r \in Requests, NEW q \in InWindow(r, "min"),
           \A p \in InWindow(r, "min") : stamp[q] <= stamp[p]
    PROVE  Oldest(r) = stamp[q] - (stamp[q] % Second)
  <1> DEFINE stamps == {stamp[p] : p \in InWindow(r, "min")}
             least == CHOOSE s \in stamps : \A t \in stamps : s <= t
  <1>1. stamps \in SUBSET Nat /\ stamp[q] \in stamps /\ \A t \in stamps : stamp[q] <= t
    BY SlotsOfRequests DEF TypeOK, Windows
  <1>2. least \in stamps /\ \A t \in stamps : least <= t
    BY <1>1
  <1> HIDE DEF least
  <1>3. least = stamp[q]
    BY <1>1, <1>2
  <1>4. Oldest(r) = least - (least % Second)
    BY <1>1 DEF Oldest, least
  <1> QED
    BY <1>3, <1>4

LEMMA WaitIsClose ==
    ASSUME TypeOK, NEW r \in Requests, NEW q \in InWindow(r, "min"),
           \A p \in InWindow(r, "min") : stamp[q] <= stamp[p]
    PROVE  LET wait == MinuteRetryAfter(r) * Second
               left == stamp[q] + Minute - stamp[r]
           IN  2 * left < 2 * wait + 3 * Second /\ wait <= left + Second
  <1> DEFINE wait == MinuteRetryAfter(r) * Second
             left == stamp[q] + Minute - stamp[r]
             cut == stamp[q] % Second
  <1>1. /\ q \in Requests /\ stamp[q] \in Nat /\ stamp[r] \in Nat
        /\ Second \in Nat \ {0} /\ Minute \in Nat
    BY SlotsOfRequests, RateAssumption DEF TypeOK, Windows
  <1>2. stamp[q] + Minute > stamp[r]
    BY DEF InWindow, Span
  <1>3. left \in Nat /\ left > 0
    BY <1>1, <1>2
  <1>4. cut \in Nat /\ cut < Second
    BY <1>1, Quotient
  <1>5. Oldest(r) = stamp[q] - cut
    BY OldestIs
  <1> HIDE DEF cut
  <1>6. Oldest(r) + Minute - stamp[r] = left - cut /\ (Oldest(r) + Minute <= stamp[r] <=> left <= cut)
    BY <1>1, <1>4, <1>5
  <1> HIDE DEF left
  <1>7. CASE left <= cut
    <2>1. wait = Second
      BY <1>1, <1>6, <1>7 DEF MinuteRetryAfter
    <2> QED
      BY <1>1, <1>3, <1>4, <1>7, <2>1 DEF left
  <1>8. CASE ~(left <= cut)
    <2> DEFINE x == left - cut
    <2>1. x \in Nat /\ x > 0
      BY <1>3, <1>4, <1>8
    <2>2. wait = Rounded(x) * Second
      BY <1>6, <1>8 DEF MinuteRetryAfter
    <2> HIDE DEF x, wait
    <2>3. /\ wait \in Nat /\ 2 * x < 2 * wait + Second
          /\ wait = Second \/ 2 * wait <= 2 * x + Second
      BY <2>1, <2>2, RoundedIsClose
    <2>4. 2 * left < 2 * wait + 3 * Second /\ wait <= left + Second
      BY <1>1, <1>3, <1>4, <2>1, <2>3 DEF x
    <2> QED
      BY <2>4 DEF left, wait
  <1> QED
    BY <1>7, <1>8

\* For any limits, any length of a second and equal timestamps: what a rejected
\* request is told to wait is less than one and a half seconds too little and at
\* most a second too much, although it is computed from whole seconds.
THEOREM RetryAfterIsHonest == Spec => RetryAfterIsClose
  <1>1. Init => TypeOK /\ RecordedHaveArrived
    BY InitInvariant DEF IInv
  <1>2. TypeOK /\ RecordedHaveArrived /\ [Next]_vars => (TypeOK /\ RecordedHaveArrived)'
    BY StepsRecord
  <1>3. ASSUME TypeOK, NEW r \in Requests, CheckMinute(r), ~minuteOK'[r]
        PROVE  \A q \in InWindow(r, "min") :
                    (\A p \in InWindow(r, "min") : stamp[q] <= stamp[p]) =>
                        LET wait == retryAfter'[r] * Second
                            left == stamp[q] + Minute - stamp[r]
                        IN  2 * left < 2 * wait + 3 * Second /\ wait <= left + Second
    <2>1. ~Admits(r, "min")
      BY <1>3 DEF CheckMinute, TypeOK
    <2>2. retryAfter'[r] = MinuteRetryAfter(r)
      BY <1>3, <2>1 DEF CheckMinute, TypeOK
    <2> QED
      BY <1>3, <2>2, WaitIsClose
  <1>4. TypeOK => [\A r \in Requests :
            CheckMinute(r) /\ ~minuteOK'[r] =>
                \A q \in InWindow(r, "min") :
                    (\A p \in InWindow(r, "min") : stamp[q] <= stamp[p]) =>
                        LET wait == retryAfter'[r] * Second
                            left == stamp[q] + Minute - stamp[r]
                        IN  2 * left < 2 * wait + 3 * Second /\ wait <= left + Second]_vars
    BY <1>3
  <1> QED
    BY <1>1, <1>2, <1>4, PTL DEF Spec, RetryAfterIsClose
=============================================================================
